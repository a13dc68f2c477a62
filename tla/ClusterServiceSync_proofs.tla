---------------------- MODULE ClusterServiceSync_proofs ----------------------
(***************************************************************************)
(* Proof that overlapping syncs converge: SyncedMeansConfigured, for any    *)
(* number of replicas, any configurations and any requests beside them.     *)
(*                                                                          *)
(* A URL that is not as configured is somebody's debt: of a replica whose   *)
(* last sync applied something else or failed, or of one whose sync is      *)
(* still to come to it.  Whoever makes it so owes it, unless a replica was   *)
(* told that a write of its last sync was done when it was not.             *)
(***************************************************************************)
EXTENDS ClusterServiceSteps_proofs

USE StoreAssumption, ServiceAssumption

-----------------------------------------------------------------------------
(* The invariant.                                                           *)

URLsOf(config) == {AddTrailingSlashToURL(e.url) : e \in config}

\* A row that has no entry in the configuration and that w is still to delete.
\* The list has the rows as they were when the sync began: the IDs count.
ToBeDeleted(w, c) ==
  \/ \E d \in sync[w].toDelete : d.cluster_id = c.cluster_id
  \/ pc[w] \in Deleting /\ obj[w].cluster_id = c.cluster_id

\* w's last sync did not apply config, or has not come to u yet.  Once an UPDATE
\* found no row, w owes u only as long as the row does not come back: then
\* FirstOrCreate writes nothing, and whoever brought it back owes u.
Owes(w, config, u) ==
  \/ sync[w].config # config
  \/ sync[w].result = "error"
  \/ \E e \in sync[w].pending : AddTrailingSlashToURL(e.url) = u
  \/ /\ pc[w] \in Saving
     /\ AddTrailingSlashToURL(obj[w].url) = u
     /\ pc[w] = "first" => Load(cluster, obj[w].cluster_id) = {}
  \/ /\ u \notin URLsOf(config)
     /\ \E c \in cluster : c.url = u /\ ToBeDeleted(w, c)

Began(w) == sync[w].runs # 0

Accounted(config, u) ==
  \/ AsConfigured(config, u)
  \/ \E w \in Replicas : Began(w) /\ Owes(w, config, u)
  \/ \A w \in Replicas : ~Began(w)

\* What a worker knows of its sync, from where it is.
WorkOK(w) ==
  /\ pc[w] # "idle" => Began(w) /\ sync[w].result = "none"
  /\ sync[w].result = "ok" => Began(w) /\ sync[w].pending = {} /\ sync[w].toDelete = {}
  /\ sync[w].pending \subseteq sync[w].config
  /\ pc[w] \in Saving => \E e \in sync[w].config :
       /\ AddTrailingSlashToURL(e.url) = AddTrailingSlashToURL(obj[w].url)
       /\ e.token_provider_id = obj[w].token_provider_id

WorkersOK == \A w \in Replicas : WorkOK(w)

Debts == swallowed = {} =>
           \A config \in SUBSET ConfigEntries, u \in URLs :
             ~TouchedByAPI(u) => Accounted(config, u)

-----------------------------------------------------------------------------
(* What the API wrote stays written.                                        *)

FreshOK == \A r \in Requests : pc[r] = "new" => call[r] = None

LEMMA CallsStay ==
  ASSUME Inv, FreshOK, NEW p \in Procs, StepOf(p)
  PROVE  /\ FreshOK'
         /\ \A r \in Requests : call[r] # None => call'[r] = call[r]
<1>1. pc \in [Procs -> RequestLabels \cup WorkerLabels] /\ call \in [Requests -> Calls \cup {None}]
  BY DEF Inv, Typed, TypeOK
<1>2. \A r \in Requests : r \in Procs /\ r \notin Replicas
  BY DEF Procs, ServiceAssumption
<1>3. \A r \in Requests : r # p => pc'[r] = pc[r] /\ call'[r] = call[r]
  BY <1>2, Alone DEF Stays
<1>4. ASSUME p \in Requests PROVE pc'[p] # "new"
  <2>1. ASSUME NEW l, Goto(p, l) PROVE pc'[p] = l
    BY <1>1, <2>1 DEF Goto
  <2>2. ASSUME NEW a, Saved(p, a) PROVE pc'[p] # "new"
    BY <2>1, <2>2 DEF Saved, Reply
  <2>3. ASSUME NEW a, Deleted(p, a) PROVE pc'[p] # "new"
    BY <2>1, <2>3 DEF Deleted, Reply
  <2>4. ASSUME Run(p) PROVE pc'[p] # "new"
    BY <2>1, <2>2, <2>3, <2>4
    DEF Run, FindExisting, NormalizeFails, UpdateRow, FirstOrCreate, InsertRow, LoadToDelete,
        DeleteRow
  <2>5. ASSUME Arrive(p) \/ RunRequest(p) PROVE pc'[p] # "new"
    BY <2>1, <2>4, <2>5
    DEF Arrive, Admit, Refuse, Reply, Proceed, RunRequest, FillToken, FindToLink, LoadLink,
        InsertLink, DeleteLink
  <2>6. ASSUME Fail(p) \/ LoseCommit(p) PROVE pc'[p] # "new"
    BY <2>1, <2>2, <2>3, <2>6 DEF Fail, LoseCommit, Reply
  <2> QED BY <1>2, <1>4, <2>5, <2>6 DEF StepOf
<1>5. ASSUME p \in Requests, pc[p] # "new" PROVE call'[p] = call[p]
  BY <1>2, <1>5
  DEF StepOf, Arrive, RunRequest, Run, FindExisting, NormalizeFails, UpdateRow, FirstOrCreate,
      InsertRow, LoadToDelete, DeleteRow, FillToken, FindToLink, LoadLink, InsertLink,
      DeleteLink, Fail, LoseCommit
<1>6. FreshOK'
  BY <1>3, <1>4 DEF FreshOK
<1> QED BY <1>3, <1>5, <1>6 DEF FreshOK

LEMMA TouchesStay ==
  ASSUME Inv, FreshOK, NEW p \in Procs, StepOf(p), NEW u, ~TouchedByAPI(u)'
  PROVE  ~TouchedByAPI(u)
<1> SUFFICES ASSUME NEW r \in Requests,
                    \/ call[r] \in DeleteCalls
                    \/ call[r] \in CreateCalls /\ RequestedURL(r) = u
             PROVE  FALSE
  BY DEF TouchedByAPI
<1>1. call[r] # None
  BY DEF None, DeleteCalls, CreateCalls
<1>2. call'[r] = call[r]
  BY <1>1, CallsStay
<1> QED BY <1>2 DEF TouchedByAPI, RequestedURL

-----------------------------------------------------------------------------
(* What a worker knows.                                                     *)

\* CreateOrSave returned to worker w.
LEMMA SavedWorker ==
  ASSUME Inv, NEW w \in Replicas, NEW a, Saved(w, a)
  PROVE  \/ a = "ok" /\ pc'[w] = "next" /\ sync'[w] = sync[w]
         \/ /\ a # "ok" /\ pc'[w] = "idle"
            /\ sync'[w] = [sync[w] EXCEPT !.result = "error"]
<1>1. w \notin Requests /\ w \in Procs
  BY DEF ServiceAssumption, Procs
<1> QED BY <1>1 DEF Saved, Goto, Inv, Typed, TypeOK

LEMMA DeletedWorker ==
  ASSUME Inv, NEW w \in Replicas, NEW a, Deleted(w, a)
  PROVE  pc'[w] = "purge" /\ sync'[w] = sync[w]
<1>1. w \notin Requests /\ w \in Procs
  BY DEF ServiceAssumption, Procs
<1> QED BY <1>1 DEF Deleted, Goto, Inv, Typed, TypeOK

LEMMA GotoWorker ==
  ASSUME Inv, NEW w \in Replicas, NEW l, Goto(w, l)
  PROVE  pc'[w] = l
  BY DEF Goto, Inv, Typed, TypeOK, Procs

\* A statement of CreateOrSave or Delete.
LEMMA RunWork ==
  ASSUME Inv, NEW w \in Replicas, WorkOK(w), Run(w)
  PROVE  WorkOK(w)'
<1>1. /\ w \in Procs /\ sync[w] \in Syncs
      /\ pc[w] \in Saving \cup Deleting
  BY DEF Run, FindExisting, NormalizeFails, UpdateRow, FirstOrCreate, InsertRow, LoadToDelete,
         DeleteRow, Saving, Deleting, Procs, Inv, Typed, TypeOK
<1>2. Began(w) /\ sync[w].result = "none" /\ sync[w].pending \subseteq sync[w].config
  BY <1>1 DEF WorkOK, Saving, Deleting
<1>3. ASSUME NEW a, Saved(w, a) PROVE WorkOK(w)'
  <2>1. CASE pc'[w] = "next" /\ sync'[w] = sync[w]
    BY <1>2, <2>1 DEF WorkOK, Began, Saving
  <2>2. CASE pc'[w] = "idle" /\ sync'[w] = [sync[w] EXCEPT !.result = "error"]
    <3>1. /\ sync'[w].pending = sync[w].pending /\ sync'[w].config = sync[w].config
          /\ sync'[w].result = "error"
      BY <1>1, <2>2 DEF Syncs
    <3> QED BY <1>2, <2>2, <3>1 DEF WorkOK, Saving
  <2> QED BY <1>3, <2>1, <2>2, SavedWorker
<1>4. ASSUME NEW a, Deleted(w, a) PROVE WorkOK(w)'
  BY <1>1, <1>2, <1>4, DeletedWorker DEF WorkOK, Began, Saving, Syncs
<1>5. ASSUME NEW l \in Saving \cup Deleting, Goto(w, l), UNCHANGED sync,
             l \in Saving => /\ pc[w] \in Saving
                             /\ AddTrailingSlashToURL(obj'[w].url) = AddTrailingSlashToURL(obj[w].url)
                             /\ obj'[w].token_provider_id = obj[w].token_provider_id
      PROVE  WorkOK(w)'
  <2>1. pc'[w] = l
    BY <1>5, GotoWorker
  <2> QED BY <1>2, <1>5, <2>1 DEF WorkOK, Began
<1>6. CASE FindExisting(w)
  <2>1. PICK l \in {"update", "insert"} : \E id :
          /\ obj' = [obj EXCEPT ![w].cluster_id = id, ![w].url = AddTrailingSlashToURL(@)]
          /\ Goto(w, l)
          /\ UNCHANGED sync
    BY <1>6 DEF FindExisting
  <2>0. PICK id : obj' = [obj EXCEPT ![w].cluster_id = id, ![w].url = AddTrailingSlashToURL(@)]
    BY <2>1
  <2>2. obj[w] \in Objects /\ pc[w] \in Saving
    BY <1>1, <1>6 DEF FindExisting, Inv, Typed, ControlOK, Saving
  <2>3. obj'[w] = [obj[w] EXCEPT !.cluster_id = id, !.url = AddTrailingSlashToURL(@)]
    BY <1>1, <2>0 DEF Inv, Typed, TypeOK
  <2>4. /\ obj'[w].url = AddTrailingSlashToURL(obj[w].url)
        /\ obj'[w].token_provider_id = obj[w].token_provider_id
    BY <2>2, <2>3 DEF Objects
  <2>5. AddTrailingSlashToURL(obj'[w].url) = AddTrailingSlashToURL(obj[w].url)
    BY <2>2, <2>4, SlashIdempotent DEF Objects
  <2> QED BY <1>5, <2>1, <2>2, <2>4, <2>5 DEF Saving
<1>7. CASE NormalizeFails(w)
  BY <1>3, <1>7 DEF NormalizeFails
<1>8. CASE UpdateRow(w)
  BY <1>3, <1>5, <1>8 DEF UpdateRow, Saving
<1>9. CASE FirstOrCreate(w)
  BY <1>3, <1>5, <1>9 DEF FirstOrCreate, Saving
<1>10. CASE InsertRow(w)
  BY <1>3, <1>10 DEF InsertRow
<1>11. CASE LoadToDelete(w)
  BY <1>4, <1>5, <1>11 DEF LoadToDelete, Saving, Deleting
<1>12. CASE DeleteRow(w)
  BY <1>4, <1>12 DEF DeleteRow
<1> QED BY <1>6, <1>7, <1>8, <1>9, <1>10, <1>11, <1>12 DEF Run

\* The parts of a worker's state after a step that sets some of them.
LEMMA StartSyncWorker ==
  ASSUME Inv, NEW w \in Replicas, StartSync(w)
  PROVE  /\ pc[w] = "idle" /\ pc'[w] = "next" /\ UNCHANGED cluster
         /\ sync'[w].pending = sync'[w].config /\ sync'[w].toDelete = cluster
         /\ sync'[w].runs = sync[w].runs + 1 /\ sync'[w].result = "none"
<1>1. PICK config \in Configs :
        sync' = [sync EXCEPT ![w] = [config |-> config, pending |-> config,
                                     toDelete |-> cluster, runs |-> @.runs + 1,
                                     result |-> "none"]]
  BY DEF StartSync
<1>2. sync'[w] = [config |-> config, pending |-> config, toDelete |-> cluster,
                  runs |-> sync[w].runs + 1, result |-> "none"]
  BY <1>1 DEF Inv, Typed, TypeOK
<1> QED BY <1>2, GotoWorker DEF StartSync, store

LEMMA NextEntryWorker ==
  ASSUME Inv, NEW w \in Replicas, NextEntry(w)
  PROVE  /\ pc[w] = "next" /\ UNCHANGED cluster
         /\ sync'[w].config = sync[w].config /\ sync'[w].runs = sync[w].runs
         /\ sync'[w].result = sync[w].result
         /\ \/ \E e \in sync[w].pending :
                 /\ sync'[w].pending = sync[w].pending \ {e}
                 /\ sync'[w].toDelete = Keep(sync[w].toDelete, e)
                 /\ obj'[w] = [cluster_id |-> NilID, url |-> e.url,
                               token_provider_id |-> e.token_provider_id]
                 /\ pc'[w] = "find"
            \/ sync[w].pending = {} /\ pc'[w] = "purge" /\ UNCHANGED <<sync, obj>>
<1>1. w \in Procs /\ sync[w] \in Syncs
  BY DEF Procs, Inv, Typed, TypeOK
<1>2. CASE \E e \in sync[w].pending :
             /\ sync' = [sync EXCEPT ![w].pending = @ \ {e},
                                     ![w].toDelete = Keep(@, e)]
             /\ obj' = [obj EXCEPT ![w] = [cluster_id |-> NilID, url |-> e.url,
                                           token_provider_id |-> e.token_provider_id]]
             /\ Goto(w, "find")
  <2>1. PICK e \in sync[w].pending :
             /\ sync' = [sync EXCEPT ![w].pending = @ \ {e},
                                     ![w].toDelete = Keep(@, e)]
             /\ obj' = [obj EXCEPT ![w] = [cluster_id |-> NilID, url |-> e.url,
                                           token_provider_id |-> e.token_provider_id]]
             /\ Goto(w, "find")
    BY <1>2
  <2>2. sync'[w] = [sync[w] EXCEPT !.pending = @ \ {e}, !.toDelete = Keep(@, e)]
    BY <2>1 DEF Inv, Typed, TypeOK
  <2>3. /\ sync'[w].config = sync[w].config /\ sync'[w].runs = sync[w].runs
        /\ sync'[w].result = sync[w].result
        /\ sync'[w].pending = sync[w].pending \ {e}
        /\ sync'[w].toDelete = Keep(sync[w].toDelete, e)
    BY <1>1, <2>2 DEF Syncs
  <2>4. /\ pc'[w] = "find"
        /\ obj'[w] = [cluster_id |-> NilID, url |-> e.url,
                      token_provider_id |-> e.token_provider_id]
    BY <1>1, <2>1, GotoWorker DEF Inv, Typed, TypeOK
  <2>5. pc[w] = "next" /\ UNCHANGED cluster
    BY DEF NextEntry, store
  <2> QED BY <2>3, <2>4, <2>5
<1>3. CASE sync[w].pending = {} /\ Goto(w, "purge") /\ UNCHANGED <<sync, obj>>
  BY <1>3, GotoWorker DEF NextEntry, store
<1> QED BY <1>2, <1>3 DEF NextEntry

LEMMA NextDeleteWorker ==
  ASSUME Inv, NEW w \in Replicas, NextDelete(w)
  PROVE  /\ pc[w] = "purge" /\ UNCHANGED cluster
         /\ sync'[w].config = sync[w].config /\ sync'[w].runs = sync[w].runs
         /\ sync'[w].pending = sync[w].pending
         /\ \/ \E c \in sync[w].toDelete :
                 /\ sync'[w].toDelete = sync[w].toDelete \ {c}
                 /\ sync'[w].result = sync[w].result
                 /\ obj'[w] = c
                 /\ pc'[w] = "load"
            \/ /\ sync[w].toDelete = {} /\ sync'[w].toDelete = {}
               /\ sync'[w].result = "ok"
               /\ pc'[w] = "idle"
<1>1. w \in Procs /\ sync[w] \in Syncs
  BY DEF Procs, Inv, Typed, TypeOK
<1>2. CASE \E c \in sync[w].toDelete :
             /\ sync' = [sync EXCEPT ![w].toDelete = @ \ {c}]
             /\ obj' = [obj EXCEPT ![w] = c]
             /\ Goto(w, "load")
  <2>1. PICK c \in sync[w].toDelete :
             /\ sync' = [sync EXCEPT ![w].toDelete = @ \ {c}]
             /\ obj' = [obj EXCEPT ![w] = c]
             /\ Goto(w, "load")
    BY <1>2
  <2>2. sync'[w] = [sync[w] EXCEPT !.toDelete = @ \ {c}]
    BY <2>1 DEF Inv, Typed, TypeOK
  <2>3. /\ sync'[w].config = sync[w].config /\ sync'[w].runs = sync[w].runs
        /\ sync'[w].pending = sync[w].pending /\ sync'[w].result = sync[w].result
        /\ sync'[w].toDelete = sync[w].toDelete \ {c}
    BY <1>1, <2>2 DEF Syncs
  <2>4. pc'[w] = "load" /\ obj'[w] = c
    BY <1>1, <2>1, GotoWorker DEF Inv, Typed, TypeOK
  <2> QED BY <2>3, <2>4 DEF NextDelete, store
<1>3. CASE /\ sync[w].toDelete = {}
           /\ sync' = [sync EXCEPT ![w].result = "ok"]
           /\ Goto(w, "idle")
  <2>1. sync'[w] = [sync[w] EXCEPT !.result = "ok"]
    BY <1>3 DEF Inv, Typed, TypeOK
  <2>2. /\ sync'[w].config = sync[w].config /\ sync'[w].runs = sync[w].runs
        /\ sync'[w].pending = sync[w].pending /\ sync'[w].result = "ok"
        /\ sync'[w].toDelete = sync[w].toDelete
    BY <1>1, <2>1 DEF Syncs
  <2> QED BY <1>3, <2>2, GotoWorker DEF NextDelete, store
<1> QED BY <1>2, <1>3 DEF NextDelete

LEMMA ListFailsWorker ==
  ASSUME Inv, NEW w \in Replicas, ListFails(w)
  PROVE  /\ pc[w] = "idle" /\ pc'[w] = "idle" /\ UNCHANGED cluster
         /\ sync'[w].config = sync[w].config /\ sync'[w].pending = sync[w].pending
         /\ sync'[w].runs = sync[w].runs + 1 /\ sync'[w].result = "error"
<1>1. sync[w] \in Syncs
  BY DEF Inv, Typed, TypeOK
<1>2. sync'[w] = [sync[w] EXCEPT !.runs = @ + 1, !.result = "error"]
  BY DEF ListFails, Inv, Typed, TypeOK
<1>3. /\ sync'[w].config = sync[w].config /\ sync'[w].pending = sync[w].pending
      /\ sync'[w].runs = sync[w].runs + 1 /\ sync'[w].result = "error"
  BY <1>1, <1>2 DEF Syncs
<1>4. pc[w] = "idle" /\ UNCHANGED <<pc, cluster>>
  BY DEF ListFails, store
<1> QED BY <1>3, <1>4

LEMMA StepWork ==
  ASSUME Inv, SyncOK, WorkersOK, NEW p \in Procs, StepOf(p)
  PROVE  WorkersOK'
<1> SUFFICES ASSUME NEW w \in Replicas PROVE WorkOK(w)'
  BY DEF WorkersOK
<1>1. WorkOK(w) /\ w \in Procs /\ w \notin Requests
  BY DEF WorkersOK, Procs, ServiceAssumption
<1>2. sync[w] \in Syncs /\ sync[w].runs \in Nat
  BY DEF Inv, Typed, TypeOK, Syncs, ServiceAssumption
<1>3. CASE w # p
  BY <1>1, <1>3, Alone DEF Stays, WorkOK, Began
<1>4. CASE Run(w)
  BY <1>1, <1>4, RunWork
<1>5. CASE StartSync(w)
  BY <1>2, <1>5, StartSyncWorker DEF WorkOK, Began, Saving
<1>6. CASE ListFails(w)
  BY <1>1, <1>2, <1>6, ListFailsWorker DEF WorkOK, Saving
<1>7. CASE NextEntry(w)
  <2>1. Began(w)' /\ sync'[w].result = "none" /\ sync[w].pending \subseteq sync[w].config
    BY <1>1, <1>7, NextEntryWorker DEF WorkOK, Began
  <2>2. CASE pc'[w] = "purge" /\ UNCHANGED <<sync, obj>>
    BY <2>1, <2>2 DEF WorkOK, Saving
  <2>3. CASE \E e \in sync[w].pending :
               /\ sync'[w].pending = sync[w].pending \ {e}
               /\ obj'[w] = [cluster_id |-> NilID, url |-> e.url,
                             token_provider_id |-> e.token_provider_id]
    <3>1. PICK e \in sync[w].pending :
               /\ sync'[w].pending = sync[w].pending \ {e}
               /\ obj'[w] = [cluster_id |-> NilID, url |-> e.url,
                             token_provider_id |-> e.token_provider_id]
      BY <2>3
    <3>2. e \in sync[w].config /\ obj'[w].url = e.url
          /\ obj'[w].token_provider_id = e.token_provider_id
      BY <2>1, <3>1
    <3>3. sync'[w].config = sync[w].config
      BY <1>7, NextEntryWorker
    <3> QED BY <2>1, <3>1, <3>2, <3>3 DEF WorkOK
  <2> QED BY <1>7, <2>2, <2>3, NextEntryWorker
<1>8. CASE NextDelete(w)
  <2>1. sync[w].pending = {}
    BY <1>8, NextDeleteWorker DEF SyncOK, Purging
  <2>2. Began(w) /\ sync[w].result = "none"
    BY <1>1, <1>8, NextDeleteWorker DEF WorkOK
  <2> QED BY <1>1, <1>8, <2>1, <2>2, NextDeleteWorker DEF WorkOK, Began, Saving
<1>9. CASE Fail(w) \/ LoseCommit(w)
  <2>1. UNCHANGED obj
    BY <1>9 DEF Fail, LoseCommit
  <2>2. pc[w] \notin {"link.find", "link.load", "link.insert", "unlink", "lookup"}
    BY DEF Inv, Typed, TypeOK, WorkerLabels, Saving, Deleting
  <2>3. CASE pc[w] \in Saving /\ Saved(w, "internal error")
    <3>1. pc'[w] = "idle" /\ sync'[w] = [sync[w] EXCEPT !.result = "error"]
      BY <2>3, SavedWorker
    <3>2. /\ sync'[w].pending = sync[w].pending /\ sync'[w].config = sync[w].config
          /\ sync'[w].result = "error"
      BY <1>2, <3>1 DEF Syncs
    <3> QED BY <1>1, <3>1, <3>2 DEF WorkOK, Saving
  <2>4. CASE pc[w] \in {"update", "insert"} /\ Saved(w, "ok")
    <3>1. pc'[w] = "next" /\ sync'[w] = sync[w]
      BY <2>4, SavedWorker
    <3> QED BY <1>1, <2>4, <3>1 DEF WorkOK, Began, Saving
  <2>5. CASE pc[w] \in Deleting /\ \E a : Deleted(w, a)
    <3>1. pc'[w] = "purge" /\ sync'[w] = sync[w]
      BY <2>5, DeletedWorker
    <3> QED BY <1>1, <2>5, <3>1 DEF WorkOK, Began, Saving, Deleting
  <2>6. CASE Fail(w)
    BY <2>2, <2>3, <2>5, <2>6 DEF Fail
  <2>7. CASE LoseCommit(w)
    BY <2>2, <2>4, <2>5, <2>7 DEF LoseCommit, Deleting
  <2> QED BY <1>9, <2>6, <2>7
<1> QED BY <1>1, <1>3, <1>4, <1>5, <1>6, <1>7, <1>8, <1>9 DEF StepOf, RunSync

-----------------------------------------------------------------------------
(* What becomes of the rows of a URL.                                       *)

RowsStay(u) == \A c : (c \in cluster' /\ c.url = u) <=> (c \in cluster /\ c.url = u)

\* Two rows with one ID, stored or remembered, have one URL.
IDsMeanURLs ==
  \A c \in cluster :
    /\ \A p \in Procs : Holds(p) /\ c.cluster_id = obj[p].cluster_id => c.url = obj[p].url
    /\ \A w \in Replicas : \A d \in sync[w].toDelete :
         c.cluster_id = d.cluster_id => c.url = d.url

LEMMA IDMeansURL == Inv => IDsMeanURLs
<1> SUFFICES ASSUME Inv, NEW c \in cluster
             PROVE  /\ \A p \in Procs : Holds(p) /\ c.cluster_id = obj[p].cluster_id =>
                         c.url = obj[p].url
                    /\ \A w \in Replicas : \A d \in sync[w].toDelete :
                         c.cluster_id = d.cluster_id => c.url = d.url
  BY DEF IDsMeanURLs
<1>1. c \in ClusterRows
  BY DEF Inv, Typed, TypeOK
<1>2. ASSUME NEW p \in Procs, Holds(p), c.cluster_id = obj[p].cluster_id
      PROVE  c.url = obj[p].url
  <2>1. obj[p] \in ClusterRows /\ obj[p].url.slash
    BY <1>2 DEF Inv, Typed, ControlOK, SlashesOK
  <2>2. Denotes(c.cluster_id, c.url) /\ Denotes(c.cluster_id, obj[p].url)
    BY <1>2, <2>1, SlashIdempotent DEF Denotes, HasID, ClusterRows
  <2> QED BY <1>1, <2>1, <2>2 DEF Inv, IDsOK, ClusterRows
<1>3. ASSUME NEW w \in Replicas, NEW d \in sync[w].toDelete, c.cluster_id = d.cluster_id
      PROVE  c.url = d.url
  <2>1. d \in ClusterRows
    BY DEF Inv, Typed, TypeOK, Syncs
  <2>2. Denotes(c.cluster_id, c.url) /\ Denotes(c.cluster_id, d.url)
    BY <1>3 DEF Denotes
  <2> QED BY <1>1, <2>1, <2>2 DEF Inv, IDsOK, ClusterRows
<1> QED BY <1>2, <1>3

LEMMA StaysConfigured ==
  ASSUME NEW config, NEW u, AsConfigured(config, u), RowsStay(u)
  PROVE  AsConfigured(config, u)'
<1>1. {c \in cluster' : c.url = u} = {c \in cluster : c.url = u}
  BY DEF RowsStay
<1> QED BY <1>1 DEF AsConfigured

\* A worker that takes no step owes what it owed.
LEMMA OthersOwe ==
  ASSUME Inv, Inv', NEW w \in Replicas, Stays(w), NEW config, NEW u \in URLs,
         Owes(w, config, u), RowsStay(u)
  PROVE  Owes(w, config, u)'
<1>1. w \in Procs
  BY DEF Procs
<1>2. CASE \/ sync[w].config # config
           \/ sync[w].result = "error"
           \/ \E e \in sync[w].pending : AddTrailingSlashToURL(e.url) = u
  BY <1>2 DEF Owes, Stays
<1>3. CASE /\ pc[w] \in Saving
           /\ AddTrailingSlashToURL(obj[w].url) = u
           /\ pc[w] = "first" => Load(cluster, obj[w].cluster_id) = {}
  <2>1. ASSUME pc[w] = "first" PROVE Load(cluster', obj[w].cluster_id) = {}
    <3> SUFFICES ASSUME NEW c \in cluster', c.cluster_id = obj[w].cluster_id
                 PROVE  c \in cluster
      BY <1>3, <2>1 DEF Load
    <3>1. Holds(w)' /\ obj'[w] = obj[w]
      BY <2>1 DEF Holds, Stays
    <3>2. c.url = obj[w].url
      <4>1. IDsMeanURLs'
        BY IDMeansURL, PTL
      <4> QED BY <1>1, <2>1, <3>1, <4>1 DEF IDsMeanURLs
    <3>3. obj[w].url = u
      BY <1>1, <1>3, <2>1, SlashIdempotent DEF Holds, Inv, Typed, ControlOK, SlashesOK, ClusterRows
    <3> QED BY <3>2, <3>3 DEF RowsStay
  <2> QED BY <1>3, <2>1 DEF Owes, Stays
<1>4. CASE /\ u \notin URLsOf(config)
           /\ \E c \in cluster : c.url = u /\ ToBeDeleted(w, c)
  <2>1. PICK c \in cluster : c.url = u /\ ToBeDeleted(w, c)
    BY <1>4
  <2>2. c \in cluster' /\ ToBeDeleted(w, c)'
    BY <2>1 DEF RowsStay, ToBeDeleted, Stays
  <2> QED BY <1>4, <2>1, <2>2 DEF Owes
<1> QED BY <1>2, <1>3, <1>4 DEF Owes

-----------------------------------------------------------------------------
(* A worker that changes the rows of a URL makes them as its configuration   *)
(* has them; one that comes to a URL it owes does so, or owes it still.      *)

Pays(w, config, u) ==
  /\ RowsStay(u) \/ AsConfigured(config, u)'
  /\ Owes(w, config, u) => Owes(w, config, u)' \/ AsConfigured(config, u)'

\* An error leaves everything owed.
LEMMA FailedPays ==
  ASSUME Inv, NEW w \in Replicas, NEW a, a # "ok", Saved(w, a), UNCHANGED cluster,
         NEW config, NEW u
  PROVE  Pays(w, config, u)
<1>1. sync'[w] = [sync[w] EXCEPT !.result = "error"] /\ sync[w] \in Syncs
  BY SavedWorker DEF Inv, Typed, TypeOK
<1>2. sync'[w].result = "error"
  BY <1>1 DEF Syncs
<1> QED BY <1>2 DEF Pays, RowsStay, Owes

\* A row of w's object, alone for its URL, is what an entry of the
\* configuration asks for.
LEMMA Written ==
  ASSUME Inv, Inv', NEW w \in Replicas, WorkOK(w), pc[w] \in Saving, Holds(w),
         obj[w] \in cluster', NEW config, sync[w].config = config, NEW u, obj[w].url = u
  PROVE  AsConfigured(config, u)'
<1> DEFINE entries == {e \in config : AddTrailingSlashToURL(e.url) = u}
           rows    == {c \in cluster' : c.url = u}
<1>1. AddTrailingSlashToURL(obj[w].url) = u
  BY SlashIdempotent DEF Procs, Inv, Typed, ControlOK, SlashesOK, ClusterRows
<1>2. PICK e \in config : /\ AddTrailingSlashToURL(e.url) = u
                          /\ e.token_provider_id = obj[w].token_provider_id
  BY <1>1 DEF WorkOK
<1>3. e \in entries /\ obj[w] \in rows
  BY <1>2
<1>4. \A c \in rows : c = obj[w]
  BY DEF Inv, TablesOK, UniqueURL
<1>5. entries # {} /\ rows # {} /\ \A c \in rows : \E f \in entries : c.token_provider_id = f.token_provider_id
  BY <1>2, <1>3, <1>4
<1> QED BY <1>5 DEF AsConfigured

\* An entry takes only rows of its own URL off the list.
LEMMA KeepKeeps ==
  ASSUME NEW rows, NEW e, NEW d \in rows, AddTrailingSlashToURL(d.url) # AddTrailingSlashToURL(e.url)
  PROVE  d \in Keep(rows, e)
<1> DEFINE same == {c \in rows : AddTrailingSlashToURL(c.url) = AddTrailingSlashToURL(e.url)}
<1>1. d \notin same
  OBVIOUS
<1>2. CASE same = {}
  BY <1>2 DEF Keep
<1>3. CASE same # {}
  <2>1. (CHOOSE c \in same : TRUE) \in same
    BY <1>3
  <2>2. Keep(rows, e) = rows \ {CHOOSE c \in same : TRUE}
    BY <1>3 DEF Keep
  <2> HIDE DEF same
  <2> QED BY <1>1, <2>1, <2>2
<1> QED BY <1>2, <1>3

LEMMA NextEntryPays ==
  ASSUME Inv, WorkersOK, NEW w \in Replicas, NextEntry(w),
         NEW config, sync[w].config = config, NEW u \in URLs
  PROVE  Pays(w, config, u)
<1>1. /\ pc[w] = "next" /\ UNCHANGED cluster
      /\ sync'[w].config = config
      /\ sync'[w].result = sync[w].result
  BY NextEntryWorker
<1> SUFFICES ASSUME Owes(w, config, u) PROVE Owes(w, config, u)'
  BY <1>1 DEF Pays, RowsStay
<1>2. sync[w].pending \subseteq config /\ sync[w].result # "error"
  BY <1>1 DEF WorkersOK, WorkOK
<1>3. \/ \E e \in sync[w].pending : AddTrailingSlashToURL(e.url) = u
      \/ /\ u \notin URLsOf(config)
         /\ \E c \in cluster : /\ c.url = u
                               /\ \E d \in sync[w].toDelete : d.cluster_id = c.cluster_id
  BY <1>1, <1>2 DEF Owes, ToBeDeleted, Saving, Deleting
<1>4. CASE sync[w].pending = {} /\ pc'[w] = "purge" /\ UNCHANGED <<sync, obj>>
  BY <1>1, <1>3, <1>4 DEF Owes, ToBeDeleted
<1>5. CASE \E e \in sync[w].pending :
             /\ sync'[w].pending = sync[w].pending \ {e}
             /\ sync'[w].toDelete = Keep(sync[w].toDelete, e)
             /\ obj'[w] = [cluster_id |-> NilID, url |-> e.url,
                           token_provider_id |-> e.token_provider_id]
             /\ pc'[w] = "find"
  <2>1. PICK e \in sync[w].pending :
             /\ sync'[w].pending = sync[w].pending \ {e}
             /\ sync'[w].toDelete = Keep(sync[w].toDelete, e)
             /\ obj'[w] = [cluster_id |-> NilID, url |-> e.url,
                           token_provider_id |-> e.token_provider_id]
             /\ pc'[w] = "find"
    BY <1>5
  <2>2. obj'[w].url = e.url
    BY <2>1
  <2>3. CASE AddTrailingSlashToURL(e.url) = u
    BY <2>1, <2>2, <2>3 DEF Owes, Saving
  <2>4. CASE \E f \in sync[w].pending \ {e} : AddTrailingSlashToURL(f.url) = u
    BY <2>1, <2>4 DEF Owes
  <2>5. CASE /\ u \notin URLsOf(config)
             /\ \E c \in cluster : /\ c.url = u
                                   /\ \E d \in sync[w].toDelete : d.cluster_id = c.cluster_id
    <3>1. PICK c \in cluster, d \in sync[w].toDelete : c.url = u /\ d.cluster_id = c.cluster_id
      BY <2>5
    <3>2. d.url = u
      BY <3>1, IDMeansURL DEF IDsMeanURLs
    <3>3. d.url.slash
      BY DEF Inv, SlashesOK
    <3>4. AddTrailingSlashToURL(d.url) # AddTrailingSlashToURL(e.url)
      BY <1>2, <2>5, <3>2, <3>3, SlashIdempotent DEF URLsOf
    <3>5. d \in sync'[w].toDelete
      BY <2>1, <3>4, KeepKeeps
    <3> QED BY <1>1, <2>5, <3>1, <3>5 DEF Owes, ToBeDeleted
  <2> QED BY <1>3, <2>3, <2>4, <2>5
<1> QED BY <1>4, <1>5, NextEntryWorker

LEMMA NextDeletePays ==
  ASSUME Inv, SyncOK, WorkersOK, NEW w \in Replicas, NextDelete(w),
         NEW config, sync[w].config = config, NEW u \in URLs
  PROVE  Pays(w, config, u)
<1>1. /\ pc[w] = "purge" /\ UNCHANGED cluster
      /\ sync'[w].config = config
  BY NextDeleteWorker
<1> SUFFICES ASSUME Owes(w, config, u) PROVE Owes(w, config, u)'
  BY <1>1 DEF Pays, RowsStay
<1>2. sync[w].pending = {} /\ sync[w].result # "error"
  BY <1>1 DEF WorkersOK, WorkOK, SyncOK, Purging
<1>3. PICK c \in cluster, d \in sync[w].toDelete :
        u \notin URLsOf(config) /\ c.url = u /\ d.cluster_id = c.cluster_id
  BY <1>1, <1>2 DEF Owes, ToBeDeleted, Saving, Deleting
<1>4. PICK b \in sync[w].toDelete :
        /\ sync'[w].toDelete = sync[w].toDelete \ {b}
        /\ obj'[w] = b
        /\ pc'[w] = "load"
  BY <1>3, NextDeleteWorker
<1>5. ToBeDeleted(w, c)'
  BY <1>3, <1>4 DEF ToBeDeleted, Deleting
<1> QED BY <1>1, <1>3, <1>5 DEF Owes

\* What w has still to come to.
Listed(w, config, u) ==
  \/ \E e \in sync[w].pending : AddTrailingSlashToURL(e.url) = u
  \/ /\ u \notin URLsOf(config)
     /\ \E c \in cluster : /\ c.url = u
                           /\ \E d \in sync[w].toDelete : d.cluster_id = c.cluster_id

\* It is owed as long as the lists and the rows stay.
LEMMA ListedOwes ==
  ASSUME NEW w \in Replicas, sync'[w] = sync[w], NEW config, NEW u, RowsStay(u),
         Listed(w, config, u)
  PROVE  Owes(w, config, u)'
  BY DEF Owes, ToBeDeleted, RowsStay, Listed

\* Where a worker's debt is while it saves an entry, and while it deletes a row.
LEMMA SavingDebt ==
  ASSUME WorkersOK, NEW w \in Replicas, pc[w] \in Saving, NEW config,
         sync[w].config = config, NEW u, Owes(w, config, u)
  PROVE  \/ Listed(w, config, u)
         \/ /\ AddTrailingSlashToURL(obj[w].url) = u
            /\ pc[w] = "first" => Load(cluster, obj[w].cluster_id) = {}
  BY DEF Owes, ToBeDeleted, Listed, Saving, Deleting, WorkersOK, WorkOK

LEMMA DeletingDebt ==
  ASSUME WorkersOK, NEW w \in Replicas, pc[w] \in Deleting, NEW config,
         sync[w].config = config, NEW u, Owes(w, config, u)
  PROVE  \/ Listed(w, config, u)
         \/ /\ u \notin URLsOf(config)
            /\ \E c \in cluster : c.url = u /\ c.cluster_id = obj[w].cluster_id
  BY DEF Owes, ToBeDeleted, Listed, Saving, Deleting, WorkersOK, WorkOK

\* CreateOrSave returns: without an error, the URL it worked on is as
\* configured, unless the worker had nothing left to do there.
LEMMA SavedPays ==
  ASSUME Inv, WorkersOK, NEW w \in Replicas, pc[w] \in Saving, NEW a, Saved(w, a),
         a # "ok" => UNCHANGED cluster,
         NEW config, sync[w].config = config, NEW u,
         RowsStay(u) \/ AsConfigured(config, u)',
         /\ a = "ok"
         /\ AddTrailingSlashToURL(obj[w].url) = u
         /\ pc[w] = "first" => Load(cluster, obj[w].cluster_id) = {}
         => AsConfigured(config, u)'
  PROVE  Pays(w, config, u)
<1>1. CASE a # "ok"
  BY <1>1, FailedPays
<1>2. CASE a = "ok"
  <2>1. sync'[w] = sync[w]
    BY <1>2, SavedWorker
  <2> SUFFICES ASSUME Owes(w, config, u), ~AsConfigured(config, u)' PROVE Owes(w, config, u)'
    BY DEF Pays
  <2>2. Listed(w, config, u) /\ RowsStay(u)
    BY <1>2, SavingDebt
  <2> QED BY <2>1, <2>2, ListedOwes
<1> QED BY <1>1, <1>2

\* A statement of CreateOrSave that leads to the next one.
LEMMA SavingPays ==
  ASSUME WorkersOK, NEW w \in Replicas, pc[w] \in Saving,
         UNCHANGED cluster, sync'[w] = sync[w],
         pc'[w] \in Saving, pc'[w] = "first" => Load(cluster, obj'[w].cluster_id) = {},
         AddTrailingSlashToURL(obj'[w].url) = AddTrailingSlashToURL(obj[w].url),
         NEW config, sync[w].config = config, NEW u
  PROVE  Pays(w, config, u)
<1>1. RowsStay(u)
  BY DEF RowsStay
<1> SUFFICES ASSUME Owes(w, config, u) PROVE Owes(w, config, u)'
  BY <1>1 DEF Pays
<1>2. CASE AddTrailingSlashToURL(obj[w].url) = u
  BY <1>2 DEF Owes
<1>3. CASE Listed(w, config, u)
  BY <1>1, <1>3, ListedOwes
<1> QED BY <1>2, <1>3, SavingDebt

LEMMA UpdateRowPays ==
  ASSUME Inv, Inv', WorkersOK, NEW w \in Replicas, UpdateRow(w),
         NEW config, sync[w].config = config, NEW u \in URLs
  PROVE  Pays(w, config, u)
<1>1. /\ w \in Procs /\ pc[w] = "update" /\ pc[w] \in Saving /\ Holds(w) /\ WorkOK(w)
      /\ UNCHANGED obj
  BY DEF UpdateRow, Saving, Holds, Procs, WorkersOK
<1>2. CASE Goto(w, "first") /\ Load(cluster, obj[w].cluster_id) = {} /\ UNCHANGED <<cluster, sync>>
  BY <1>1, <1>2, GotoWorker, SavingPays DEF Saving
<1>3. CASE cluster' = Update(cluster, obj[w]) /\ Saved(w, "ok")
  <2>1. obj[w] \in cluster'
    BY <1>3 DEF Update
  <2>2. CASE obj[w].url = u
    <3>1. AsConfigured(config, u)'
      BY <1>1, <2>1, <2>2, Written
    <3> QED BY <1>1, <1>3, <3>1, SavedPays
  <2>3. CASE obj[w].url # u
    <3>1. RowsStay(u)
      <4>1. \A c \in cluster : c.cluster_id = obj[w].cluster_id => c.url # u
        BY <1>1, <2>3, IDMeansURL DEF IDsMeanURLs
      <4> QED BY <1>3, <2>3, <4>1 DEF RowsStay, Update
    <3>2. AddTrailingSlashToURL(obj[w].url) # u
      BY <1>1, <2>3, SlashIdempotent DEF Inv, Typed, ControlOK, SlashesOK, ClusterRows
    <3> QED BY <1>1, <1>3, <3>1, <3>2, SavedPays
  <2> QED BY <2>2, <2>3
<1> QED BY <1>2, <1>3 DEF UpdateRow

LEMMA InsertRowPays ==
  ASSUME Inv, Inv', WorkersOK, NEW w \in Replicas, InsertRow(w),
         NEW config, sync[w].config = config, NEW u \in URLs
  PROVE  Pays(w, config, u)
<1>1. /\ w \in Procs /\ pc[w] \in Saving /\ Holds(w) /\ WorkOK(w)
      /\ UNCHANGED obj
  BY DEF InsertRow, Saving, Holds, Procs, WorkersOK
<1>2. CASE Saved(w, "internal error") /\ UNCHANGED cluster
  BY <1>2, FailedPays
<1>3. CASE cluster' = cluster \cup {obj[w]} /\ Saved(w, "ok")
  <2>1. obj[w] \in cluster'
    BY <1>3
  <2>2. CASE obj[w].url = u
    <3>1. AsConfigured(config, u)'
      BY <1>1, <2>1, <2>2, Written
    <3> QED BY <1>1, <1>3, <3>1, SavedPays
  <2>3. CASE obj[w].url # u
    <3>1. RowsStay(u)
      BY <1>3, <2>3 DEF RowsStay
    <3>2. AddTrailingSlashToURL(obj[w].url) # u
      BY <1>1, <2>3, SlashIdempotent DEF Inv, Typed, ControlOK, SlashesOK, ClusterRows
    <3> QED BY <1>1, <1>3, <3>1, <3>2, SavedPays
  <2> QED BY <2>2, <2>3
<1> QED BY <1>2, <1>3 DEF InsertRow

\* A delete that finds its row, or does not, ends the debt of its URL alone.
LEMMA DeletedPays ==
  ASSUME Inv, WorkersOK, NEW w \in Replicas, pc[w] \in Deleting, NEW a, Deleted(w, a),
         NEW config, sync[w].config = config, NEW u,
         \/ AsConfigured(config, u)'
         \/ RowsStay(u) /\ \A c \in cluster : c.cluster_id = obj[w].cluster_id => c.url # u
  PROVE  Pays(w, config, u)
<1>1. sync'[w] = sync[w]
  BY DeletedWorker
<1> SUFFICES ASSUME Owes(w, config, u), ~AsConfigured(config, u)' PROVE Owes(w, config, u)'
  BY DEF Pays
<1>2. Listed(w, config, u)
  BY DeletingDebt
<1> QED BY <1>1, <1>2, ListedOwes

LEMMA LoadToDeletePays ==
  ASSUME Inv, WorkersOK, NEW w \in Replicas, LoadToDelete(w),
         NEW config, sync[w].config = config, NEW u \in URLs
  PROVE  Pays(w, config, u)
<1>1. /\ pc[w] \in Deleting /\ Target(w) = obj[w].cluster_id
      /\ UNCHANGED <<cluster, obj>> /\ RowsStay(u)
  BY DEF LoadToDelete, Deleting, Target, store, RowsStay, ServiceAssumption
<1>2. CASE Goto(w, "delete") /\ UNCHANGED sync
  <2>1. pc'[w] \in Deleting
    BY <1>2, GotoWorker DEF Deleting
  <2>2. Owes(w, config, u) => Owes(w, config, u)'
    <3> SUFFICES ASSUME Owes(w, config, u) PROVE Owes(w, config, u)'
      OBVIOUS
    <3>1. CASE Listed(w, config, u)
      BY <1>1, <1>2, <3>1, ListedOwes
    <3>2. CASE /\ u \notin URLsOf(config)
               /\ \E c \in cluster : c.url = u /\ c.cluster_id = obj[w].cluster_id
      BY <1>1, <2>1, <3>2 DEF Owes, ToBeDeleted
    <3>3. \/ Listed(w, config, u)
          \/ /\ u \notin URLsOf(config)
             /\ \E c \in cluster : c.url = u /\ c.cluster_id = obj[w].cluster_id
      BY <1>1, DeletingDebt
    <3> QED BY <3>1, <3>2, <3>3
  <2> QED BY <1>1, <2>2 DEF Pays
<1>3. CASE Load(cluster, Target(w)) = {} /\ Deleted(w, "not found")
  <2>1. \A c \in cluster : c.cluster_id # obj[w].cluster_id
    BY <1>1, <1>3 DEF Load
  <2> QED BY <1>1, <1>3, <2>1, DeletedPays
<1> QED BY <1>2, <1>3 DEF LoadToDelete

LEMMA DeleteRowPays ==
  ASSUME Inv, SyncOK, WorkersOK, NEW w \in Replicas, DeleteRow(w),
         NEW config, sync[w].config = config, NEW u \in URLs
  PROVE  Pays(w, config, u)
<1>1. /\ w \in Procs /\ pc[w] \in Deleting /\ Target(w) = obj[w].cluster_id /\ Holds(w)
  BY DEF DeleteRow, Deleting, Target, Holds, Procs, ServiceAssumption
<1>2. CASE Load(cluster, Target(w)) = {} /\ Deleted(w, "not found") /\ UNCHANGED store
  <2>1. \A c \in cluster : c.cluster_id # obj[w].cluster_id
    BY <1>1, <1>2 DEF Load
  <2>2. RowsStay(u)
    BY <1>2 DEF RowsStay, store
  <2> QED BY <1>1, <1>2, <2>1, <2>2, DeletedPays
<1>3. CASE /\ Load(cluster, Target(w)) # {}
           /\ cluster' = DeleteCluster(cluster, Target(w)) /\ Deleted(w, "ok")
  <2>1. \A c \in cluster : c.cluster_id = obj[w].cluster_id => c.url = obj[w].url
    BY <1>1, IDMeansURL DEF IDsMeanURLs
  <2>2. CASE obj[w].url = u
    <3>1. PICK d \in cluster : d.cluster_id = obj[w].cluster_id
      BY <1>1, <1>3 DEF Load
    <3>2. \A c \in cluster' : c.url # u
      <4> SUFFICES ASSUME NEW c \in cluster', c.url = u PROVE FALSE
        OBVIOUS
      <4>1. c \in cluster /\ c.cluster_id # obj[w].cluster_id
        BY <1>1, <1>3 DEF DeleteCluster
      <4>2. c = d
        BY <2>1, <2>2, <3>1, <4>1 DEF Inv, TablesOK, UniqueURL
      <4> QED BY <3>1, <4>1, <4>2
    <3>3. \A e \in config : AddTrailingSlashToURL(e.url) # u
      BY <1>1, <2>2 DEF SyncOK
    <3>4. AsConfigured(config, u)'
      BY <3>2, <3>3 DEF AsConfigured
    <3> QED BY <1>1, <1>3, <3>4, DeletedPays
  <2>3. CASE obj[w].url # u
    <3>1. RowsStay(u)
      BY <1>1, <1>3, <2>1, <2>3 DEF RowsStay, DeleteCluster
    <3> QED BY <1>1, <1>3, <2>1, <2>3, <3>1, DeletedPays
  <2> QED BY <2>2, <2>3
<1> QED BY <1>2, <1>3 DEF DeleteRow

LEMMA FindExistingPays ==
  ASSUME Inv, WorkersOK, NEW w \in Replicas, FindExisting(w),
         NEW config, sync[w].config = config, NEW u
  PROVE  Pays(w, config, u)
<1>1. /\ w \in Procs /\ pc[w] \in Saving /\ obj[w] \in Objects
      /\ UNCHANGED <<cluster, sync>>
  BY DEF FindExisting, store, Saving, Procs, Inv, Typed, ControlOK
<1>2. PICK id : obj' = [obj EXCEPT ![w].cluster_id = id, ![w].url = AddTrailingSlashToURL(@)]
  BY DEF FindExisting
<1>3. pc'[w] \in {"update", "insert"}
  BY GotoWorker DEF FindExisting
<1>4. obj'[w] = [obj[w] EXCEPT !.cluster_id = id, !.url = AddTrailingSlashToURL(@)]
  BY <1>1, <1>2 DEF Inv, Typed, TypeOK
<1>5. AddTrailingSlashToURL(obj'[w].url) = AddTrailingSlashToURL(obj[w].url)
  <2>1. obj'[w].url = AddTrailingSlashToURL(obj[w].url)
    BY <1>1, <1>4 DEF Objects
  <2> QED BY <1>1, <2>1, SlashIdempotent DEF Objects
<1>6. pc'[w] \in Saving /\ pc'[w] # "first"
  BY <1>3 DEF Saving
<1> QED BY <1>1, <1>5, <1>6, SavingPays

LEMMA FirstOrCreatePays ==
  ASSUME Inv, WorkersOK, NEW w \in Replicas, FirstOrCreate(w),
         NEW config, sync[w].config = config, NEW u
  PROVE  Pays(w, config, u)
<1>1. pc[w] = "first" /\ pc[w] \in Saving /\ UNCHANGED cluster /\ RowsStay(u)
  BY DEF FirstOrCreate, Saving, store, RowsStay
<1>2. CASE Load(cluster, obj[w].cluster_id) # {} /\ Saved(w, "ok")
  BY <1>1, <1>2, SavedPays
<1>3. CASE Goto(w, "insert") /\ UNCHANGED <<obj, sync>>
  BY <1>1, <1>3, GotoWorker, SavingPays DEF Saving
<1> QED BY <1>2, <1>3 DEF FirstOrCreate

LEMMA RunPays ==
  ASSUME Inv, Inv', SyncOK, WorkersOK, NEW w \in Replicas, Run(w),
         NEW config, sync[w].config = config, NEW u \in URLs
  PROVE  Pays(w, config, u)
<1>1. CASE NormalizeFails(w)
  BY <1>1, FailedPays DEF NormalizeFails, store
<1> QED BY <1>1, FindExistingPays, UpdateRowPays, FirstOrCreatePays, InsertRowPays,
           LoadToDeletePays, DeleteRowPays DEF Run

LEMMA FailPays ==
  ASSUME Inv, NEW w \in Replicas, Fail(w), pc[w] \notin Deleting, NEW config, NEW u
  PROVE  Pays(w, config, u)
<1>1. pc[w] \notin {"link.find", "link.load", "link.insert", "unlink"}
  BY DEF Inv, Typed, TypeOK, WorkerLabels, Saving, Deleting
<1> QED BY <1>1, FailedPays DEF Fail, store

-----------------------------------------------------------------------------
(* Every step of a worker, and every step of a request, leaves the URLs the   *)
(* API did not touch accounted for.                                          *)

\* A worker that begins a sync owes whatever is not as configured.
LEMMA StartSyncAccounts ==
  ASSUME Inv, NEW w \in Replicas, StartSync(w), NEW config, NEW u
  PROVE  Accounted(config, u)'
<1>1. /\ UNCHANGED cluster
      /\ sync'[w].pending = sync'[w].config /\ sync'[w].toDelete = cluster
      /\ sync'[w].runs = sync[w].runs + 1 /\ sync[w].runs \in Nat
  BY StartSyncWorker DEF Inv, Typed, TypeOK, Syncs, ServiceAssumption
<1>2. Began(w)'
  BY <1>1 DEF Began
<1>3. CASE sync'[w].config # config
  BY <1>2, <1>3 DEF Accounted, Owes
<1>4. CASE sync'[w].config = config /\ u \in URLsOf(config)
  BY <1>1, <1>2, <1>4 DEF Accounted, Owes, URLsOf
<1>5. CASE sync'[w].config = config /\ u \notin URLsOf(config)
  <2>1. {e \in config : AddTrailingSlashToURL(e.url) = u} = {}
    BY <1>5 DEF URLsOf
  <2>2. CASE {c \in cluster' : c.url = u} = {}
    BY <2>1, <2>2 DEF Accounted, AsConfigured
  <2>3. CASE {c \in cluster' : c.url = u} # {}
    <3>1. PICK c \in cluster' : c.url = u
      BY <2>3
    <3>2. Owes(w, config, u)'
      BY <1>1, <1>5, <3>1 DEF Owes, ToBeDeleted
    <3> QED BY <1>2, <3>2 DEF Accounted
  <2> QED BY <2>2, <2>3
<1> QED BY <1>3, <1>4, <1>5

\* A step that leaves u's rows and every worker but one alone.
LEMMA OthersAccount ==
  ASSUME Inv, Inv', NEW w, \A v \in Replicas : v # w => Stays(v),
         NEW config, NEW u \in URLs, RowsStay(u), Accounted(config, u),
         w \in Replicas => /\ Began(w) /\ Began(w)'
                           /\ Owes(w, config, u) => Owes(w, config, u)' \/ AsConfigured(config, u)'
  PROVE  Accounted(config, u)'
<1>1. \A v \in Replicas : v # w => (Began(v)' <=> Began(v))
  BY DEF Began, Stays
<1>2. CASE AsConfigured(config, u)
  BY <1>2, StaysConfigured DEF Accounted
<1>3. CASE \E v \in Replicas : Began(v) /\ Owes(v, config, u)
  <2>1. PICK v \in Replicas : Began(v) /\ Owes(v, config, u)
    BY <1>3
  <2>2. CASE v = w
    BY <2>1, <2>2 DEF Accounted
  <2>3. CASE v # w
    <3>1. Owes(v, config, u)'
      BY <2>1, <2>3, OthersOwe
    <3> QED BY <1>1, <2>1, <2>3, <3>1 DEF Accounted
  <2> QED BY <2>2, <2>3
<1>4. CASE \A v \in Replicas : ~Began(v)
  BY <1>1, <1>4 DEF Accounted
<1> QED BY <1>2, <1>3, <1>4 DEF Accounted

LEMMA WorkerAccounts ==
  ASSUME Inv, Inv', SyncOK, WorkersOK, WorkersOK',
         NEW w \in Replicas, StepOf(w), ~LoseCommit(w), ~(pc[w] \in Deleting /\ Fail(w)),
         NEW config, NEW u \in URLs, Accounted(config, u)
  PROVE  Accounted(config, u)'
<1>1. w \in Procs /\ w \notin Requests
  BY DEF Procs, ServiceAssumption
<1>2. CASE StartSync(w)
  BY <1>2, StartSyncAccounts
<1>3. CASE ListFails(w)
  <2>1. sync'[w].runs = sync[w].runs + 1 /\ sync[w].runs \in Nat /\ sync'[w].result = "error"
    BY <1>3, ListFailsWorker DEF Inv, Typed, TypeOK, Syncs, ServiceAssumption
  <2> QED BY <2>1 DEF Accounted, Began, Owes
<1>4. CASE RunSync(w) \/ Fail(w)
  <2>1. Began(w)
    <3>1. pc[w] # "idle"
      BY <1>4 DEF RunSync, Run, FindExisting, NormalizeFails, UpdateRow, FirstOrCreate, InsertRow,
                  LoadToDelete, DeleteRow, NextEntry, NextDelete, Fail, Saving, Deleting
    <3> QED BY <3>1 DEF WorkersOK, WorkOK
  <2>2. sync'[w].runs = sync[w].runs /\ sync'[w].config = sync[w].config
    <3>1. ASSUME NEW a, Saved(w, a) PROVE sync'[w].runs = sync[w].runs /\ sync'[w].config = sync[w].config
      BY <3>1, SavedWorker DEF Inv, Typed, TypeOK, Syncs
    <3>2. ASSUME NEW a, Deleted(w, a) PROVE sync'[w] = sync[w]
      BY <3>2, DeletedWorker
    <3>3. CASE NextEntry(w)
      BY <3>3, NextEntryWorker
    <3>4. CASE NextDelete(w)
      BY <3>4, NextDeleteWorker
    <3>5. CASE Run(w)
      BY <3>1, <3>2, <3>5 DEF Run, FindExisting, NormalizeFails, UpdateRow, FirstOrCreate,
                              InsertRow, LoadToDelete, DeleteRow
    <3>6. CASE Fail(w)
      BY <1>1, <3>1, <3>2, <3>6 DEF Fail, Reply
    <3> QED BY <1>4, <3>3, <3>4, <3>5, <3>6 DEF RunSync
  <2>3. Began(w)'
    BY <2>1, <2>2 DEF Began
  <2>4. CASE sync[w].config # config
    BY <2>2, <2>3, <2>4 DEF Accounted, Owes
  <2>5. CASE sync[w].config = config
    <3>1. Pays(w, config, u)
      <4>1. CASE NextEntry(w)
        BY <2>5, <4>1, NextEntryPays
      <4>2. CASE NextDelete(w)
        BY <2>5, <4>2, NextDeletePays
      <4>3. CASE Run(w)
        BY <2>5, <4>3, RunPays
      <4>4. CASE Fail(w)
        BY <4>4, FailPays
      <4> QED BY <1>4, <4>1, <4>2, <4>3, <4>4 DEF RunSync
    <3>2. CASE AsConfigured(config, u)'
      BY <3>2 DEF Accounted
    <3>3. CASE RowsStay(u)
      <4>1. \A v \in Replicas : v # w => Stays(v)
        BY <1>1, Alone DEF Procs
      <4>2. Owes(w, config, u) => Owes(w, config, u)' \/ AsConfigured(config, u)'
        BY <3>1 DEF Pays
      <4> QED BY <2>1, <2>3, <3>3, <4>1, <4>2, OthersAccount
    <3> QED BY <3>1, <3>2, <3>3 DEF Pays
  <2> QED BY <2>4, <2>5
<1> QED BY <1>1, <1>2, <1>3, <1>4 DEF StepOf

\* A request changes the rows of its own URL, or deletes.
LEMMA RequestRows ==
  ASSUME Inv, PurposeOK, FreshOK, NEW r \in Requests, StepOf(r), NEW u \in URLs, ~TouchedByAPI(u)
  PROVE  RowsStay(u)
<1>1. r \in Procs /\ r \notin Replicas
  BY DEF Procs, ServiceAssumption
<1>2. CASE UNCHANGED cluster
  BY <1>2 DEF RowsStay
<1>3. ASSUME UpdateRow(r) \/ InsertRow(r)
      PROVE  /\ Holds(r) /\ obj[r].url # u
    <2>1. pc[r] \in Saving /\ pc[r] \in Purposeful /\ Holds(r)
      BY <1>3 DEF UpdateRow, InsertRow, Saving, Purposeful, Holds
    <2>2. call[r] \in CreateCalls /\ obj[r] \in ClusterRows /\ obj[r].url.slash
      BY <1>1, <2>1 DEF Inv, Typed, ControlOK, SlashesOK
    <2>3. obj[r].url = RequestedURL(r)
      BY <2>1, <2>2, SlashIdempotent DEF PurposeOK, ClusterRows
    <2> QED BY <2>1, <2>2, <2>3 DEF TouchedByAPI
<1>4. CASE UpdateRow(r)
  <2>1. \A c \in cluster : c.cluster_id = obj[r].cluster_id => c.url # u
    BY <1>1, <1>3, <1>4, IDMeansURL DEF IDsMeanURLs
  <2> QED BY <1>2, <1>3, <1>4, <2>1 DEF UpdateRow, Update, RowsStay
<1>5. CASE InsertRow(r)
  BY <1>2, <1>3, <1>5 DEF InsertRow, RowsStay
<1>6. CASE DeleteRow(r)
  BY <1>6 DEF DeleteRow, Deleting, Inv, Typed, ControlOK, TouchedByAPI
<1>7. UNCHANGED cluster \/ UpdateRow(r) \/ InsertRow(r) \/ DeleteRow(r)
  BY <1>1 DEF StepOf, Arrive, RunRequest, Run, FindExisting, NormalizeFails, FirstOrCreate,
              LoadToDelete, FillToken, FindToLink, LoadLink, InsertLink, DeleteLink, Fail,
              LoseCommit, store
<1> QED BY <1>2, <1>4, <1>5, <1>6, <1>7

\* Only the beginning of another sync makes up for a write that was not done, and
\* a worker that goes on after one that failed remembers it.
LEMMA NothingSwallowed ==
  ASSUME NEW p \in Procs, StepOf(p), ~(p \in Replicas /\ StartSync(p)), swallowed' = {}
  PROVE  /\ swallowed = {}
         /\ p \in Replicas => ~LoseCommit(p) /\ ~(pc[p] \in Deleting /\ Fail(p))
<1>1. Fail(p) => swallowed = {} /\ ~(p \in Replicas /\ pc[p] \in Deleting)
  BY DEF Fail
<1>2. LoseCommit(p) => swallowed = {} /\ p \notin Replicas
  BY DEF LoseCommit
<1>3. ~Fail(p) /\ ~LoseCommit(p) => swallowed = {}
  BY DEF StepOf, Arrive, RunRequest, RunSync, Run, FindExisting, NormalizeFails, UpdateRow,
         FirstOrCreate, InsertRow, LoadToDelete, DeleteRow, FillToken, FindToLink, LoadLink,
         InsertLink, DeleteLink, NextEntry, NextDelete, ListFails, faults
<1> QED BY <1>1, <1>2, <1>3

LEMMA StepDebts ==
  ASSUME Inv, Inv', PurposeOK, FreshOK, SyncOK, WorkersOK, WorkersOK', Debts,
         NEW p \in Procs, StepOf(p)
  PROVE  Debts'
<1> SUFFICES ASSUME swallowed' = {},
                    NEW config \in SUBSET ConfigEntries, NEW u \in URLs, ~TouchedByAPI(u)'
             PROVE  Accounted(config, u)'
  BY DEF Debts
<1>0. CASE p \in Replicas /\ StartSync(p)
  BY <1>0, StartSyncAccounts
<1> SUFFICES ASSUME ~(p \in Replicas /\ StartSync(p)) PROVE Accounted(config, u)'
  BY <1>0
<1>1. ~TouchedByAPI(u)
  BY TouchesStay
<1>2. Accounted(config, u)
  BY <1>1, NothingSwallowed DEF Debts
<1>3. CASE p \in Replicas
  BY <1>2, <1>3, NothingSwallowed, WorkerAccounts
<1>4. CASE p \in Requests
  <2>1. p \notin Replicas
    BY <1>4 DEF ServiceAssumption
  <2>2. \A v \in Replicas : v # p => Stays(v)
    BY Alone DEF Procs
  <2>3. RowsStay(u)
    BY <1>1, <1>4, RequestRows
  <2> QED BY <1>2, <2>1, <2>2, <2>3, OthersAccount
<1> QED BY <1>3, <1>4 DEF Procs

-----------------------------------------------------------------------------
(* The theorem.                                                             *)

SyncInv == Inv /\ PurposeOK /\ FreshOK /\ SyncOK /\ WorkersOK /\ Debts

LEMMA InitSyncInv == Init => SyncInv
<1> SUFFICES ASSUME Init PROVE SyncInv
  OBVIOUS
<1>1. PurposeOK
  BY DEF Init, PurposeOK, Purposeful, Saving, Procs
<1>2. FreshOK
  BY DEF Init, FreshOK
<1>3. SyncOK
  BY DEF Init, SyncOK, UniqueURL, Purging, Deleting, Procs, ServiceAssumption
<1>4. WorkersOK
  BY DEF Init, WorkersOK, WorkOK, Saving, Procs, ServiceAssumption
<1>5. Debts
  BY DEF Init, Debts, Accounted, Began
<1> QED BY <1>1, <1>2, <1>3, <1>4, <1>5, InitInv DEF SyncInv

LEMMA NextSyncInv == SyncInv /\ [Next]_vars => SyncInv'
<1> SUFFICES ASSUME SyncInv, [Next]_vars PROVE SyncInv'
  OBVIOUS
<1> USE DEF SyncInv
<1>1. Inv' /\ PurposeOK' /\ SyncOK'
  BY NextInv, NextPurpose, NextSync
<1>2. CASE UNCHANGED vars
  <2>1. FreshOK' /\ WorkersOK'
    BY <1>2 DEF vars, FreshOK, WorkersOK, WorkOK, Began
  <2>2. Debts'
    BY <1>2 DEF vars, Debts, Accounted, AsConfigured, Began, Owes, ToBeDeleted, TouchedByAPI,
                RequestedURL
  <2> QED BY <1>1, <2>1, <2>2
<1>3. CASE Next
  <2>1. PICK p \in Procs : StepOf(p)
    BY <1>3, NextSteps
  <2>2. FreshOK' /\ WorkersOK'
    BY <2>1, CallsStay, StepWork
  <2>3. Debts'
    BY <1>1, <2>1, <2>2, StepDebts
  <2> QED BY <1>1, <2>2, <2>3
<1> QED BY <1>2, <1>3

\* Syncs may overlap, with each other and with any requests, and any statement
\* or COMMIT may fail: once the last sync of every replica was without an error
\* and with the same configuration, every URL the API did not write is as
\* configured, unless one of those syncs dropped the error of a delete or of a
\* COMMIT.
THEOREM SyncsConverge == Spec => []SyncedMeansConfigured
<1>1. SyncInv => SyncedMeansConfigured
  <2> SUFFICES ASSUME SyncInv, NEW w \in Replicas, Settled(w), swallowed = {},
                      NEW u \in URLs, ~TouchedByAPI(u)
               PROVE  AsConfigured(sync[w].config, u)
    BY DEF SyncedMeansConfigured
  <2> DEFINE config == sync[w].config
  <2>1. config \in SUBSET ConfigEntries
    BY DEF SyncInv, Inv, Typed, TypeOK, Syncs
  <2>2. Accounted(config, u)
    BY <2>1 DEF SyncInv, Debts
  <2>3. ASSUME NEW v \in Replicas, Began(v) PROVE ~Owes(v, config, u)
    <3>1. sync[v].result = "ok" /\ sync[v].config = config /\ pc[v] = "idle"
      BY <2>3 DEF Began, Settled
    <3>2. sync[v].pending = {} /\ sync[v].toDelete = {}
      BY <3>1 DEF SyncInv, WorkersOK, WorkOK
    <3> QED BY <3>1, <3>2 DEF Owes, ToBeDeleted, Saving, Deleting
  <2>4. Began(w)
    BY DEF Settled, SyncInv, WorkersOK, WorkOK
  <2> QED BY <2>2, <2>3, <2>4 DEF Accounted
<1> QED BY <1>1, InitSyncInv, NextSyncInv, PTL DEF Spec

-----------------------------------------------------------------------------
(* Every step advances a call.                                              *)

LEMMA Counted ==
  /\ StatementsLeft("done") = 0 /\ StatementsLeft("idle") = 0
  /\ StatementsLeft("purge") = 1 /\ StatementsLeft("next") = 2
  /\ StatementsLeft("insert") = 3 /\ StatementsLeft("delete") = 3
  /\ StatementsLeft("link.insert") = 3 /\ StatementsLeft("unlink") = 3
  /\ StatementsLeft("first") = 4 /\ StatementsLeft("load") = 4
  /\ StatementsLeft("link.load") = 4 /\ StatementsLeft("update") = 5
  /\ StatementsLeft("link.find") = 5 /\ StatementsLeft("find") = 6
  /\ StatementsLeft("lookup") = 7 /\ StatementsLeft("new") = 8
<1>1. StatementsLeft("done") = 0
  BY DEF StatementsLeft
<1>2. StatementsLeft("idle") = 0
  BY DEF StatementsLeft
<1>3. StatementsLeft("purge") = 1
  BY DEF StatementsLeft
<1>4. StatementsLeft("next") = 2
  BY DEF StatementsLeft
<1>5. StatementsLeft("insert") = 3
  BY DEF StatementsLeft
<1>6. StatementsLeft("delete") = 3
  BY DEF StatementsLeft
<1>7. StatementsLeft("link.insert") = 3
  BY DEF StatementsLeft
<1>8. StatementsLeft("unlink") = 3
  BY DEF StatementsLeft
<1>9. StatementsLeft("first") = 4
  BY DEF StatementsLeft
<1>10. StatementsLeft("load") = 4
  BY DEF StatementsLeft
<1>11. StatementsLeft("link.load") = 4
  BY DEF StatementsLeft
<1>12. StatementsLeft("update") = 5
  BY DEF StatementsLeft
<1>13. StatementsLeft("link.find") = 5
  BY DEF StatementsLeft
<1>14. StatementsLeft("find") = 6
  BY DEF StatementsLeft
<1>15. StatementsLeft("lookup") = 7
  BY DEF StatementsLeft
<1>16. StatementsLeft("new") = 8
  BY DEF StatementsLeft
<1> QED BY <1>1, <1>2, <1>3, <1>4, <1>5, <1>6, <1>7, <1>8, <1>9, <1>10, <1>11, <1>12, <1>13, <1>14, <1>15, <1>16

\* A step of p from one statement to a later one, which leaves what a sync has
\* still to take.
LEMMA LaterAdvances ==
  ASSUME NEW p \in Procs,
         p \in Replicas => /\ sync'[p].pending = sync[p].pending
                          /\ sync'[p].toDelete = sync[p].toDelete,
         StatementsLeft(pc'[p]) < StatementsLeft(pc[p])
  PROVE  Advances(p)
  BY DEF Advances

LEMMA GotoAdvances ==
  ASSUME Inv, NEW p \in Procs, NEW l, Goto(p, l), UNCHANGED sync,
         StatementsLeft(l) < StatementsLeft(pc[p])
  PROVE  Advances(p)
<1>1. pc'[p] = l
  BY DEF Goto, Inv, Typed, TypeOK
<1> QED BY <1>1, LaterAdvances

LEMMA ReplyAdvances ==
  ASSUME Inv, NEW r \in Requests, NEW a, Reply(r, a), pc[r] # "done"
  PROVE  Advances(r)
<1>1. r \in Procs /\ pc[r] \in RequestLabels
  BY DEF Procs, Inv, Typed, TypeOK
<1>2. StatementsLeft("done") < StatementsLeft(pc[r])
  BY <1>1, Counted DEF RequestLabels, Saving, Deleting
<1> QED BY <1>1, <1>2, GotoAdvances DEF Reply

LEMMA SavedAdvances ==
  ASSUME Inv, NEW p \in Procs, NEW a, Saved(p, a), pc[p] \in Saving \cup {"lookup"}
  PROVE  Advances(p)
<1>1. CASE p \in Requests
  <2>1. Reply(p, a)
    BY <1>1, ServiceAssumption DEF Saved
  <2> QED BY <1>1, <2>1, ReplyAdvances DEF Saving
<1>2. CASE p \in Replicas
  <2>1. /\ pc'[p] \in {"next", "idle"}
        /\ sync'[p] = sync[p] \/ sync'[p] = [sync[p] EXCEPT !.result = "error"]
    BY <1>2, SavedWorker
  <2>2. sync[p] \in Syncs
    BY <1>2 DEF Inv, Typed, TypeOK
  <2>3. sync'[p].pending = sync[p].pending /\ sync'[p].toDelete = sync[p].toDelete
    BY <2>1, <2>2 DEF Syncs
  <2>4. StatementsLeft(pc'[p]) < StatementsLeft(pc[p])
    BY <2>1, Counted DEF Saving
  <2> QED BY <2>3, <2>4, LaterAdvances
<1> QED BY <1>1, <1>2 DEF Procs

LEMMA DeletedAdvances ==
  ASSUME Inv, NEW p \in Procs, NEW a, Deleted(p, a), pc[p] \in Deleting
  PROVE  Advances(p)
<1>1. CASE p \in Requests
  <2>1. Reply(p, a)
    BY <1>1, ServiceAssumption DEF Deleted
  <2> QED BY <1>1, <2>1, ReplyAdvances DEF Deleting
<1>2. CASE p \in Replicas
  <2>1. pc'[p] = "purge" /\ sync'[p] = sync[p]
    BY <1>2, DeletedWorker
  <2>2. StatementsLeft(pc'[p]) < StatementsLeft(pc[p])
    BY <2>1, Counted DEF Deleting
  <2> QED BY <2>1, <2>2, LaterAdvances
<1> QED BY <1>1, <1>2 DEF Procs

\* A statement of CreateOrSave or Delete.
LEMMA RunAdvances ==
  ASSUME Inv, NEW p \in Procs, Run(p)
  PROVE  Advances(p)
<1>1. CASE FindExisting(p)
  <2>1. PICK l \in {"update", "insert"} : Goto(p, l) /\ UNCHANGED sync
    BY <1>1 DEF FindExisting
  <2>2. StatementsLeft(l) < StatementsLeft(pc[p])
    BY <1>1, <2>1, Counted DEF FindExisting
  <2> QED BY <2>1, <2>2, GotoAdvances
<1>2. CASE NormalizeFails(p)
  BY <1>2, SavedAdvances DEF NormalizeFails, Saving
<1>3. CASE UpdateRow(p)
  <2>1. StatementsLeft("first") < StatementsLeft(pc[p])
    BY <1>3, Counted DEF UpdateRow
  <2> QED BY <1>3, <2>1, SavedAdvances, GotoAdvances DEF UpdateRow, Saving
<1>4. CASE FirstOrCreate(p)
  <2>1. StatementsLeft("insert") < StatementsLeft(pc[p])
    BY <1>4, Counted DEF FirstOrCreate
  <2> QED BY <1>4, <2>1, SavedAdvances, GotoAdvances DEF FirstOrCreate, Saving
<1>5. CASE InsertRow(p)
  BY <1>5, SavedAdvances DEF InsertRow, Saving
<1>6. CASE LoadToDelete(p)
  <2>1. pc[p] = "load"
    BY <1>6 DEF LoadToDelete
  <2>2. StatementsLeft("delete") < StatementsLeft(pc[p])
    BY <2>1, Counted
  <2> QED BY <1>6, <2>1, <2>2, DeletedAdvances, GotoAdvances DEF LoadToDelete, Deleting
<1>7. CASE DeleteRow(p)
  BY <1>7, DeletedAdvances DEF DeleteRow, Deleting
<1> QED BY <1>1, <1>2, <1>3, <1>4, <1>5, <1>6, <1>7 DEF Run

LEMMA RequestAdvances ==
  ASSUME Inv, NEW r \in Requests, Arrive(r) \/ RunRequest(r)
  PROVE  Advances(r)
<1>1. r \in Procs
  BY DEF Procs
<1>2. ASSUME NEW l, NEW o, Proceed(r, l, o), StatementsLeft(l) < StatementsLeft(pc[r])
      PROVE  Advances(r)
  BY <1>1, <1>2, GotoAdvances DEF Proceed
<1>3. CASE Arrive(r)
  <2>1. PICK c : Refuse(r, "unauthorized") \/ Refuse(r, "bad parameter") \/ Admit(r, c)
    BY <1>3 DEF Arrive
  <2>2. CASE Admit(r, c)
    <3>1. PICK l \in {"lookup", "find", "load", "link.find", "unlink"} : \E o : Proceed(r, l, o)
      BY <2>2 DEF Admit
    <3>2. pc[r] = "new"
      BY <1>3 DEF Arrive
    <3>3. StatementsLeft(l) < StatementsLeft(pc[r])
      BY <3>1, <3>2, Counted
    <3> QED BY <1>2, <3>1, <3>3
  <2> QED BY <1>3, <2>1, <2>2, ReplyAdvances DEF Refuse, Arrive
<1>4. CASE FillToken(r)
  <2>1. StatementsLeft("find") < StatementsLeft(pc[r])
    BY <1>4, Counted DEF FillToken
  <2> QED BY <1>1, <1>4, <2>1, GotoAdvances DEF FillToken
<1>5. CASE FindToLink(r)
  <2>1. pc[r] = "link.find"
    BY <1>5 DEF FindToLink
  <2>2. \A l \in {"link.load", "link.insert"} : StatementsLeft(l) < StatementsLeft(pc[r])
    BY <2>1, Counted
  <2>3. Refuse(r, "not found") \/ \E l \in {"link.load", "link.insert"} : \E o : Proceed(r, l, o)
    BY <1>5 DEF FindToLink
  <2> QED BY <1>2, <2>1, <2>2, <2>3, ReplyAdvances DEF Refuse
<1>6. CASE LoadLink(r)
  <2>1. StatementsLeft("link.insert") < StatementsLeft(pc[r])
    BY <1>6, Counted DEF LoadLink
  <2> QED BY <1>1, <1>6, <2>1, ReplyAdvances, GotoAdvances DEF LoadLink, Refuse
<1>7. CASE InsertLink(r)
  BY <1>7, ReplyAdvances DEF InsertLink
<1>8. CASE DeleteLink(r)
  BY <1>8, ReplyAdvances DEF DeleteLink
<1>9. CASE Run(r)
  BY <1>1, <1>9, RunAdvances
<1> QED BY <1>3, <1>4, <1>5, <1>6, <1>7, <1>8, <1>9 DEF RunRequest

LEMMA SyncAdvances ==
  ASSUME Inv, NEW w \in Replicas, RunSync(w)
  PROVE  Advances(w)
<1>1. w \in Procs
  BY DEF Procs
<1>2. CASE NextEntry(w)
  <2>1. CASE \E e \in sync[w].pending : sync'[w].pending = sync[w].pending \ {e}
    BY <2>1 DEF Advances
  <2>2. CASE pc'[w] = "purge" /\ UNCHANGED sync
    <3>1. StatementsLeft(pc'[w]) < StatementsLeft(pc[w])
      BY <1>2, <2>2, Counted DEF NextEntry
    <3> QED BY <1>1, <2>2, <3>1, LaterAdvances
  <2> QED BY <1>2, <2>1, <2>2, NextEntryWorker
<1>3. CASE NextDelete(w)
  <2>1. sync'[w].pending = sync[w].pending
    BY <1>3, NextDeleteWorker
  <2>2. CASE \E c \in sync[w].toDelete : sync'[w].toDelete = sync[w].toDelete \ {c}
    BY <2>1, <2>2 DEF Advances
  <2>3. CASE sync[w].toDelete = {} /\ sync'[w].toDelete = {} /\ pc'[w] = "idle"
    <3>1. StatementsLeft(pc'[w]) < StatementsLeft(pc[w])
      BY <1>3, <2>3, Counted DEF NextDelete
    <3> QED BY <1>1, <2>1, <2>3, <3>1, LaterAdvances
  <2> QED BY <1>3, <2>2, <2>3, NextDeleteWorker
<1>4. CASE Run(w)
  BY <1>1, <1>4, RunAdvances
<1> QED BY <1>2, <1>3, <1>4 DEF RunSync

LEMMA FaultAdvances ==
  ASSUME Inv, NEW p \in Procs, Fail(p) \/ LoseCommit(p)
  PROVE  Advances(p)
<1>1. CASE pc[p] \in Saving \cup {"lookup"} /\ \E a : Saved(p, a)
  BY <1>1, SavedAdvances
<1>2. CASE pc[p] \in Deleting /\ \E a : Deleted(p, a)
  BY <1>2, DeletedAdvances
<1>3. CASE /\ pc[p] \in {"link.find", "link.load", "link.insert", "unlink"}
           /\ \E a : Reply(p, a)
  <2>1. p \in Requests
    BY <1>3 DEF Procs, Inv, Typed, TypeOK, WorkerLabels, Saving, Deleting
  <2> QED BY <1>3, <2>1, ReplyAdvances
<1> QED BY <1>1, <1>2, <1>3 DEF Fail, LoseCommit, Saving, Deleting

\* No call goes round in circles, and every step is one of a call that comes
\* closer to its end, or begins a sync: with finitely many requests, syncs and
\* entries, every behaviour comes to its end.
THEOREM CallsComeToAnEnd == Spec => EveryStepAdvances
<1> DEFINE Step(p) == /\ Advances(p) \/ BeginsSync(p)
                      /\ \A q \in Procs \ {p} : StaysWhereItIs(q)
<1>1. ASSUME Inv, Next PROVE \E p \in Procs : Step(p)
  <2>1. PICK p \in Procs : StepOf(p)
    BY <1>1, NextSteps
  <2>2. \A q \in Procs \ {p} : StaysWhereItIs(q)
    BY <1>1, <2>1, Alone DEF Stays, StaysWhereItIs
  <2>3. ASSUME p \in Replicas, StartSync(p) \/ ListFails(p) PROVE BeginsSync(p)
    BY <1>1, <2>3, StartSyncWorker, ListFailsWorker DEF BeginsSync
  <2>4. Advances(p) \/ BeginsSync(p)
    BY <1>1, <2>1, <2>3, RequestAdvances, SyncAdvances, FaultAdvances DEF StepOf
  <2> QED BY <2>2, <2>4
<1>2. Inv /\ [Next]_vars => [\E p \in Procs : Step(p)]_vars
  BY <1>1
<1> QED BY <1>2, Invariance, PTL DEF Spec, EveryStepAdvances
=============================================================================
