--------------------- MODULE ClusterServiceSteps_proofs ---------------------
(***************************************************************************)
(* Proofs of what the steps of ClusterService may do: its action            *)
(* properties, from the invariant of ClusterService_proofs and two more.    *)
(***************************************************************************)
EXTENDS ClusterService_proofs

USE StoreAssumption, ServiceAssumption

-----------------------------------------------------------------------------
(* A request works on the URL it was called with.                           *)

Purposeful == Saving \cup {"lookup", "link.load", "link.insert"}

PurposeOK ==
  \A r \in Requests : pc[r] \in Purposeful => AddTrailingSlashToURL(obj[r].url) = RequestedURL(r)

\* Steps that leave the URLs of requests alone, or end their work on them.
LEMMA QuietPurpose ==
  ASSUME PurposeOK, UNCHANGED call,
         \A r \in Requests : pc'[r] \in Purposeful =>
           pc[r] \in Purposeful /\ obj'[r].url = obj[r].url
  PROVE  PurposeOK'
  BY DEF PurposeOK, RequestedURL, AddTrailingSlashToURL

LEMMA ArrivePurpose ==
  ASSUME Inv, PurposeOK, NEW r \in Requests, Arrive(r)
  PROVE  PurposeOK'
<1>1. PICK c \in Calls : /\ call' = [call EXCEPT ![r] = c]
                         /\ \/ Refuse(r, "unauthorized")
                            \/ Refuse(r, "bad parameter")
                            \/ Admit(r, c)
  BY DEF Arrive, ServiceAssumption
<1>2. /\ \A q \in Requests : q # r => /\ pc'[q] = pc[q] /\ obj'[q] = obj[q]
                                      /\ call'[q] = call[q]
      /\ call'[r] = c
  <2>1. PICK l, o : pc' = [pc EXCEPT ![r] = l] /\ obj' = [obj EXCEPT ![r] = o]
    <3>1. obj = [obj EXCEPT ![r] = obj[r]]
      BY DEF Inv, Typed, TypeOK
    <3> QED BY <1>1, <3>1 DEF Refuse, Reply, Admit, Proceed, Goto
  <2> QED BY <1>1, <2>1 DEF Inv, Typed, TypeOK, Procs
<1>3. pc'[r] \in Purposeful => AddTrailingSlashToURL(obj'[r].url) = AddTrailingSlashToURL(c.url)
  <2>1. CASE Refuse(r, "unauthorized") \/ Refuse(r, "bad parameter")
    BY <2>1 DEF Refuse, Reply, Goto, Purposeful, Saving, Inv, Typed, TypeOK, Procs
  <2>2. CASE c \in CreateCalls /\ obj' = [obj EXCEPT ![r] = Payload(c)]
    BY <2>2 DEF Payload, Inv, Typed, TypeOK, Procs
  <2>3. CASE \E l \in {"load", "link.find", "unlink"} : Proceed(r, l, None)
    BY <2>3 DEF Proceed, Goto, Purposeful, Saving, Inv, Typed, TypeOK, Procs
  <2> QED BY <1>1, <2>1, <2>2, <2>3 DEF Admit, Proceed
<1> QED BY <1>2, <1>3 DEF PurposeOK, RequestedURL

LEMMA FillTokenPurpose ==
  ASSUME Inv, PurposeOK, NEW r \in Requests, FillToken(r)
  PROVE  PurposeOK'
<1>1. /\ pc[r] = "lookup" /\ obj[r] \in Objects /\ r \in Procs
      /\ UNCHANGED call
      /\ \A q \in Requests : q # r => pc'[q] = pc[q] /\ obj'[q] = obj[q]
  BY DEF FillToken, Goto, Inv, Typed, TypeOK, ControlOK, Procs
<1>2. obj'[r].url = obj[r].url
  <2>1. CASE \E t : obj' = [obj EXCEPT ![r].token_provider_id = t]
    BY <1>1, <2>1 DEF Inv, Typed, TypeOK, Objects
  <2>2. CASE \E id : obj' = [obj EXCEPT ![r].cluster_id = id, ![r].token_provider_id = id]
    <3>1. PICK id : obj'[r] = [obj[r] EXCEPT !.cluster_id = id, !.token_provider_id = id]
      BY <1>1, <2>2 DEF Inv, Typed, TypeOK
    <3> QED BY <1>1, <3>1 DEF Objects
  <2> QED BY <2>1, <2>2 DEF FillToken
<1> QED BY <1>1, <1>2, QuietPurpose DEF Purposeful

LEMMA FindExistingPurpose ==
  ASSUME Inv, PurposeOK, NEW p \in Procs, FindExisting(p)
  PROVE  PurposeOK'
<1>1. /\ pc[p] = "find" /\ obj[p] \in Objects
      /\ UNCHANGED call
      /\ \A q \in Requests : q # p => pc'[q] = pc[q] /\ obj'[q] = obj[q]
  BY DEF FindExisting, Goto, Inv, Typed, TypeOK, ControlOK, Procs
<1>2. obj'[p].url = AddTrailingSlashToURL(obj[p].url)
  <2>1. PICK id : obj' = [obj EXCEPT ![p].cluster_id = id,
                                     ![p].url = AddTrailingSlashToURL(@)]
    BY DEF FindExisting
  <2>2. obj'[p] = [obj[p] EXCEPT !.cluster_id = id, !.url = AddTrailingSlashToURL(@)]
    BY <2>1 DEF Inv, Typed, TypeOK
  <2> QED BY <1>1, <2>2 DEF Objects
<1>3. AddTrailingSlashToURL(obj'[p].url) = AddTrailingSlashToURL(obj[p].url)
  BY <1>1, <1>2, SlashIdempotent DEF Objects
<1> QED BY <1>1, <1>3 DEF PurposeOK, RequestedURL, Purposeful, Saving

\* Wherever CreateOrSave or Delete returns to, nothing is worked on.
LEMMA SavedPurpose ==
  ASSUME Inv, PurposeOK, NEW p \in Procs, NEW a \in Answers, Saved(p, a), UNCHANGED call,
         \A q \in Procs : q # p => obj'[q] = obj[q]
  PROVE  PurposeOK'
<1>1. PICK l \in {"done", "next", "idle"} : pc' = [pc EXCEPT ![p] = l]
  BY SavedMoves DEF Inv, Typed
<1>2. \A r \in Requests : pc'[r] \in Purposeful => pc[r] \in Purposeful /\ r # p
  BY <1>1 DEF Purposeful, Saving, Inv, Typed, TypeOK, Procs
<1> QED BY <1>2, QuietPurpose DEF Procs

LEMMA DeletedPurpose ==
  ASSUME Inv, PurposeOK, NEW p \in Procs, NEW a \in Answers, Deleted(p, a),
         UNCHANGED <<obj, call>>
  PROVE  PurposeOK'
<1>1. PICK l \in {"done", "purge"} : pc' = [pc EXCEPT ![p] = l]
  BY DeletedMoves DEF Inv, Typed
<1>2. \A r \in Requests : pc'[r] \in Purposeful => pc[r] \in Purposeful
  BY <1>1 DEF Purposeful, Saving, Inv, Typed, TypeOK, Procs
<1> QED BY <1>2, QuietPurpose

LEMMA ReplyPurpose ==
  ASSUME Inv, PurposeOK, NEW r \in Requests, NEW a, Reply(r, a), UNCHANGED <<obj, call>>
  PROVE  PurposeOK'
<1>1. \A q \in Requests : pc'[q] \in Purposeful => pc[q] \in Purposeful
  BY DEF Reply, Goto, Purposeful, Saving, Inv, Typed, TypeOK, Procs
<1> QED BY <1>1, QuietPurpose

\* Steps from one statement to the next on the same object.
LEMMA GotoPurpose ==
  ASSUME Inv, PurposeOK, NEW p \in Procs, NEW l, Goto(p, l), UNCHANGED <<obj, call>>,
         l \in Purposeful => pc[p] \in Purposeful
  PROVE  PurposeOK'
<1>1. \A q \in Requests : pc'[q] \in Purposeful => pc[q] \in Purposeful
  BY DEF Goto, Inv, Typed, TypeOK, Procs
<1> QED BY <1>1, QuietPurpose

LEMMA RunPurpose ==
  ASSUME Inv, PurposeOK, NEW p \in Procs, Run(p)
  PROVE  PurposeOK'
<1>1. CASE NormalizeFails(p)
  BY <1>1, SavedPurpose DEF NormalizeFails, Answers
<1>2. CASE UpdateRow(p)
  <2>1. CASE Saved(p, "ok")
    BY <1>2, <2>1, SavedPurpose DEF UpdateRow, Answers
  <2>2. CASE Goto(p, "first")
    BY <1>2, <2>2, GotoPurpose DEF UpdateRow, Purposeful, Saving
  <2> QED BY <1>2, <2>1, <2>2 DEF UpdateRow
<1>3. CASE FirstOrCreate(p)
  <2>1. CASE /\ \E c \in cluster : obj' = [obj EXCEPT ![p] = c]
             /\ Saved(p, "ok")
    <3>1. \A q \in Procs : q # p => obj'[q] = obj[q]
      BY <2>1 DEF Inv, Typed, TypeOK
    <3> QED BY <1>3, <2>1, <3>1, SavedPurpose DEF FirstOrCreate, Answers
  <2>2. CASE Goto(p, "insert") /\ UNCHANGED obj
    BY <1>3, <2>2, GotoPurpose DEF FirstOrCreate, Purposeful, Saving
  <2> QED BY <1>3, <2>1, <2>2 DEF FirstOrCreate, Load
<1>4. CASE InsertRow(p)
  BY <1>4, SavedPurpose DEF InsertRow, Answers
<1>5. CASE LoadToDelete(p)
  <2>1. CASE Goto(p, "delete")
    BY <1>5, <2>1, GotoPurpose DEF LoadToDelete, Purposeful, Saving
  <2>2. CASE Deleted(p, "not found")
    BY <1>5, <2>2, DeletedPurpose DEF LoadToDelete, Answers
  <2> QED BY <1>5, <2>1, <2>2 DEF LoadToDelete
<1>6. CASE DeleteRow(p)
  BY <1>6, DeletedPurpose DEF DeleteRow, Answers
<1> QED BY <1>1, <1>2, <1>3, <1>4, <1>5, <1>6, FindExistingPurpose DEF Run

LEMMA FindToLinkPurpose ==
  ASSUME Inv, PurposeOK, NEW r \in Requests, FindToLink(r)
  PROVE  PurposeOK'
<1>1. CASE Refuse(r, "not found")
  BY <1>1, ReplyPurpose DEF FindToLink, Refuse
<1>2. CASE \E c \in FindByURL(cluster, call[r].url), l \in {"link.load", "link.insert"} : Proceed(r, l, c)
  <2>1. PICK c \in FindByURL(cluster, call[r].url), l \in {"link.load", "link.insert"} : Proceed(r, l, c)
    BY <1>2
  <2>2. AddTrailingSlashToURL(c.url) = c.url /\ c.url = AddTrailingSlashToURL(call[r].url)
    BY SlashIdempotent DEF FindByURL, Inv, Typed, TypeOK, TablesOK, NormalizedURLs, ClusterRows
  <2>3. /\ UNCHANGED call /\ obj'[r] = c
        /\ \A q \in Requests : q # r => pc'[q] = pc[q] /\ obj'[q] = obj[q]
    BY <2>1 DEF FindToLink, Proceed, Goto, Inv, Typed, TypeOK, Procs
  <2> QED BY <2>2, <2>3 DEF PurposeOK, RequestedURL
<1> QED BY <1>1, <1>2 DEF FindToLink

\* A worker's own steps.
LEMMA WorkerPurpose ==
  ASSUME Inv, PurposeOK, NEW w \in Replicas,
         StartSync(w) \/ ListFails(w) \/ NextEntry(w) \/ NextDelete(w)
  PROVE  PurposeOK'
<1>1. \A r \in Requests : r # w
  BY DEF ServiceAssumption
<1>2. \A r \in Requests : pc'[r] = pc[r] /\ obj'[r] = obj[r]
  BY <1>1 DEF StartSync, ListFails, NextEntry, NextDelete, Goto, Inv, Typed, TypeOK, Procs
<1>3. UNCHANGED call
  BY DEF StartSync, ListFails, NextEntry, NextDelete
<1> QED BY <1>2, <1>3, QuietPurpose

LEMMA FaultPurpose ==
  ASSUME Inv, PurposeOK, NEW p \in Procs, Fail(p) \/ LoseCommit(p)
  PROVE  PurposeOK'
<1>1. UNCHANGED <<obj, call>>
  BY FaultMoves DEF Inv
<1>2. PICK a \in Answers : Saved(p, a) \/ Deleted(p, a) \/ (p \in Requests /\ Reply(p, a))
  BY FaultMoves DEF Inv
<1> QED BY <1>1, <1>2, SavedPurpose, DeletedPurpose, ReplyPurpose

LEMMA NextPurpose == Inv /\ PurposeOK /\ [Next]_vars => PurposeOK'
<1> SUFFICES ASSUME Inv, PurposeOK, [Next]_vars PROVE PurposeOK'
  OBVIOUS
<1>1. CASE UNCHANGED vars
  BY <1>1, QuietPurpose DEF vars
<1>2. ASSUME NEW r \in Requests, Arrive(r) \/ RunRequest(r) PROVE PurposeOK'
  <2>1. CASE LoadLink(r)
    <3>1. CASE Reply(r, "ok")
      BY <2>1, <3>1, ReplyPurpose DEF LoadLink
    <3>2. CASE Goto(r, "link.insert")
      BY <2>1, <3>2, GotoPurpose DEF LoadLink, Purposeful, Procs
    <3> QED BY <2>1, <3>1, <3>2 DEF LoadLink
  <2>2. CASE InsertLink(r)
    BY <2>2, ReplyPurpose DEF InsertLink
  <2>3. CASE DeleteLink(r)
    BY <2>3, ReplyPurpose DEF DeleteLink
  <2> QED BY <1>2, <2>1, <2>2, <2>3, RunPurpose, ArrivePurpose, FillTokenPurpose,
             FindToLinkPurpose DEF RunRequest, Procs
<1>3. ASSUME NEW w \in Replicas, StartSync(w) \/ ListFails(w) \/ RunSync(w) PROVE PurposeOK'
  BY <1>3, RunPurpose, WorkerPurpose DEF RunSync, Procs
<1> QED BY <1>1, <1>2, <1>3, FaultPurpose DEF Next

LEMMA Purpose == Spec => []PurposeOK
<1>1. Init => PurposeOK
  BY DEF Init, PurposeOK, Purposeful, Saving, Procs
<1> QED BY <1>1, Invariance, NextPurpose, PTL DEF Spec

-----------------------------------------------------------------------------
(* A worker deletes only what the entries of its configuration left on its  *)
(* list.                                                                    *)

Purging == {"purge"} \cup Deleting

SyncOK ==
  \A w \in Replicas :
    /\ UniqueURL(sync[w].toDelete)
    /\ \A e \in sync[w].config \ sync[w].pending, c \in sync[w].toDelete :
         c.url # AddTrailingSlashToURL(e.url)
    /\ pc[w] \in Purging => sync[w].pending = {}
    /\ pc[w] \in Deleting => \A e \in sync[w].config : obj[w].url # AddTrailingSlashToURL(e.url)

\* An entry takes the row with its URL off the list, and no other: with one row
\* per URL, all of them with a slash, the first match is the only one.
LEMMA KeepDropsEntry ==
  ASSUME NEW rows, UniqueURL(rows), \A c \in rows : c.url \in URLs /\ c.url.slash,
         NEW e, e.url \in URLs
  PROVE  \A c \in Keep(rows, e) : c \in rows /\ c.url # AddTrailingSlashToURL(e.url)
<1> DEFINE same == {c \in rows : AddTrailingSlashToURL(c.url) = AddTrailingSlashToURL(e.url)}
<1>1. \A c \in rows : AddTrailingSlashToURL(c.url) = c.url
  BY SlashIdempotent
<1>2. \A c, d \in same : c = d
  BY <1>1 DEF UniqueURL
<1>3. CASE same = {}
  BY <1>1, <1>3 DEF Keep
<1>4. CASE same # {}
  <2>1. (CHOOSE c \in same : TRUE) \in same
    BY <1>4
  <2>2. Keep(rows, e) = rows \ {CHOOSE c \in same : TRUE}
    BY <1>4 DEF Keep
  <2> HIDE DEF same
  <2>3. \A c \in Keep(rows, e) : c \in rows /\ c \notin same
    BY <1>2, <2>1, <2>2
  <2> QED BY <1>1, <2>3 DEF same
<1> QED BY <1>3, <1>4

LEMMA QuietSync ==
  ASSUME SyncOK,
         \A w \in Replicas : /\ sync'[w].config = sync[w].config
                             /\ sync'[w].pending = sync[w].pending
                             /\ sync'[w].toDelete = sync[w].toDelete
                             /\ pc'[w] \in Purging => pc[w] \in Purging
                             /\ pc'[w] \in Deleting => pc[w] \in Deleting /\ obj'[w] = obj[w]
  PROVE  SyncOK'
  BY DEF SyncOK, UniqueURL

LEMMA SavedSync ==
  ASSUME Inv, SyncOK, NEW p \in Procs, NEW a \in Answers, Saved(p, a),
         \A q \in Procs : q # p => obj'[q] = obj[q]
  PROVE  SyncOK'
<1>1. PICK l \in {"done", "next", "idle"} : pc' = [pc EXCEPT ![p] = l]
  BY SavedMoves DEF Inv, Typed
<1>2. \A w \in Replicas : /\ sync'[w].config = sync[w].config
                          /\ sync'[w].pending = sync[w].pending
                          /\ sync'[w].toDelete = sync[w].toDelete
  BY DEF Saved, Reply, Inv, Typed, TypeOK, Syncs, Procs
<1>3. \A w \in Replicas : pc'[w] \in Purging => pc[w] \in Purging /\ w # p
  BY <1>1 DEF Purging, Deleting, Inv, Typed, TypeOK, Procs
<1>4. \A w \in Replicas : pc'[w] \in Deleting => pc[w] \in Deleting /\ w # p
  BY <1>1 DEF Deleting, Inv, Typed, TypeOK, Procs
<1> QED BY <1>2, <1>3, <1>4, QuietSync DEF Procs

LEMMA DeletedSync ==
  ASSUME Inv, SyncOK, NEW p \in Procs, NEW a \in Answers, Deleted(p, a),
         pc[p] \in Deleting, UNCHANGED obj
  PROVE  SyncOK'
<1>1. PICK l \in {"done", "purge"} : pc' = [pc EXCEPT ![p] = l]
  BY DeletedMoves DEF Inv, Typed
<1>2. UNCHANGED sync
  BY DeletedMoves DEF Inv, Typed
<1>3. \A w \in Replicas : /\ pc'[w] \in Purging => pc[w] \in Purging
                          /\ pc'[w] \in Deleting => pc[w] \in Deleting
  BY <1>1 DEF Purging, Deleting, Inv, Typed, TypeOK, Procs
<1> QED BY <1>2, <1>3, QuietSync

\* Steps of a worker or a request that stay within CreateOrSave or Delete.
LEMMA GotoSync ==
  ASSUME Inv, SyncOK, NEW p \in Procs, NEW l, Goto(p, l), UNCHANGED sync,
         \A q \in Procs : q # p => obj'[q] = obj[q],
         l \notin Purging \/ (pc[p] \in Deleting /\ l \in Deleting /\ UNCHANGED obj)
  PROVE  SyncOK'
<1>1. \A w \in Replicas : /\ pc'[w] \in Purging => pc[w] \in Purging
                          /\ pc'[w] \in Deleting => pc[w] \in Deleting /\ obj'[w] = obj[w]
  BY DEF Goto, Purging, Inv, Typed, TypeOK, Procs
<1> QED BY <1>1, QuietSync

LEMMA RunSyncOK ==
  ASSUME Inv, SyncOK, NEW p \in Procs, Run(p)
  PROVE  SyncOK'
<1>1. CASE FindExisting(p)
  <2>1. PICK l \in {"update", "insert"} : Goto(p, l)
    BY <1>1 DEF FindExisting
  <2>2. UNCHANGED sync /\ \A q \in Procs : q # p => obj'[q] = obj[q]
    BY <1>1 DEF FindExisting, Inv, Typed, TypeOK
  <2> QED BY <2>1, <2>2, GotoSync DEF Purging, Deleting
<1>2. CASE NormalizeFails(p)
  BY <1>2, SavedSync DEF NormalizeFails, Answers
<1>3. CASE UpdateRow(p)
  <2>1. CASE Saved(p, "ok")
    BY <1>3, <2>1, SavedSync DEF UpdateRow, Answers
  <2>2. CASE Goto(p, "first") /\ UNCHANGED sync
    BY <1>3, <2>2, GotoSync DEF UpdateRow, Purging, Deleting
  <2> QED BY <1>3, <2>1, <2>2 DEF UpdateRow
<1>4. CASE FirstOrCreate(p)
  <2>1. \A q \in Procs : q # p => obj'[q] = obj[q]
    BY <1>4 DEF FirstOrCreate, Inv, Typed, TypeOK
  <2>2. CASE Saved(p, "ok")
    BY <2>1, <2>2, SavedSync DEF Answers
  <2>3. CASE Goto(p, "insert") /\ UNCHANGED sync
    BY <2>1, <2>3, GotoSync DEF Purging, Deleting
  <2> QED BY <1>4, <2>2, <2>3 DEF FirstOrCreate
<1>5. CASE InsertRow(p)
  BY <1>5, SavedSync DEF InsertRow, Answers
<1>6. CASE LoadToDelete(p)
  <2>1. CASE Goto(p, "delete") /\ UNCHANGED sync
    BY <1>6, <2>1, GotoSync DEF LoadToDelete, Deleting
  <2>2. CASE Deleted(p, "not found")
    BY <1>6, <2>2, DeletedSync DEF LoadToDelete, Answers, Deleting
  <2> QED BY <1>6, <2>1, <2>2 DEF LoadToDelete
<1>7. CASE DeleteRow(p)
  BY <1>7, DeletedSync DEF DeleteRow, Answers, Deleting
<1> QED BY <1>1, <1>2, <1>3, <1>4, <1>5, <1>6, <1>7 DEF Run

\* Steps of a request are none of a worker.
LEMMA RequestSyncOK ==
  ASSUME Inv, SyncOK, NEW r \in Requests, Arrive(r) \/ RunRequest(r), ~Run(r)
  PROVE  SyncOK'
<1>1. \A w \in Replicas : w # r /\ w \in Procs
  BY DEF ServiceAssumption, Procs
<1>2. UNCHANGED sync
  BY DEF Arrive, Admit, Refuse, Reply, Proceed, RunRequest, FillToken, FindToLink, LoadLink,
         InsertLink, DeleteLink
<1>3. \A w \in Replicas : pc'[w] = pc[w]
  BY <1>1 DEF Arrive, Admit, Refuse, Reply, Proceed, Goto, RunRequest, FillToken, FindToLink,
              LoadLink, InsertLink, DeleteLink, Inv, Typed, TypeOK
<1>4. \A w \in Replicas : obj'[w] = obj[w]
  BY <1>1 DEF Arrive, Admit, Refuse, Proceed, RunRequest, FillToken, FindToLink,
              LoadLink, InsertLink, DeleteLink, Inv, Typed, TypeOK
<1> QED BY <1>2, <1>3, <1>4, QuietSync

LEMMA StartSyncOK ==
  ASSUME Inv, SyncOK, NEW w \in Replicas, StartSync(w)
  PROVE  SyncOK'
<1>1. PICK config \in Configs :
        sync' = [sync EXCEPT ![w] = [config |-> config, pending |-> config,
                                     toDelete |-> cluster, runs |-> @.runs + 1,
                                     result |-> "none"]]
  BY DEF StartSync
<1>2. /\ sync'[w].config = config /\ sync'[w].pending = config /\ sync'[w].toDelete = cluster
      /\ \A v \in Replicas : v # w => sync'[v] = sync[v]
  BY <1>1 DEF Inv, Typed, TypeOK
<1>3. /\ pc'[w] = "next" /\ UNCHANGED obj
      /\ \A v \in Replicas : v # w => pc'[v] = pc[v]
  BY DEF StartSync, Goto, Inv, Typed, TypeOK, Procs
<1>4. UniqueURL(cluster)
  BY DEF Inv, TablesOK
<1> QED BY <1>2, <1>3, <1>4 DEF SyncOK, Purging, Deleting

LEMMA NextEntryOK ==
  ASSUME Inv, SyncOK, NEW w \in Replicas, NextEntry(w)
  PROVE  SyncOK'
<1>1. CASE sync[w].pending = {} /\ Goto(w, "purge") /\ UNCHANGED <<sync, obj>>
  <2>1. /\ pc'[w] = "purge"
        /\ \A v \in Replicas : v # w => pc'[v] = pc[v]
    BY <1>1 DEF Goto, Inv, Typed, TypeOK, Procs
  <2> QED BY <1>1, <2>1 DEF SyncOK, Purging, Deleting
<1>2. CASE \E e \in sync[w].pending :
             /\ sync' = [sync EXCEPT ![w].pending = @ \ {e},
                                     ![w].toDelete = Keep(@, e)]
             /\ obj' = [obj EXCEPT ![w] = [cluster_id |-> NilID, url |-> e.url,
                                           token_provider_id |-> e.token_provider_id]]
             /\ Goto(w, "find")
  <2>1. PICK e \in sync[w].pending :
             /\ sync' = [sync EXCEPT ![w].pending = @ \ {e},
                                     ![w].toDelete = Keep(@, e)]
             /\ obj' = [obj EXCEPT ![w] = [cluster_id |-> NilID, url |-> e.url,
                                           token_provider_id |-> e.token_provider_id]]
             /\ Goto(w, "find")
    BY <1>2
  <2>2. sync[w] \in Syncs /\ e \in ConfigEntries
    BY DEF Inv, Typed, TypeOK, Syncs
  <2>3. /\ sync'[w] = [sync[w] EXCEPT !.pending = @ \ {e}, !.toDelete = Keep(@, e)]
        /\ \A v \in Replicas : v # w => sync'[v] = sync[v]
    BY <2>1 DEF Inv, Typed, TypeOK
  <2>4. /\ sync'[w].config = sync[w].config
        /\ sync'[w].pending = sync[w].pending \ {e}
        /\ sync'[w].toDelete = Keep(sync[w].toDelete, e)
    BY <2>2, <2>3 DEF Syncs
  <2>5. /\ pc'[w] = "find"
        /\ \A v \in Replicas : v # w => pc'[v] = pc[v] /\ obj'[v] = obj[v]
    BY <2>1 DEF Goto, Inv, Typed, TypeOK, Procs
  <2>6. \A c \in Keep(sync[w].toDelete, e) :
          c \in sync[w].toDelete /\ c.url # AddTrailingSlashToURL(e.url)
    <3>1. \A c \in sync[w].toDelete : c.url \in URLs /\ c.url.slash
      BY <2>2 DEF Inv, SlashesOK, Syncs, ClusterRows
    <3>2. UniqueURL(sync[w].toDelete) /\ e.url \in URLs
      BY <2>2 DEF SyncOK, ConfigEntries
    <3> QED BY <3>1, <3>2, KeepDropsEntry
  <2>7. /\ UniqueURL(sync'[w].toDelete)
        /\ \A f \in sync'[w].config \ sync'[w].pending, c \in sync'[w].toDelete :
             c.url # AddTrailingSlashToURL(f.url)
    BY <2>4, <2>6 DEF SyncOK, UniqueURL
  <2>8. pc'[w] \notin Purging /\ pc'[w] \notin Deleting
    BY <2>5 DEF Purging, Deleting
  <2>9. \A v \in Replicas : v # w =>
          sync'[v] = sync[v] /\ pc'[v] = pc[v] /\ obj'[v] = obj[v]
    BY <2>3, <2>5
  <2> QED BY <2>7, <2>8, <2>9 DEF SyncOK
<1> QED BY <1>1, <1>2 DEF NextEntry

LEMMA NextDeleteOK ==
  ASSUME Inv, SyncOK, NEW w \in Replicas, NextDelete(w)
  PROVE  SyncOK'
<1>1. pc[w] = "purge"
  BY DEF NextDelete
<1>2. CASE /\ sync' = [sync EXCEPT ![w].result = "ok"]
           /\ Goto(w, "idle")
           /\ UNCHANGED obj
  <2>1. /\ pc'[w] = "idle"
        /\ \A v \in Replicas : v # w => pc'[v] = pc[v]
    BY <1>2 DEF Goto, Inv, Typed, TypeOK, Procs
  <2>2. \A v \in Replicas : /\ sync'[v].config = sync[v].config
                            /\ sync'[v].pending = sync[v].pending
                            /\ sync'[v].toDelete = sync[v].toDelete
    BY <1>2 DEF Inv, Typed, TypeOK, Syncs
  <2> QED BY <1>2, <2>1, <2>2, QuietSync DEF Purging, Deleting
<1>3. CASE \E c \in sync[w].toDelete :
             /\ sync' = [sync EXCEPT ![w].toDelete = @ \ {c}]
             /\ obj' = [obj EXCEPT ![w] = c]
             /\ Goto(w, "load")
  <2>1. PICK c \in sync[w].toDelete :
             /\ sync' = [sync EXCEPT ![w].toDelete = @ \ {c}]
             /\ obj' = [obj EXCEPT ![w] = c]
             /\ Goto(w, "load")
    BY <1>3
  <2>2. /\ sync'[w].config = sync[w].config
        /\ sync'[w].pending = sync[w].pending
        /\ sync'[w].toDelete \subseteq sync[w].toDelete
        /\ \A v \in Replicas : v # w => sync'[v] = sync[v]
    BY <2>1 DEF Inv, Typed, TypeOK, Syncs
  <2>3. /\ pc'[w] = "load" /\ obj'[w] = c
        /\ \A v \in Replicas : v # w => pc'[v] = pc[v] /\ obj'[v] = obj[v]
    BY <2>1 DEF Goto, Inv, Typed, TypeOK, Procs
  <2>4. sync[w].pending = {}
    BY <1>1 DEF SyncOK, Purging
  <2>5. \A e \in sync[w].config : c.url # AddTrailingSlashToURL(e.url)
    BY <2>4 DEF SyncOK
  <2> QED BY <2>2, <2>3, <2>4, <2>5 DEF SyncOK, UniqueURL, Purging
<1> QED BY <1>2, <1>3 DEF NextDelete

LEMMA ListFailsOK ==
  ASSUME Inv, SyncOK, NEW w \in Replicas, ListFails(w)
  PROVE  SyncOK'
<1>1. \A v \in Replicas : /\ sync'[v].config = sync[v].config
                          /\ sync'[v].pending = sync[v].pending
                          /\ sync'[v].toDelete = sync[v].toDelete
  BY DEF ListFails, Inv, Typed, TypeOK, Syncs
<1> QED BY <1>1, QuietSync DEF ListFails

LEMMA FaultOK ==
  ASSUME Inv, SyncOK, NEW p \in Procs, Fail(p) \/ LoseCommit(p)
  PROVE  SyncOK'
<1>1. UNCHANGED obj
  BY DEF Fail, LoseCommit
<1>2. CASE \E a \in Answers : Saved(p, a)
  BY <1>1, <1>2, SavedSync
<1>3. CASE pc[p] \in Deleting /\ \E a \in Answers : Deleted(p, a)
  BY <1>1, <1>3, DeletedSync
<1>4. CASE \E a \in Answers : Reply(p, a)
  BY <1>1, <1>4, GotoSync DEF Reply, Purging, Deleting
<1>5. "ok" \in Answers /\ "internal error" \in Answers
  BY DEF Answers
<1>6. "delete" \in Deleting
  BY DEF Deleting
<1>7. CASE Fail(p)
  BY <1>2, <1>3, <1>4, <1>5, <1>7 DEF Fail
<1>8. CASE LoseCommit(p)
  BY <1>2, <1>3, <1>4, <1>5, <1>6, <1>8 DEF LoseCommit
<1> QED BY <1>7, <1>8

LEMMA NextSync == Inv /\ SyncOK /\ [Next]_vars => SyncOK'
<1> SUFFICES ASSUME Inv, SyncOK, [Next]_vars PROVE SyncOK'
  OBVIOUS
<1>1. CASE UNCHANGED vars
  BY <1>1, QuietSync DEF vars
<1>2. ASSUME NEW r \in Requests, Arrive(r) \/ RunRequest(r) PROVE SyncOK'
  BY <1>2, RequestSyncOK, RunSyncOK DEF Procs
<1>3. ASSUME NEW w \in Replicas, StartSync(w) \/ ListFails(w) \/ RunSync(w) PROVE SyncOK'
  BY <1>3, StartSyncOK, ListFailsOK, NextEntryOK, NextDeleteOK, RunSyncOK DEF RunSync, Procs
<1> QED BY <1>1, <1>2, <1>3, FaultOK DEF Next

LEMMA Sync == Spec => []SyncOK
<1>1. Init => SyncOK
  BY DEF Init, SyncOK, UniqueURL, Purging, Deleting, Procs, ServiceAssumption
<1> QED BY <1>1, Invariance, NextSync, PTL DEF Spec

-----------------------------------------------------------------------------
(* Whose step it is.                                                        *)

\* A step is that of one process ...
StepOf(p) ==
  \/ p \in Requests /\ (Arrive(p) \/ RunRequest(p))
  \/ p \in Replicas /\ (StartSync(p) \/ ListFails(p) \/ RunSync(p))
  \/ Fail(p) \/ LoseCommit(p)

LEMMA NextSteps == Next => \E p \in Procs : StepOf(p)
  BY DEF Next, StepOf, Procs

\* ... and leaves the others where they are.
Stays(q) == /\ pc'[q] = pc[q]
            /\ obj'[q] = obj[q]
            /\ q \in Replicas => sync'[q] = sync[q]
            /\ q \in Requests => call'[q] = call[q] /\ answer'[q] = answer[q]

LEMMA Alone ==
  ASSUME Inv, NEW p \in Procs, StepOf(p), NEW q \in Procs, q # p
  PROVE  Stays(q)
<1> USE DEF Stays
<1>1. /\ pc \in [Procs -> RequestLabels \cup WorkerLabels]
      /\ obj \in [Procs -> Objects \cup {None}]
      /\ call \in [Requests -> Calls \cup {None}]
      /\ answer \in [Requests -> Answers \cup {"none"}]
      /\ sync \in [Replicas -> Syncs]
  BY DEF Inv, Typed, TypeOK
<1>2. ASSUME NEW l, Goto(p, l) PROVE pc'[q] = pc[q]
  BY <1>1, <1>2 DEF Goto
<1>3. ASSUME NEW a, Saved(p, a) PROVE /\ pc'[q] = pc[q]
                                      /\ q \in Requests => answer'[q] = answer[q]
                                      /\ q \in Replicas => sync'[q] = sync[q]
  BY <1>1, <1>2, <1>3 DEF Saved, Reply
<1>4. ASSUME NEW a, Deleted(p, a) PROVE /\ pc'[q] = pc[q]
                                        /\ q \in Requests => answer'[q] = answer[q]
                                        /\ UNCHANGED sync
  BY <1>1, <1>2, <1>4 DEF Deleted, Reply
<1>5. ASSUME Run(p) PROVE Stays(q)
  BY <1>1, <1>2, <1>3, <1>4, <1>5
  DEF Run, FindExisting, NormalizeFails, UpdateRow, FirstOrCreate, InsertRow, LoadToDelete,
      DeleteRow
<1>6. ASSUME Arrive(p) \/ RunRequest(p) PROVE Stays(q)
  BY <1>1, <1>2, <1>5, <1>6
  DEF Arrive, Admit, Refuse, Reply, Proceed, RunRequest, FillToken, FindToLink, LoadLink,
      InsertLink, DeleteLink
<1>7. ASSUME StartSync(p) \/ ListFails(p) \/ RunSync(p) PROVE Stays(q)
  BY <1>1, <1>2, <1>5, <1>7 DEF StartSync, ListFails, RunSync, NextEntry, NextDelete
<1>8. ASSUME Fail(p) \/ LoseCommit(p) PROVE Stays(q)
  BY <1>1, <1>2, <1>3, <1>4, <1>8 DEF Fail, LoseCommit, Reply
<1> QED BY <1>6, <1>7, <1>8 DEF StepOf

\* A step changes table cluster by one of three statements.
LEMMA Writers ==
  ASSUME [Next]_vars
  PROVE  UNCHANGED cluster \/ \E p \in Procs : UpdateRow(p) \/ InsertRow(p) \/ DeleteRow(p)
<1>1. CASE UNCHANGED vars
  BY <1>1 DEF vars
<1>2. ASSUME NEW p \in Procs, Run(p), ~(UpdateRow(p) \/ InsertRow(p) \/ DeleteRow(p))
      PROVE  UNCHANGED cluster
  BY <1>2 DEF Run, FindExisting, NormalizeFails, FirstOrCreate, LoadToDelete, store
<1>3. ASSUME NEW r \in Requests, Arrive(r) \/ RunRequest(r), ~Run(r)
      PROVE  UNCHANGED cluster
  BY <1>3 DEF Arrive, RunRequest, FillToken, FindToLink, LoadLink, InsertLink, DeleteLink, store
<1>4. ASSUME NEW w \in Replicas, StartSync(w) \/ ListFails(w) \/ RunSync(w), ~Run(w)
      PROVE  UNCHANGED cluster
  BY <1>4 DEF StartSync, ListFails, RunSync, NextEntry, NextDelete, store
<1>5. ASSUME NEW p \in Procs, Fail(p) \/ LoseCommit(p) PROVE UNCHANGED cluster
  BY <1>5 DEF Fail, LoseCommit, store
<1> QED BY <1>1, <1>2, <1>3, <1>4, <1>5 DEF Next, Procs

\* A request is answered by a step of its own.
LEMMA OwnAnswer ==
  ASSUME Inv, [Next]_vars, NEW r \in Requests, NEW a, Answered(r, a)
  PROVE  Arrive(r) \/ RunRequest(r) \/ Fail(r) \/ LoseCommit(r)
<1>1. pc'[r] # pc[r] /\ r \in Procs /\ r \notin Replicas
  BY DEF Answered, Procs, ServiceAssumption
<1>2. PICK p \in Procs : StepOf(p)
  BY <1>1, NextSteps DEF vars
<1>3. p = r
  BY <1>1, <1>2, Alone DEF Stays
<1> QED BY <1>1, <1>2, <1>3 DEF StepOf

-----------------------------------------------------------------------------
(* The action properties.                                                   *)

\* Whatever happened since the worker listed the clusters, its DELETE is never
\* about one that its configuration has.
THEOREM SyncNeverDeletesConfigured == Spec => SyncKeepsConfigured
<1> DEFINE Keeps == \A w \in Replicas : pc[w] = "delete" /\ pc'[w] = "purge" =>
                      \A c \in cluster \ cluster', e \in sync[w].config :
                        AddTrailingSlashToURL(e.url) # c.url
<1>1. ASSUME Inv, SyncOK, [Next]_vars PROVE Keeps
  <2> SUFFICES ASSUME NEW w \in Replicas, pc[w] = "delete", pc'[w] = "purge",
                      NEW c \in cluster, c \notin cluster', NEW e \in sync[w].config
               PROVE  AddTrailingSlashToURL(e.url) # c.url
    OBVIOUS
  <2>1. w \in Procs
    BY DEF Procs
  <2>2. PICK p \in Procs : UpdateRow(p) \/ DeleteRow(p)
    BY <1>1, Writers DEF InsertRow
  <2>3. p = w
    <3>1. CASE UpdateRow(p)
      <4>1. \E l : Goto(p, l)
        BY <3>1 DEF UpdateRow, Saved, Reply
      <4> QED BY <1>1, <2>1, <3>1, <4>1 DEF UpdateRow, Goto, Inv, Typed, TypeOK
    <3>2. CASE DeleteRow(p)
      <4>1. \E l : Goto(p, l)
        BY <3>2 DEF DeleteRow, Deleted, Reply
      <4> QED BY <1>1, <2>1, <4>1 DEF Goto, Inv, Typed, TypeOK
    <3> QED BY <2>2, <3>1, <3>2
  <2>4. cluster' = DeleteCluster(cluster, obj[w].cluster_id)
    BY <2>2, <2>3 DEF UpdateRow, DeleteRow, store, Target, ServiceAssumption
  <2>5. c \in Load(cluster, obj[w].cluster_id)
    BY <2>4 DEF DeleteCluster, Load
  <2>6. Holds(w) /\ obj[w] \in ClusterRows /\ obj[w].url.slash
    BY <1>1, <2>1 DEF Holds, Deleting, Inv, Typed, ControlOK, SlashesOK
  <2>7. c.url = obj[w].url
    <3>1. c \in ClusterRows
      BY <1>1 DEF Inv, Typed, TypeOK
    <3>2. Denotes(c.cluster_id, c.url) /\ Denotes(c.cluster_id, obj[w].url)
      BY <2>1, <2>5, <2>6, SlashIdempotent DEF Denotes, HasID, Load, ClusterRows
    <3> QED BY <1>1, <2>6, <3>1, <3>2 DEF Inv, IDsOK, ClusterRows
  <2> QED BY <1>1, <2>7 DEF SyncOK, Deleting
<1>2. [][Keeps]_vars => SyncKeepsConfigured
  BY PTL DEF SyncKeepsConfigured
<1> HIDE DEF Keeps
<1> QED BY <1>1, <1>2, Invariance, Sync, PTL DEF Spec

\* The row a create is answered about is stored at that moment, under the URL
\* it asked for, also when it was deleted or stored by others meanwhile; the
\* exception is a create whose COMMIT failed in the step that answers it.
THEOREM CreatedClustersAreStored == Spec => CreatedIsStored
<1> DEFINE Stores == \A r \in Requests : Answered(r, "ok") /\ call[r] \in CreateCalls =>
                       \/ LoseCommit(r)
                       \/ obj'[r] \in cluster' /\ obj'[r].url = RequestedURL(r)
<1>1. ASSUME Inv, PurposeOK, [Next]_vars PROVE Stores
  <2> SUFFICES ASSUME NEW r \in Requests, Answered(r, "ok"), call[r] \in CreateCalls,
                      ~LoseCommit(r)
               PROVE  obj'[r] \in cluster' /\ obj'[r].url = RequestedURL(r)
    OBVIOUS
  <2>1. /\ r \in Procs /\ r \notin Replicas /\ pc[r] # "done" /\ pc'[r] = "done"
        /\ answer'[r] = "ok"
    BY DEF Answered, Procs, ServiceAssumption
  <2>2. ASSUME NEW a, Reply(r, a) PROVE a = "ok"
    BY <1>1, <2>1, <2>2 DEF Reply, Inv, Typed, TypeOK
  <2>3. ASSUME NEW l, Goto(r, l) PROVE l = "done"
    BY <1>1, <2>1, <2>3 DEF Goto, Inv, Typed, TypeOK
  <2>4. ASSUME NEW a, Saved(r, a) \/ Deleted(r, a) PROVE a = "ok"
    BY <2>1, <2>2, <2>4 DEF Saved, Deleted
  <2>5. pc[r] \notin Deleting \cup {"link.find", "link.load", "link.insert", "unlink"}
    BY <1>1 DEF Inv, Typed, ControlOK, CreateCalls, DeleteCalls, LinkCalls, UnlinkCalls
  <2>6. ~Arrive(r)
    <3>1. ASSUME NEW c, Admit(r, c) PROVE FALSE
      BY <2>3, <3>1 DEF Admit, Proceed
    <3> QED BY <2>2, <3>1 DEF Arrive, Refuse
  <2>7. UpdateRow(r) \/ FirstOrCreate(r) \/ InsertRow(r)
    BY <1>1, <2>2, <2>3, <2>4, <2>5, <2>6, OwnAnswer
    DEF RunRequest, Run, Fail, FindExisting, NormalizeFails, FillToken, LoadToDelete, DeleteRow,
        FindToLink, LoadLink, InsertLink, DeleteLink, Deleting
  <2>8. /\ Holds(r) /\ pc[r] \in Purposeful
        /\ obj[r] \in ClusterRows /\ obj[r].url.slash
    BY <1>1, <2>1, <2>7 DEF UpdateRow, FirstOrCreate, InsertRow, Holds, Purposeful, Saving,
                           Inv, Typed, ControlOK, SlashesOK
  <2>9. obj[r].url = RequestedURL(r)
    BY <1>1, <2>8, SlashIdempotent DEF PurposeOK, ClusterRows
  <2>10. CASE UpdateRow(r)
    BY <2>3, <2>9, <2>10 DEF UpdateRow, Update
  <2>11. CASE InsertRow(r)
    BY <2>4, <2>9, <2>11 DEF InsertRow
  <2>12. CASE FirstOrCreate(r)
    <3>1. PICK c \in Load(cluster, obj[r].cluster_id) : obj'[r] = c
      BY <1>1, <2>1, <2>3, <2>12 DEF FirstOrCreate, Inv, Typed, TypeOK
    <3>2. c \in cluster' /\ c.cluster_id = obj[r].cluster_id /\ c \in cluster
      BY <2>12 DEF FirstOrCreate, store, Load
    <3>3. c.url = obj[r].url
      <4>1. c \in ClusterRows
        BY <1>1, <3>2 DEF Inv, Typed, TypeOK
      <4>2. Denotes(c.cluster_id, c.url) /\ Denotes(c.cluster_id, obj[r].url)
        BY <2>1, <2>8, <3>2, SlashIdempotent DEF Denotes, HasID, ClusterRows
      <4> QED BY <1>1, <2>8, <4>1, <4>2 DEF Inv, IDsOK, ClusterRows
    <3> QED BY <2>9, <3>1, <3>2, <3>3
  <2> QED BY <2>7, <2>10, <2>11, <2>12
<1>2. [][Stores]_vars => CreatedIsStored
  BY PTL DEF CreatedIsStored
<1> HIDE DEF Stores
<1> QED BY <1>1, <1>2, Invariance, Purpose, PTL DEF Spec

\* A link answered without an error exists at that moment, for the URL it was
\* asked for: the ID found for the URL still denotes it, or the link is refused.
\* The exception is a link whose COMMIT failed in the step that answers it.
THEOREM LinksAreReal == Spec => LinkedMeansLinked
<1> DEFINE Links == \A r \in Requests : Answered(r, "ok") /\ call[r] \in LinkCalls =>
                      \/ LoseCommit(r)
                      \/ \E c \in cluster' :
                           /\ c.url = RequestedURL(r)
                           /\ LinkExists(identity_cluster', call[r].identity_id, c.cluster_id)
<1>1. ASSUME Inv, PurposeOK, [Next]_vars PROVE Links
  <2> SUFFICES ASSUME NEW r \in Requests, Answered(r, "ok"), call[r] \in LinkCalls,
                      ~LoseCommit(r)
               PROVE  \E c \in cluster' : /\ c.url = RequestedURL(r)
                                          /\ LinkExists(identity_cluster', call[r].identity_id,
                                                        c.cluster_id)
    OBVIOUS
  <2>1. /\ r \in Procs /\ r \notin Replicas /\ pc[r] # "done" /\ pc'[r] = "done"
        /\ answer'[r] = "ok"
    BY DEF Answered, Procs, ServiceAssumption
  <2>2. ASSUME NEW a, Reply(r, a) PROVE a = "ok"
    BY <1>1, <2>1, <2>2 DEF Reply, Inv, Typed, TypeOK
  <2>3. ASSUME NEW l, Goto(r, l) PROVE l = "done"
    BY <1>1, <2>1, <2>3 DEF Goto, Inv, Typed, TypeOK
  <2>4. ASSUME NEW a, Saved(r, a) \/ Deleted(r, a) PROVE a = "ok"
    BY <2>1, <2>2, <2>4 DEF Saved, Deleted
  <2>5. pc[r] \notin Saving \cup Deleting \cup {"lookup", "unlink"}
    BY <1>1 DEF Inv, Typed, ControlOK, CreateCalls, DeleteCalls, LinkCalls, UnlinkCalls
  <2>6. ~Arrive(r)
    <3>1. ASSUME NEW c, Admit(r, c) PROVE FALSE
      BY <2>3, <3>1 DEF Admit, Proceed
    <3> QED BY <2>2, <3>1 DEF Arrive, Refuse
  <2>7. LoadLink(r) \/ InsertLink(r)
    BY <1>1, <2>2, <2>3, <2>4, <2>5, <2>6, OwnAnswer
    DEF RunRequest, Run, Fail, FindExisting, NormalizeFails, FillToken, LoadToDelete, DeleteRow,
        UpdateRow, FirstOrCreate, InsertRow, FindToLink, Refuse, Proceed, DeleteLink,
        Saving, Deleting
  <2>8. /\ Holds(r) /\ pc[r] \in Purposeful
        /\ obj[r] \in ClusterRows /\ obj[r].url.slash
    BY <1>1, <2>1, <2>7 DEF LoadLink, InsertLink, Holds, Purposeful,
                           Inv, Typed, ControlOK, SlashesOK
  <2>9. obj[r].url = RequestedURL(r)
    BY <1>1, <2>8, SlashIdempotent DEF PurposeOK, ClusterRows
  <2>10. /\ LinkExists(identity_cluster', call[r].identity_id, obj[r].cluster_id)
         /\ Load(cluster, obj[r].cluster_id) # {}
         /\ UNCHANGED cluster
    <3>1. CASE LoadLink(r)
      <4>1. LinkExists(identity_cluster, call[r].identity_id, obj[r].cluster_id)
        BY <2>3, <3>1 DEF LoadLink
      <4> QED BY <1>1, <3>1, <4>1 DEF LoadLink, store, LinkExists, Inv, TablesOK, ForeignKey
    <3>2. CASE InsertLink(r)
      <4> DEFINE row == NewLink(r)
      <4>1. /\ ~InsertLinkViolates(cluster, identity_cluster, row)
            /\ row \in identity_cluster'
            /\ UNCHANGED cluster
        BY <2>2, <3>2 DEF InsertLink
      <4> QED BY <4>1 DEF NewLink, InsertLinkViolates, LinkExists
    <3> QED BY <2>7, <3>1, <3>2
  <2>11. PICK c \in cluster : c.cluster_id = obj[r].cluster_id
    BY <2>10 DEF Load
  <2>12. c.url = obj[r].url
    <3>1. c \in ClusterRows
      BY <1>1, <2>11 DEF Inv, Typed, TypeOK
    <3>2. Denotes(c.cluster_id, c.url) /\ Denotes(c.cluster_id, obj[r].url)
      BY <2>1, <2>8, <2>11, SlashIdempotent DEF Denotes, HasID, ClusterRows
    <3> QED BY <1>1, <2>8, <3>1, <3>2 DEF Inv, IDsOK, ClusterRows
  <2> QED BY <2>9, <2>10, <2>11, <2>12
<1>2. [][Links]_vars => LinkedMeansLinked
  BY PTL DEF LinkedMeansLinked
<1> HIDE DEF Links
<1> QED BY <1>1, <1>2, Invariance, Purpose, PTL DEF Spec
=============================================================================
