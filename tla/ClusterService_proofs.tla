----------------------- MODULE ClusterService_proofs -----------------------
(***************************************************************************)
(* Proofs about ClusterService: for any number of requests and replicas,    *)
(* any calls, configurations and databases.                                 *)
(***************************************************************************)
EXTENDS ClusterServiceProperties, TLAPS

USE StoreAssumption, ServiceAssumption

-----------------------------------------------------------------------------
(* What a process knows of the object and the call it works on, from where  *)
(* it is: the code's local variables are set when they are used.            *)

ControlOK ==
  /\ \A p \in Procs :
       /\ pc[p] = "lookup" => obj[p] \in Objects /\ obj[p].cluster_id = NilID
       /\ pc[p] = "find" => obj[p] \in Objects /\ obj[p].token_provider_id \in StoredTokens
       /\ Holds(p) => obj[p] \in ClusterRows
  /\ \A r \in Requests :
       /\ pc[r] \in Saving \cup {"lookup"} => call[r] \in CreateCalls
       /\ pc[r] \in Deleting => call[r] \in DeleteCalls
       /\ pc[r] \in {"link.find", "link.load", "link.insert"} => call[r] \in LinkCalls
       /\ pc[r] = "unlink" => call[r] \in UnlinkCalls

Typed == TypeOK /\ ControlOK

LEMMA InitTyped == Init => Typed
<1> SUFFICES ASSUME Init PROVE Typed
  OBVIOUS
<1>1. PICK db \in Databases : cluster = db.cluster /\ identity_cluster = db.identity_cluster
  BY DEF Init
<1>2. WellFormed(cluster, identity_cluster)
  BY <1>1 DEF ServiceAssumption
<1>3. TypeOK
  BY <1>2 DEF Init, TypeOK, WellFormed, Procs, RequestLabels, WorkerLabels, Syncs, ClusterRows
<1>4. ControlOK
  BY DEF Init, ControlOK, Holds, Procs, Saving, Deleting
<1> QED BY <1>3, <1>4 DEF Typed

\* The continuations of CreateOrSave and Delete move process p alone.
LEMMA SavedMoves ==
  ASSUME TypeOK, NEW p \in Procs, NEW a \in Answers, Saved(p, a)
  PROVE  /\ \E l \in {"done", "next", "idle"} : 
              /\ pc' = [pc EXCEPT ![p] = l] 
              /\ p \in Requests => l = "done"
              /\ p \in Replicas => l # "done"
         /\ answer' \in [Requests -> Answers \cup {"none"}]
         /\ sync' \in [Replicas -> Syncs]
         /\ \A w \in Replicas : sync'[w].toDelete = sync[w].toDelete
<1>1. CASE p \in Requests
  BY <1>1 DEF Saved, Reply, Goto, TypeOK, Procs, Syncs
<1>2. CASE p \in Replicas
  BY <1>2 DEF Saved, Goto, TypeOK, Procs, Syncs
<1> QED BY <1>1, <1>2 DEF Procs

LEMMA DeletedMoves ==
  ASSUME TypeOK, NEW p \in Procs, NEW a \in Answers, Deleted(p, a)
  PROVE  /\ \E l \in {"done", "purge"} :
              /\ pc' = [pc EXCEPT ![p] = l]
              /\ p \in Requests => l = "done"
              /\ p \in Replicas => l = "purge"
         /\ answer' \in [Requests -> Answers \cup {"none"}]
         /\ sync' = sync
  BY DEF Deleted, Reply, Goto, TypeOK, Procs

\* A process that moves to a label of its own kind leaves the labels typed.
LEMMA MoveTyped ==
  ASSUME TypeOK, NEW p \in Procs, NEW l, pc' = [pc EXCEPT ![p] = l],
         p \in Requests => l \in RequestLabels,
         p \in Replicas => l \in WorkerLabels
  PROVE  /\ pc' \in [Procs -> RequestLabels \cup WorkerLabels]
         /\ \A q \in Requests : pc'[q] \in RequestLabels
         /\ \A w \in Replicas : pc'[w] \in WorkerLabels
<1>1. l \in RequestLabels \cup WorkerLabels
  BY DEF Procs
<1> QED BY <1>1 DEF TypeOK, Procs

LEMMA SavedTyped ==
  ASSUME TypeOK, NEW p \in Procs, NEW a \in Answers, Saved(p, a),
         UNCHANGED <<issued, call>>, obj' \in [Procs -> Objects \cup {None}],
         cluster' \subseteq ClusterRows, identity_cluster' \subseteq LinkRows,
         failures' \in 0..MaxFailures, swallowed' \subseteq Replicas
  PROVE  TypeOK'
<1>1. PICK l \in {"done", "next", "idle"} : /\ pc' = [pc EXCEPT ![p] = l]
                                            /\ p \in Requests => l = "done"
                                            /\ p \in Replicas => l # "done"
  BY SavedMoves
<1>2. /\ p \in Requests => l \in RequestLabels
      /\ p \in Replicas => l \in WorkerLabels
  BY <1>1 DEF RequestLabels, WorkerLabels
<1>3. /\ pc' \in [Procs -> RequestLabels \cup WorkerLabels]
      /\ \A q \in Requests : pc'[q] \in RequestLabels
      /\ \A w \in Replicas : pc'[w] \in WorkerLabels
  BY <1>1, <1>2, MoveTyped
<1>4. answer' \in [Requests -> Answers \cup {"none"}] /\ sync' \in [Replicas -> Syncs]
  BY SavedMoves
<1> QED BY <1>3, <1>4 DEF TypeOK

LEMMA DeletedTyped ==
  ASSUME TypeOK, NEW p \in Procs, NEW a \in Answers, Deleted(p, a),
         UNCHANGED <<issued, obj, call>>,
         cluster' \subseteq ClusterRows, identity_cluster' \subseteq LinkRows,
         failures' \in 0..MaxFailures, swallowed' \subseteq Replicas
  PROVE  TypeOK'
<1>1. PICK l \in {"done", "purge"} : /\ pc' = [pc EXCEPT ![p] = l]
                                     /\ p \in Requests => l = "done"
                                     /\ p \in Replicas => l = "purge"
  BY DeletedMoves
<1>2. /\ p \in Requests => l \in RequestLabels
      /\ p \in Replicas => l \in WorkerLabels
  BY <1>1 DEF RequestLabels, WorkerLabels
<1>3. /\ pc' \in [Procs -> RequestLabels \cup WorkerLabels]
      /\ \A q \in Requests : pc'[q] \in RequestLabels
      /\ \A w \in Replicas : pc'[w] \in WorkerLabels
  BY <1>1, <1>2, MoveTyped
<1>4. answer' \in [Requests -> Answers \cup {"none"}] /\ sync' = sync
  BY DeletedMoves
<1> QED BY <1>3, <1>4 DEF TypeOK

LEMMA ArriveTyped ==
  ASSUME Typed, NEW r \in Requests, Arrive(r)
  PROVE  Typed'
<1> USE DEF Typed, faults
<1>1. PICK c \in Calls : /\ call' = [call EXCEPT ![r] = c]
                         /\ \/ Refuse(r, "unauthorized")
                            \/ Refuse(r, "bad parameter")
                            \/ Admit(r, c)
  BY DEF Arrive, ServiceAssumption
<1>2. pc[r] = "new" /\ UNCHANGED <<cluster, identity_cluster, issued, faults>>
  BY DEF Arrive, store
<1>3. CASE \E a \in Answers : Refuse(r, a)
  <2>1. PICK a \in Answers : /\ pc' = [pc EXCEPT ![r] = "done"]
                            /\ answer' = [answer EXCEPT ![r] = a]
                            /\ UNCHANGED <<sync, obj>>
    BY <1>3 DEF Refuse, Reply, Goto
  <2>2. /\ pc' \in [Procs -> RequestLabels \cup WorkerLabels]
        /\ \A q \in Requests : pc'[q] \in RequestLabels
        /\ \A w \in Replicas : pc'[w] \in WorkerLabels
    BY <2>1 DEF TypeOK, Procs, RequestLabels
  <2>3. /\ call' \in [Requests -> Calls \cup {None}]
        /\ answer' \in [Requests -> Answers \cup {"none"}]
    BY <1>1, <2>1 DEF TypeOK
  <2>4. TypeOK'
    BY <1>2, <2>1, <2>2, <2>3 DEF TypeOK
  <2>5. ControlOK'
    BY <1>1, <1>2, <2>1 DEF ControlOK, TypeOK, Procs, Holds, Saving, Deleting
  <2> QED BY <2>4, <2>5
<1>4. CASE Admit(r, c)
  <2>1. CASE c \in CreateCalls
    <3>1. Payload(c) \in Objects /\ Payload(c).cluster_id = NilID
      BY <2>1 DEF Payload, Objects, CreateCalls, StoredTokens
    <3>2. PICK l \in {"lookup", "find"} : 
             /\ Proceed(r, l, Payload(c))
             /\ l = "find" => c.token_provider_id # Blank
      BY <2>1, <1>4 DEF Admit, CreateCalls, DeleteCalls, LinkCalls, UnlinkCalls
    <3>3. l = "find" => Payload(c).token_provider_id \in StoredTokens
      BY <3>2, <2>1 DEF Payload, CreateCalls, StoredTokens
    <3>4. TypeOK'
      BY <1>1, <1>2, <3>1, <3>2 DEF TypeOK, Proceed, Goto, Procs, RequestLabels, Saving
    <3>5. ControlOK'
      BY <1>1, <1>2, <2>1, <3>1, <3>2, <3>3 DEF ControlOK, TypeOK, Proceed, Goto, Procs, Holds, Saving, Deleting
    <3> QED BY <3>4, <3>5
  <2>2. CASE c \notin CreateCalls
    <3>1. PICK l \in {"load", "link.find", "unlink"} : 
             /\ Proceed(r, l, None)
             /\ l = "load" => c \in DeleteCalls
             /\ l = "link.find" => c \in LinkCalls
             /\ l = "unlink" => c \in UnlinkCalls
      BY <2>2, <1>4 DEF Admit
    <3>2. TypeOK'
      BY <1>1, <1>2, <3>1 DEF TypeOK, Proceed, Goto, Procs, RequestLabels, Saving, Deleting
    <3>3. ControlOK'
      BY <1>1, <1>2, <3>1 DEF ControlOK, TypeOK, Proceed, Goto, Procs, Holds, Saving, Deleting
    <3> QED BY <3>2, <3>3
  <2> QED BY <2>1, <2>2
<1> QED BY <1>1, <1>3, <1>4 DEF Answers

LEMMA FillTokenTyped ==
  ASSUME Typed, NEW r \in Requests, FillToken(r)
  PROVE  Typed'
<1> USE DEF Typed, faults
<1>1. obj[r] \in Objects /\ r \in Procs /\ pc[r] = "lookup"
  BY DEF FillToken, ControlOK, Procs
<1>2. PICK o \in Objects : /\ obj' = [obj EXCEPT ![r] = o]
                           /\ o.token_provider_id \in StoredTokens
                           /\ issued' \subseteq ClusterIDs
  <2>1. CASE \E c \in FindByURL(cluster, obj[r].url) :
               obj' = [obj EXCEPT ![r].token_provider_id = c.token_provider_id] /\ UNCHANGED issued
    <3>1. PICK c \in cluster : obj' = [obj EXCEPT ![r].token_provider_id = c.token_provider_id]
      BY <2>1 DEF FindByURL
    <3>2. c.token_provider_id \in StoredTokens
      BY DEF TypeOK, ClusterRows
    <3> DEFINE o == [obj[r] EXCEPT !.token_provider_id = c.token_provider_id]
    <3>3. o \in Objects /\ o.token_provider_id \in StoredTokens
      BY <1>1, <3>2 DEF Objects
    <3>4. obj' = [obj EXCEPT ![r] = o]
      BY <3>1
    <3> QED BY <3>3, <3>4, <2>1 DEF TypeOK
  <2>2. CASE \E id \in ClusterIDs : NewUUID(id) /\
               obj' = [obj EXCEPT ![r].cluster_id = id, ![r].token_provider_id = id]
    <3>1. PICK id \in ClusterIDs : NewUUID(id) /\
               obj' = [obj EXCEPT ![r].cluster_id = id, ![r].token_provider_id = id]
      BY <2>2
    <3> DEFINE o == [obj[r] EXCEPT !.cluster_id = id, !.token_provider_id = id]
    <3>2. o \in Objects /\ o.token_provider_id \in StoredTokens
      BY <1>1 DEF Objects, StoredTokens
    <3>3. obj' = [obj EXCEPT ![r] = o]
      BY <3>1, <1>1 DEF TypeOK
    <3> QED BY <3>1, <3>2, <3>3 DEF TypeOK, NewUUID
  <2> QED BY <2>1, <2>2 DEF FillToken
<1>3. TypeOK'
  BY <1>1, <1>2 DEF FillToken, store, TypeOK, Goto, Procs, RequestLabels, Saving
<1>4. ControlOK'
  BY <1>1, <1>2 DEF FillToken, ControlOK, TypeOK, Goto, Procs, Holds, Saving, Deleting
<1> QED BY <1>3, <1>4

\* A process that has saved or deleted, or has given up, keeps no local state.
LEMMA SavedControl ==
  ASSUME Typed, NEW p \in Procs, NEW a \in Answers, Saved(p, a), UNCHANGED call,
         \A q \in Procs : q # p => obj'[q] = obj[q]
  PROVE  ControlOK'
<1> USE DEF Typed, faults
<1>1. PICK l \in {"done", "next", "idle"} : pc' = [pc EXCEPT ![p] = l]
  BY SavedMoves
<1> QED BY <1>1 DEF ControlOK, TypeOK, Procs, Holds, Saving, Deleting

LEMMA DeletedControl ==
  ASSUME Typed, NEW p \in Procs, NEW a \in Answers, Deleted(p, a), UNCHANGED <<obj, call>>
  PROVE  ControlOK'
<1> USE DEF Typed, faults
<1>1. PICK l \in {"done", "purge"} : pc' = [pc EXCEPT ![p] = l]
  BY DeletedMoves
<1> QED BY <1>1 DEF ControlOK, TypeOK, Procs, Holds, Saving, Deleting

LEMMA FindExistingTyped ==
  ASSUME Typed, NEW p \in Procs, FindExisting(p)
  PROVE  Typed'
<1> USE DEF Typed, faults
<1>1. /\ pc[p] = "find"
      /\ obj[p] \in Objects /\ obj[p].token_provider_id \in StoredTokens
      /\ UNCHANGED <<cluster, identity_cluster, call, answer, sync, faults>>
  BY DEF FindExisting, ControlOK, store
<1>2. PICK id \in ClusterIDs, l \in {"update", "insert"} :
        /\ obj' = [obj EXCEPT ![p].cluster_id = id, ![p].url = AddTrailingSlashToURL(@)]
        /\ pc' = [pc EXCEPT ![p] = l]
        /\ issued' \subseteq ClusterIDs
  BY <1>1 DEF FindExisting, FindByURL, NewUUID, Goto, TypeOK, ClusterRows, Objects
<1> DEFINE o == [obj[p] EXCEPT !.cluster_id = id, !.url = AddTrailingSlashToURL(@)]
<1>3. o \in ClusterRows
  BY <1>1 DEF Objects, ClusterRows, AddTrailingSlashToURL, URLs
<1>4. obj' = [obj EXCEPT ![p] = o]
  BY <1>1, <1>2 DEF TypeOK, Objects
<1>5. o \in Objects
  BY <1>3 DEF ClusterRows, Objects
<1> HIDE DEF o
<1>6. TypeOK'
  BY <1>1, <1>2, <1>4, <1>5 DEF TypeOK, Procs, RequestLabels, WorkerLabels, Saving
<1>7. ControlOK'
  BY <1>1, <1>2, <1>3, <1>4 DEF ControlOK, TypeOK, Procs, Holds, Saving, Deleting
<1> QED BY <1>6, <1>7

LEMMA NormalizeFailsTyped ==
  ASSUME Typed, NEW p \in Procs, NormalizeFails(p)
  PROVE  Typed'
<1> USE DEF Typed, faults
<1>1. Saved(p, "bad parameter") /\ UNCHANGED <<cluster, identity_cluster, issued, obj, call, faults>>
  BY DEF NormalizeFails, store
<1>2. TypeOK'
  BY <1>1, SavedTyped DEF TypeOK, Answers
<1>3. ControlOK'
  BY <1>1, SavedControl DEF Answers
<1> QED BY <1>2, <1>3

LEMMA UpdateRowTyped ==
  ASSUME Typed, NEW p \in Procs, UpdateRow(p)
  PROVE  Typed'
<1> USE DEF Typed, faults
<1>1. /\ pc[p] = "update" /\ obj[p] \in ClusterRows
      /\ UNCHANGED <<identity_cluster, issued, obj, call, faults>>
  BY DEF UpdateRow, ControlOK, Holds
<1>2. CASE cluster' = Update(cluster, obj[p]) /\ Saved(p, "ok")
  <2>1. TypeOK'
    BY <1>1, <1>2, SavedTyped DEF TypeOK, Update, Answers
  <2>2. ControlOK'
    BY <1>1, <1>2, SavedControl DEF Answers
  <2> QED BY <2>1, <2>2
<1>3. CASE Goto(p, "first") /\ UNCHANGED <<cluster, answer, sync>>
  <2>1. TypeOK'
    BY <1>1, <1>3 DEF TypeOK, Goto, Procs, RequestLabels, WorkerLabels, Saving
  <2>2. ControlOK'
    BY <1>1, <1>3 DEF ControlOK, TypeOK, Goto, Procs, Holds, Saving, Deleting
  <2> QED BY <2>1, <2>2
<1> QED BY <1>2, <1>3 DEF UpdateRow

LEMMA FirstOrCreateTyped ==
  ASSUME Typed, NEW p \in Procs, FirstOrCreate(p)
  PROVE  Typed'
<1> USE DEF Typed, faults
<1>1. /\ pc[p] = "first" /\ obj[p] \in ClusterRows
      /\ UNCHANGED <<cluster, identity_cluster, issued, call, faults>>
  BY DEF FirstOrCreate, ControlOK, Holds, store
<1>2. CASE \E c \in cluster : obj' = [obj EXCEPT ![p] = c] /\ Saved(p, "ok")
  <2>1. PICK c \in cluster : obj' = [obj EXCEPT ![p] = c] /\ Saved(p, "ok")
    BY <1>2
  <2>2. c \in Objects
    BY DEF TypeOK, ClusterRows, Objects
  <2>3. TypeOK'
    BY <1>1, <2>1, <2>2, SavedTyped DEF TypeOK, Answers
  <2>4. ControlOK'
    BY <1>1, <2>1, SavedControl DEF Answers, TypeOK
  <2> QED BY <2>3, <2>4
<1>3. CASE Goto(p, "insert") /\ UNCHANGED <<obj, answer, sync>>
  <2>1. TypeOK'
    BY <1>1, <1>3 DEF TypeOK, Goto, Procs, RequestLabels, WorkerLabels, Saving
  <2>2. ControlOK'
    BY <1>1, <1>3 DEF ControlOK, TypeOK, Goto, Procs, Holds, Saving, Deleting
  <2> QED BY <2>1, <2>2
<1> QED BY <1>2, <1>3 DEF FirstOrCreate, Load

LEMMA InsertRowTyped ==
  ASSUME Typed, NEW p \in Procs, InsertRow(p)
  PROVE  Typed'
<1> USE DEF Typed, faults
<1>1. /\ obj[p] \in ClusterRows
      /\ UNCHANGED <<identity_cluster, issued, obj, call, faults>>
      /\ cluster' \subseteq cluster \cup {obj[p]}
      /\ Saved(p, "ok") \/ Saved(p, "internal error")
  BY DEF InsertRow, ControlOK, Holds
<1>2. PICK a \in Answers : Saved(p, a)
  BY <1>1 DEF Answers
<1>3. TypeOK'
  BY <1>1, <1>2, SavedTyped DEF TypeOK
<1>4. ControlOK'
  BY <1>1, <1>2, SavedControl
<1> QED BY <1>3, <1>4

LEMMA LoadToDeleteTyped ==
  ASSUME Typed, NEW p \in Procs, LoadToDelete(p)
  PROVE  Typed'
<1> USE DEF Typed, faults
<1>1. /\ pc[p] = "load"
      /\ UNCHANGED <<cluster, identity_cluster, issued, obj, call, faults>>
  BY DEF LoadToDelete, store
<1>2. CASE Goto(p, "delete") /\ UNCHANGED <<answer, sync>>
  <2>1. TypeOK'
    BY <1>1, <1>2 DEF TypeOK, Goto, Procs, RequestLabels, WorkerLabels, Deleting
  <2>2. ControlOK'
    BY <1>1, <1>2 DEF ControlOK, TypeOK, Goto, Procs, Holds, Saving, Deleting
  <2> QED BY <2>1, <2>2
<1>3. CASE Deleted(p, "not found")
  <2>1. TypeOK'
    BY <1>1, <1>3, DeletedTyped DEF TypeOK, Answers
  <2>2. ControlOK'
    BY <1>1, <1>3, DeletedControl DEF Answers
  <2> QED BY <2>1, <2>2
<1> QED BY <1>2, <1>3 DEF LoadToDelete

LEMMA DeleteRowTyped ==
  ASSUME Typed, NEW p \in Procs, DeleteRow(p)
  PROVE  Typed'
<1> USE DEF Typed, faults
<1>1. /\ UNCHANGED <<issued, obj, call, faults>>
      /\ cluster' \subseteq cluster /\ identity_cluster' \subseteq identity_cluster
      /\ Deleted(p, "ok") \/ Deleted(p, "not found")
  BY DEF DeleteRow, store, DeleteCluster, CascadeLinks
<1>2. PICK a \in Answers : Deleted(p, a)
  BY <1>1 DEF Answers
<1>3. TypeOK'
  BY <1>1, <1>2, DeletedTyped DEF TypeOK
<1>4. ControlOK'
  BY <1>1, <1>2, DeletedControl
<1> QED BY <1>3, <1>4

LEMMA FindToLinkTyped ==
  ASSUME Typed, NEW r \in Requests, FindToLink(r)
  PROVE  Typed'
<1> USE DEF Typed, faults
<1>1. /\ pc[r] = "link.find" /\ call[r] \in LinkCalls
      /\ UNCHANGED <<cluster, identity_cluster, issued, call, faults>>
  BY DEF FindToLink, ControlOK, store
<1>2. CASE \E c \in cluster, l \in {"link.load", "link.insert"} : Proceed(r, l, c)
  <2>1. PICK c \in cluster, l \in {"link.load", "link.insert"} : Proceed(r, l, c)
    BY <1>2
  <2>2. c \in Objects /\ c \in ClusterRows
    BY DEF TypeOK, ClusterRows, Objects
  <2>3. TypeOK'
    BY <1>1, <2>1, <2>2 DEF TypeOK, Proceed, Goto, Procs, RequestLabels
  <2>4. ControlOK'
    BY <1>1, <2>1, <2>2 DEF ControlOK, TypeOK, Proceed, Goto, Procs, Holds, Saving, Deleting
  <2> QED BY <2>3, <2>4
<1>3. CASE Refuse(r, "not found")
  <2>1. TypeOK'
    BY <1>1, <1>3 DEF TypeOK, Refuse, Reply, Goto, Procs, RequestLabels, Answers
  <2>2. ControlOK'
    BY <1>1, <1>3 DEF ControlOK, TypeOK, Refuse, Reply, Goto, Procs, Holds, Saving, Deleting
  <2> QED BY <2>1, <2>2
<1>4. QED
  BY <1>2, <1>3 DEF FindToLink, FindByURL

\* A request that is answered from the statements on links.
LEMMA ReplyTyped ==
  ASSUME Typed, NEW r \in Requests, NEW a \in Answers, Reply(r, a),
         UNCHANGED <<cluster, issued, obj, call>>,
         identity_cluster' \subseteq LinkRows, failures' \in 0..MaxFailures,
         swallowed' \subseteq Replicas
  PROVE  Typed'
<1>1. TypeOK'
  BY DEF Typed, TypeOK, Reply, Goto, Procs, RequestLabels
<1>2. ControlOK'
  BY DEF Typed, ControlOK, TypeOK, Reply, Goto, Procs, Holds, Saving, Deleting
<1> QED BY <1>1, <1>2 DEF Typed

LEMMA LoadLinkTyped ==
  ASSUME Typed, NEW r \in Requests, LoadLink(r)
  PROVE  Typed'
<1>1. /\ pc[r] = "link.load"
      /\ UNCHANGED <<cluster, identity_cluster, issued, obj, call, faults>>
  BY DEF LoadLink, store
<1>2. CASE Reply(r, "ok")
  BY <1>1, <1>2, ReplyTyped DEF Answers, Typed, TypeOK, faults
<1>3. CASE Goto(r, "link.insert") /\ UNCHANGED <<answer, sync>>
  <2>1. TypeOK'
    BY <1>1, <1>3 DEF Typed, TypeOK, faults, Goto, Procs, RequestLabels
  <2>2. ControlOK'
    BY <1>1, <1>3 DEF Typed, ControlOK, TypeOK, Goto, Procs, Holds, Saving, Deleting
  <2> QED BY <2>1, <2>2 DEF Typed
<1> QED BY <1>2, <1>3 DEF LoadLink

LEMMA InsertLinkTyped ==
  ASSUME Typed, NEW r \in Requests, InsertLink(r)
  PROVE  Typed'
<1> DEFINE row == [identity_id |-> call[r].identity_id, cluster_id |-> obj[r].cluster_id]
<1>1. obj[r] \in ClusterRows /\ call[r] \in LinkCalls
  BY DEF InsertLink, Typed, ControlOK, Holds, Procs
<1>2. row \in LinkRows
  BY <1>1 DEF LinkRows, ClusterRows, LinkCalls
<1>3. /\ identity_cluster' \subseteq identity_cluster \cup {row}
      /\ Reply(r, "ok") \/ Reply(r, "internal error")
      /\ UNCHANGED <<cluster, issued, obj, call, faults>>
  BY DEF InsertLink, NewLink
<1>4. /\ identity_cluster' \subseteq LinkRows /\ failures' \in 0..MaxFailures
      /\ swallowed' \subseteq Replicas
  BY <1>2, <1>3 DEF Typed, TypeOK, faults
<1> QED BY <1>3, <1>4, ReplyTyped DEF Answers

LEMMA DeleteLinkTyped ==
  ASSUME Typed, NEW r \in Requests, DeleteLink(r)
  PROVE  Typed'
<1>1. /\ identity_cluster' \subseteq identity_cluster
      /\ Reply(r, "ok") \/ Reply(r, "not found")
      /\ UNCHANGED <<cluster, issued, obj, call, faults>>
  BY DEF DeleteLink
<1>2. /\ identity_cluster' \subseteq LinkRows /\ failures' \in 0..MaxFailures
      /\ swallowed' \subseteq Replicas
  BY <1>1 DEF Typed, TypeOK, faults
<1> QED BY <1>1, <1>2, ReplyTyped DEF Answers

LEMMA StartSyncTyped ==
  ASSUME Typed, NEW w \in Replicas, StartSync(w)
  PROVE  Typed'
<1> USE DEF Typed, faults
<1>1. PICK config \in Configs :
        sync' = [sync EXCEPT ![w] = [config |-> config, pending |-> config,
                                     toDelete |-> cluster, runs |-> @.runs + 1,
                                     result |-> "none"]]
  BY DEF StartSync
<1>2. /\ pc[w] = "idle" /\ Goto(w, "next") /\ sync[w].runs < MaxSyncs
      /\ UNCHANGED <<cluster, identity_cluster, issued, obj, call, answer, failures>>
      /\ swallowed' \subseteq swallowed
  BY DEF StartSync, store
<1>3. [config |-> config, pending |-> config, toDelete |-> cluster,
       runs |-> sync[w].runs + 1, result |-> "none"] \in Syncs
  BY <1>2 DEF TypeOK, Syncs, ServiceAssumption
<1>4. TypeOK'
  BY <1>1, <1>2, <1>3 DEF TypeOK, Goto, Procs, WorkerLabels
<1>5. ControlOK'
  BY <1>1, <1>2 DEF ControlOK, TypeOK, Goto, Procs, Holds, Saving, Deleting
<1> QED BY <1>4, <1>5

LEMMA ListFailsTyped ==
  ASSUME Typed, NEW w \in Replicas, ListFails(w)
  PROVE  Typed'
<1> USE DEF Typed, faults
<1>1. /\ sync' = [sync EXCEPT ![w].runs = @ + 1, ![w].result = "error"]
      /\ sync[w].runs < MaxSyncs /\ failures < MaxFailures /\ failures' = failures + 1
      /\ UNCHANGED <<cluster, identity_cluster, issued, pc, obj, call, answer, swallowed>>
  BY DEF ListFails, store
<1> DEFINE next == [sync[w] EXCEPT !.runs = @ + 1, !.result = "error"]
<1>2. failures' \in 0..MaxFailures /\ sync' \in [Replicas -> Syncs]
  <2>1. sync[w] \in Syncs /\ failures \in 0..MaxFailures
    BY DEF TypeOK
  <2>2. next \in Syncs
    <3>1. sync[w].runs + 1 \in 0..MaxSyncs
      BY <1>1, <2>1 DEF Syncs, ServiceAssumption
    <3> QED BY <2>1, <3>1 DEF Syncs
  <2>3. sync' = [sync EXCEPT ![w] = next]
    BY <1>1, <2>1 DEF TypeOK, Syncs
  <2>4. failures' \in 0..MaxFailures
    BY <1>1, <2>1 DEF ServiceAssumption
  <2> QED BY <2>2, <2>3, <2>4 DEF TypeOK
<1>3. TypeOK'
  BY <1>1, <1>2 DEF TypeOK
<1>4. ControlOK'
  BY <1>1 DEF ControlOK, Holds
<1> QED BY <1>3, <1>4

LEMMA NextEntryTyped ==
  ASSUME Typed, NEW w \in Replicas, NextEntry(w)
  PROVE  Typed'
<1> USE DEF Typed, faults
<1>1. /\ pc[w] = "next"
      /\ UNCHANGED <<cluster, identity_cluster, issued, call, answer, faults>>
  BY DEF NextEntry, store
<1>2. CASE \E e \in sync[w].pending :
             /\ sync' = [sync EXCEPT ![w].pending = @ \ {e}, ![w].toDelete = Keep(@, e)]
             /\ obj' = [obj EXCEPT ![w] = [cluster_id |-> NilID, url |-> e.url,
                                           token_provider_id |-> e.token_provider_id]]
             /\ Goto(w, "find")
  <2>1. PICK e \in sync[w].pending :
             /\ sync' = [sync EXCEPT ![w].pending = @ \ {e}, ![w].toDelete = Keep(@, e)]
             /\ obj' = [obj EXCEPT ![w] = [cluster_id |-> NilID, url |-> e.url,
                                           token_provider_id |-> e.token_provider_id]]
             /\ Goto(w, "find")
    BY <1>2
  <2> DEFINE o == [cluster_id |-> NilID, url |-> e.url,
                   token_provider_id |-> e.token_provider_id]
  <2>2. o \in Objects /\ o.token_provider_id \in StoredTokens
    BY DEF TypeOK, Syncs, ConfigEntries, Objects, StoredTokens
  <2>3. Keep(sync[w].toDelete, e) \subseteq sync[w].toDelete
    BY DEF Keep
  <2> DEFINE rest == [sync[w] EXCEPT !.pending = @ \ {e}, !.toDelete = Keep(@, e)]
  <2>4. sync' \in [Replicas -> Syncs]
    <3>1. sync[w] \in Syncs
      BY DEF TypeOK
    <3>2. rest \in Syncs
      BY <3>1, <2>3 DEF Syncs
    <3>3. sync' = [sync EXCEPT ![w] = rest]
      BY <2>1, <3>1 DEF TypeOK, Syncs
    <3> QED BY <3>2, <3>3 DEF TypeOK
  <2>5. TypeOK'
    BY <1>1, <2>1, <2>2, <2>4 DEF TypeOK, Goto, Procs, WorkerLabels, Saving
  <2>6. ControlOK'
    BY <1>1, <2>1, <2>2 DEF ControlOK, TypeOK, Goto, Procs, Holds, Saving, Deleting
  <2> QED BY <2>5, <2>6
<1>3. CASE Goto(w, "purge") /\ UNCHANGED <<sync, obj>>
  <2>1. TypeOK'
    BY <1>1, <1>3 DEF TypeOK, Goto, Procs, WorkerLabels
  <2>2. ControlOK'
    BY <1>1, <1>3 DEF ControlOK, TypeOK, Goto, Procs, Holds, Saving, Deleting
  <2> QED BY <2>1, <2>2
<1> QED BY <1>2, <1>3 DEF NextEntry

LEMMA NextDeleteTyped ==
  ASSUME Typed, NEW w \in Replicas, NextDelete(w)
  PROVE  Typed'
<1> USE DEF Typed, faults
<1>1. /\ pc[w] = "purge"
      /\ UNCHANGED <<cluster, identity_cluster, issued, call, answer, faults>>
  BY DEF NextDelete, store
<1>2. CASE \E c \in sync[w].toDelete :
             /\ sync' = [sync EXCEPT ![w].toDelete = @ \ {c}]
             /\ obj' = [obj EXCEPT ![w] = c]
             /\ Goto(w, "load")
  <2>1. PICK c \in sync[w].toDelete :
             /\ sync' = [sync EXCEPT ![w].toDelete = @ \ {c}]
             /\ obj' = [obj EXCEPT ![w] = c]
             /\ Goto(w, "load")
    BY <1>2
  <2>2. c \in ClusterRows /\ c \in Objects
    BY DEF TypeOK, Syncs, ClusterRows, Objects
  <2>3. sync' \in [Replicas -> Syncs]
    BY <2>1 DEF TypeOK, Syncs
  <2>4. TypeOK'
    BY <1>1, <2>1, <2>2, <2>3 DEF TypeOK, Goto, Procs, WorkerLabels, Deleting
  <2>5. ControlOK'
    BY <1>1, <2>1, <2>2 DEF ControlOK, TypeOK, Goto, Procs, Holds, Saving, Deleting
  <2> QED BY <2>4, <2>5
<1>3. CASE sync' = [sync EXCEPT ![w].result = "ok"] /\ Goto(w, "idle") /\ UNCHANGED obj
  <2>1. TypeOK'
    BY <1>1, <1>3 DEF TypeOK, Goto, Procs, WorkerLabels, Syncs
  <2>2. ControlOK'
    BY <1>1, <1>3 DEF ControlOK, TypeOK, Goto, Procs, Holds, Saving, Deleting
  <2> QED BY <2>1, <2>2
<1> QED BY <1>2, <1>3 DEF NextDelete

\* A failure leaves the tables and what a process remembers, and takes it on.
LEMMA FaultMoves ==
  ASSUME Typed, NEW p \in Procs, Fail(p) \/ LoseCommit(p)
  PROVE  /\ failures' \in 0..MaxFailures /\ swallowed' \subseteq Replicas
         /\ UNCHANGED <<cluster, identity_cluster, issued, obj, call>>
         /\ \E a \in Answers : \/ Saved(p, a)
                               \/ Deleted(p, a)
                               \/ p \in Requests /\ Reply(p, a)
<1>1. UNCHANGED <<cluster, identity_cluster, issued, obj, call>>
  BY DEF Fail, LoseCommit, store
<1>2. failures' = failures + 1 /\ failures < MaxFailures
  BY DEF Fail, LoseCommit
<1>3. failures' \in 0..MaxFailures
  BY <1>2 DEF Typed, TypeOK, ServiceAssumption
<1>4. swallowed' \subseteq Replicas
  BY DEF Fail, LoseCommit, Typed, TypeOK
<1>5. ASSUME pc[p] \in {"link.find", "link.load", "link.insert", "unlink"}
      PROVE  p \in Requests
  BY <1>5 DEF Typed, TypeOK, Procs, WorkerLabels, Saving, Deleting
<1>6. \E a \in Answers : Saved(p, a) \/ Deleted(p, a) \/ (p \in Requests /\ Reply(p, a))
  <2>1. "ok" \in Answers /\ "internal error" \in Answers
    BY DEF Answers
  <2>2. CASE Fail(p)
    BY <1>5, <2>1, <2>2 DEF Fail
  <2>3. CASE LoseCommit(p)
    BY <1>5, <2>1, <2>3 DEF LoseCommit
  <2> QED BY <2>2, <2>3
<1> QED BY <1>1, <1>3, <1>4, <1>6

LEMMA FaultTyped ==
  ASSUME Typed, NEW p \in Procs, Fail(p) \/ LoseCommit(p)
  PROVE  Typed'
<1> USE DEF Typed
<1>1. /\ failures' \in 0..MaxFailures /\ swallowed' \subseteq Replicas
      /\ UNCHANGED <<cluster, identity_cluster, issued, obj, call>>
  BY FaultMoves
<1>2. PICK a \in Answers : Saved(p, a) \/ Deleted(p, a) \/ (p \in Requests /\ Reply(p, a))
  BY FaultMoves
<1>3. CASE Saved(p, a)
  <2>1. TypeOK'
    BY <1>1, <1>3, SavedTyped DEF TypeOK
  <2> QED BY <1>1, <1>3, <2>1, SavedControl
<1>4. CASE Deleted(p, a)
  <2>1. TypeOK'
    BY <1>1, <1>4, DeletedTyped DEF TypeOK
  <2> QED BY <1>1, <1>4, <2>1, DeletedControl
<1>5. CASE p \in Requests /\ Reply(p, a)
  BY <1>1, <1>5, ReplyTyped DEF TypeOK
<1> QED BY <1>2, <1>3, <1>4, <1>5

LEMMA NextTyped == Typed /\ [Next]_vars => Typed'
<1> SUFFICES ASSUME Typed, [Next]_vars PROVE Typed'
  OBVIOUS
<1>1. CASE UNCHANGED vars
  BY <1>1 DEF vars, Typed, TypeOK, ControlOK, Holds
<1>2. ASSUME NEW p \in Procs, Run(p) PROVE Typed'
  BY <1>2, FindExistingTyped, NormalizeFailsTyped, UpdateRowTyped, FirstOrCreateTyped,
     InsertRowTyped, LoadToDeleteTyped, DeleteRowTyped DEF Run
<1>3. ASSUME NEW r \in Requests, Arrive(r) \/ RunRequest(r) PROVE Typed'
  BY <1>2, <1>3, ArriveTyped, FillTokenTyped, FindToLinkTyped, LoadLinkTyped,
     InsertLinkTyped, DeleteLinkTyped DEF RunRequest, Procs
<1>4. ASSUME NEW w \in Replicas, StartSync(w) \/ ListFails(w) \/ RunSync(w) PROVE Typed'
  BY <1>2, <1>4, StartSyncTyped, ListFailsTyped, NextEntryTyped, NextDeleteTyped
  DEF RunSync, Procs
<1> QED BY <1>1, <1>3, <1>4, FaultTyped DEF Next

\* Every variable stays in its set: in particular no row ever has a nil cluster
\* ID or a blank token provider ID, although requests may leave both out.
THEOREM TypeCorrect == Spec => []TypeOK
<1>1. Typed => TypeOK
  BY DEF Typed
<1> QED BY InitTyped, NextTyped, <1>1, PTL DEF Spec

-----------------------------------------------------------------------------
(* The tables stay well formed.  An UPDATE is not checked against the index  *)
(* on URLs: that it needs no check rests on what IDs denote.  An ID that was *)
(* given out denotes one URL for ever, in the rows that have it and in what  *)
(* processes remember of it, be the cluster stored, deleted or stored again. *)

HasID(p) == Holds(p) \/ (pc[p] = "find" /\ obj[p].cluster_id # NilID)

Denotes(id, u) ==
  \/ \E c \in cluster : c.cluster_id = id /\ c.url = u
  \/ \E p \in Procs : /\ HasID(p)
                      /\ obj[p].cluster_id = id
                      /\ AddTrailingSlashToURL(obj[p].url) = u
  \/ \E w \in Replicas : \E c \in sync[w].toDelete : c.cluster_id = id /\ c.url = u

IDsOK ==
  \A id \in ClusterIDs, u, v \in URLs :
    /\ Denotes(id, u) => id \in issued
    /\ Denotes(id, u) /\ Denotes(id, v) => u = v

SlashesOK ==
  /\ \A p \in Procs : Holds(p) => obj[p].url.slash
  /\ \A w \in Replicas : \A c \in sync[w].toDelete : c.url.slash

TablesOK == /\ PrimaryKey(cluster)
            /\ UniqueURL(cluster)
            /\ NormalizedURLs(cluster)
            /\ ForeignKey(cluster, identity_cluster)

Inv == Typed /\ TablesOK /\ SlashesOK /\ IDsOK

LEMMA SlashIdempotent ==
  ASSUME NEW u \in URLs
  PROVE  /\ AddTrailingSlashToURL(u) \in URLs
         /\ AddTrailingSlashToURL(u).slash
         /\ AddTrailingSlashToURL(u).server = u.server
         /\ u.slash => AddTrailingSlashToURL(u) = u
  BY DEF URLs, AddTrailingSlashToURL

LEMMA InitInv == Init => Inv
<1> SUFFICES ASSUME Init PROVE Inv
  OBVIOUS
<1>1. Typed
  BY InitTyped
<1>2. PICK db \in Databases : cluster = db.cluster /\ identity_cluster = db.identity_cluster
  BY DEF Init
<1>3. TablesOK
  BY <1>2 DEF ServiceAssumption, WellFormed, TablesOK
<1>4. \A p \in Procs : ~HasID(p)
  BY DEF Init, HasID, Holds, Deleting
<1>5. \A w \in Replicas : sync[w].toDelete = {}
  BY DEF Init
<1>6. SlashesOK
  BY <1>4, <1>5 DEF SlashesOK, HasID
<1>7. IDsOK
  BY <1>3, <1>4, <1>5 DEF IDsOK, Denotes, Init, TablesOK, PrimaryKey
<1> QED BY <1>1, <1>3, <1>6, <1>7 DEF Inv

\* The meaning of the IDs that were issued outlasts a step.
KeepsMeaning ==
  /\ issued \subseteq issued'
  /\ \A id \in ClusterIDs, u \in URLs : id \in issued /\ Denotes(id, u)' => Denotes(id, u)

\* A step after which nothing denotes what nothing denoted before.
LEMMA NothingNew ==
  ASSUME IDsOK, issued \subseteq issued',
         \A id \in ClusterIDs, u \in URLs : Denotes(id, u)' => Denotes(id, u)
  PROVE  IDsOK' /\ KeepsMeaning
<1> SUFFICES ASSUME NEW id \in ClusterIDs, NEW u \in URLs, NEW v \in URLs
             PROVE  /\ Denotes(id, u)' => id \in issued'
                    /\ Denotes(id, u)' /\ Denotes(id, v)' => u = v
  BY DEF IDsOK, KeepsMeaning
<1> QED BY DEF IDsOK

\* A step that gives out an ID for one URL.
LEMMA OneNew ==
  ASSUME IDsOK, NEW n \in ClusterIDs, NEW x \in URLs, NewUUID(n),
         \A id \in ClusterIDs, u \in URLs :
           Denotes(id, u)' => Denotes(id, u) \/ (id = n /\ u = x)
  PROVE  IDsOK' /\ KeepsMeaning
<1> SUFFICES ASSUME NEW id \in ClusterIDs, NEW u \in URLs, NEW v \in URLs
             PROVE  /\ Denotes(id, u)' => id \in issued'
                    /\ Denotes(id, u)' /\ Denotes(id, v)' => u = v
  BY DEF IDsOK, KeepsMeaning, NewUUID
<1> QED BY DEF IDsOK, NewUUID

\* A step in which no process comes to know an ID, and no row appears.
LEMMA Forgetting ==
  ASSUME Inv, Typed', issued \subseteq issued', cluster' \subseteq cluster,
         \A p \in Procs : HasID(p)' => HasID(p) /\ obj'[p] = obj[p],
         \A p \in Procs : Holds(p)' => Holds(p) /\ obj'[p] = obj[p],
         \A w \in Replicas : sync'[w].toDelete \subseteq sync[w].toDelete
  PROVE  IDsOK' /\ SlashesOK' /\ KeepsMeaning
<1>1. \A id \in ClusterIDs, u \in URLs : Denotes(id, u)' => Denotes(id, u)
  BY DEF Denotes
<1>2. SlashesOK'
  BY DEF Inv, SlashesOK
<1> QED BY <1>1, <1>2, NothingNew DEF Inv

Safe == TablesOK /\ SlashesOK /\ IDsOK

\* The steps that send no INSERT or UPDATE and take no ID from the tables.
LEMMA QuietSafe ==
  ASSUME Inv, Typed', UNCHANGED <<cluster, identity_cluster>>, issued \subseteq issued',
         \A p \in Procs : HasID(p)' => HasID(p) /\ obj'[p] = obj[p],
         \A p \in Procs : Holds(p)' => Holds(p) /\ obj'[p] = obj[p],
         \A w \in Replicas : sync'[w].toDelete \subseteq sync[w].toDelete
  PROVE  Safe' /\ KeepsMeaning
<1>1. TablesOK'
  BY DEF Inv, TablesOK, PrimaryKey, UniqueURL, NormalizedURLs, ForeignKey, Load
<1>2. IDsOK' /\ SlashesOK' /\ KeepsMeaning
  BY Forgetting
<1> QED BY <1>1, <1>2 DEF Safe

\* Wherever CreateOrSave or Delete returns to, the ID is forgotten.
LEMMA SavedForgets ==
  ASSUME Typed, NEW p \in Procs, NEW a \in Answers, Saved(p, a),
         \A q \in Procs : q # p => obj'[q] = obj[q]
  PROVE  /\ \A q \in Procs : HasID(q)' => HasID(q) /\ q # p
         /\ \A q \in Procs : Holds(q)' => Holds(q) /\ q # p
         /\ \A w \in Replicas : sync'[w].toDelete = sync[w].toDelete
<1>1. PICK l \in {"done", "next", "idle"} : pc' = [pc EXCEPT ![p] = l]
  BY SavedMoves DEF Typed
<1> QED BY <1>1, SavedMoves DEF Typed, TypeOK, HasID, Holds, Deleting

LEMMA DeletedForgets ==
  ASSUME Typed, NEW p \in Procs, NEW a \in Answers, Deleted(p, a), UNCHANGED obj
  PROVE  /\ \A q \in Procs : HasID(q)' => HasID(q) /\ q # p
         /\ \A q \in Procs : Holds(q)' => Holds(q) /\ q # p
         /\ \A w \in Replicas : sync'[w].toDelete = sync[w].toDelete
<1>1. PICK l \in {"done", "purge"} : pc' = [pc EXCEPT ![p] = l]
  BY DeletedMoves DEF Typed
<1> QED BY <1>1, DeletedMoves DEF Typed, TypeOK, HasID, Holds, Deleting

LEMMA ReplyForgets ==
  ASSUME Typed, NEW r \in Requests, NEW a, Reply(r, a), UNCHANGED obj
  PROVE  /\ \A q \in Procs : HasID(q)' => HasID(q) /\ q # r
         /\ \A q \in Procs : Holds(q)' => Holds(q) /\ q # r
         /\ \A w \in Replicas : sync'[w].toDelete = sync[w].toDelete
<1>1. r \in Procs
  BY DEF Procs
<1> QED BY <1>1 DEF Reply, Goto, Typed, TypeOK, HasID, Holds, Deleting

LEMMA ArriveSafe ==
  ASSUME Inv, Typed', NEW r \in Requests, Arrive(r)
  PROVE  Safe' /\ KeepsMeaning
<1>1. /\ UNCHANGED <<cluster, identity_cluster, issued, sync>>
      /\ \A q \in Procs : q # r => pc'[q] = pc[q] /\ obj'[q] = obj[q]
  BY DEF Arrive, store, Refuse, Reply, Admit, Proceed, Goto, Inv, Typed, TypeOK
<1>2. r \in Procs /\ r \notin Replicas
  BY DEF Procs, ServiceAssumption
<1>3. ~HasID(r)' /\ ~Holds(r)'
  <2>1. PICK c \in Calls : Refuse(r, "unauthorized") \/ Refuse(r, "bad parameter") \/ Admit(r, c)
    BY DEF Arrive, ServiceAssumption
  <2>2. CASE Refuse(r, "unauthorized") \/ Refuse(r, "bad parameter")
    BY <1>2, <2>2 DEF Refuse, Reply, Goto, HasID, Holds, Deleting, Inv, Typed, TypeOK
  <2>3. CASE Admit(r, c)
    BY <1>2, <2>3 DEF Admit, Proceed, Goto, Payload, HasID, Holds, Deleting, Inv, Typed, TypeOK
  <2> QED BY <2>1, <2>2, <2>3
<1>4. \A q \in Procs : HasID(q)' => HasID(q) /\ obj'[q] = obj[q]
  BY <1>1, <1>3 DEF HasID, Holds
<1>5. \A q \in Procs : Holds(q)' => Holds(q) /\ obj'[q] = obj[q]
  BY <1>1, <1>3 DEF Holds
<1> QED BY <1>1, <1>4, <1>5, QuietSafe

LEMMA FillTokenSafe ==
  ASSUME Inv, Typed', NEW r \in Requests, FillToken(r)
  PROVE  Safe' /\ KeepsMeaning
<1>1. /\ UNCHANGED <<cluster, identity_cluster, sync>>
      /\ r \in Procs /\ r \notin Replicas
      /\ pc' = [pc EXCEPT ![r] = "find"] /\ pc[r] = "lookup" /\ obj[r] \in Objects
      /\ \A q \in Procs : q # r => pc'[q] = pc[q] /\ obj'[q] = obj[q]
  BY DEF FillToken, store, Goto, Procs, ServiceAssumption, Inv, Typed, TypeOK, ControlOK
<1>2. \A q \in Procs : Holds(q)' => Holds(q) /\ obj'[q] = obj[q]
  BY <1>1 DEF Holds, Deleting, Inv, Typed, TypeOK
<1>3. \A q \in Procs : q # r /\ HasID(q)' => HasID(q) /\ obj'[q] = obj[q]
  BY <1>1, <1>2 DEF HasID
<1>4. TablesOK' /\ SlashesOK'
  BY <1>1, <1>2 DEF Inv, TablesOK, PrimaryKey, UniqueURL, NormalizedURLs, ForeignKey, Load,
                    SlashesOK
<1>5. CASE UNCHANGED issued /\ obj'[r].cluster_id = NilID
  <2>1. \A q \in Procs : HasID(q)' => HasID(q) /\ obj'[q] = obj[q]
    BY <1>1, <1>2, <1>3, <1>5 DEF HasID, Holds, Deleting
  <2> QED BY <1>1, <1>2, <1>5, <2>1, QuietSafe
<1>6. CASE \E id \in ClusterIDs : NewUUID(id) /\ obj'[r] = [obj[r] EXCEPT !.cluster_id = id, !.token_provider_id = id]
  <2>1. PICK id \in ClusterIDs : NewUUID(id) /\ obj'[r] = [obj[r] EXCEPT !.cluster_id = id, !.token_provider_id = id]
    BY <1>6
  <2>2. obj'[r].cluster_id = id /\ obj'[r].url = obj[r].url /\ obj[r].url \in URLs
    BY <1>1, <2>1 DEF Objects
  <2>3. \A d \in ClusterIDs, u \in URLs :
          Denotes(d, u)' => Denotes(d, u) \/ (d = id /\ u = AddTrailingSlashToURL(obj[r].url))
    BY <1>1, <1>3, <2>2 DEF Denotes
  <2>4. IDsOK' /\ KeepsMeaning
    BY <2>1, <2>2, <2>3, SlashIdempotent, OneNew DEF Inv
  <2> QED BY <1>4, <2>4 DEF Safe
<1> QED
  <2>1. CASE \E c \in FindByURL(cluster, obj[r].url) :
               obj' = [obj EXCEPT ![r].token_provider_id = c.token_provider_id] /\ UNCHANGED issued
    BY <1>1, <1>5, <2>1 DEF Inv, Typed, TypeOK, ControlOK, Objects
  <2>2. CASE \E id \in ClusterIDs : NewUUID(id) /\
               obj' = [obj EXCEPT ![r].cluster_id = id, ![r].token_provider_id = id]
    BY <1>1, <1>6, <2>2 DEF Inv, Typed, TypeOK
  <2> QED BY <2>1, <2>2 DEF FillToken

LEMMA FindExistingSafe ==
  ASSUME Inv, Typed', NEW p \in Procs, FindExisting(p)
  PROVE  Safe' /\ KeepsMeaning
<1> DEFINE url == AddTrailingSlashToURL(obj[p].url)
<1>1. /\ pc[p] = "find" /\ obj[p] \in Objects
      /\ UNCHANGED <<cluster, identity_cluster, sync>>
  BY DEF FindExisting, store, Inv, Typed, ControlOK
<1>2. PICK id \in ClusterIDs, l \in {"update", "insert"} :
        /\ obj' = [obj EXCEPT ![p].cluster_id = id, ![p].url = AddTrailingSlashToURL(@)]
        /\ pc' = [pc EXCEPT ![p] = l]
        /\ \/ UNCHANGED issued /\ \E c \in FindByURL(cluster, obj[p].url) : id = c.cluster_id
           \/ UNCHANGED issued /\ obj[p].cluster_id # NilID /\ id = obj[p].cluster_id
           \/ NewUUID(id)
  BY <1>1 DEF FindExisting, FindByURL, Goto, Inv, Typed, TypeOK, ClusterRows, Objects
<1>3. /\ url \in URLs /\ url.slash /\ AddTrailingSlashToURL(url) = url
      /\ obj[p].url \in URLs
  BY <1>1, SlashIdempotent DEF Objects
<1>4. /\ obj'[p].cluster_id = id /\ obj'[p].url = url
      /\ \A q \in Procs : q # p => pc'[q] = pc[q] /\ obj'[q] = obj[q]
  BY <1>1, <1>2 DEF Inv, Typed, TypeOK, Objects
<1> HIDE DEF url
<1>5. TablesOK'
  BY <1>1 DEF Inv, TablesOK, PrimaryKey, UniqueURL, NormalizedURLs, ForeignKey, Load
<1>6. SlashesOK'
  BY <1>1, <1>3, <1>4 DEF Inv, SlashesOK, Holds
<1>7. \A d \in ClusterIDs, u \in URLs :
        Denotes(d, u)' => Denotes(d, u) \/ (d = id /\ u = url)
  BY <1>1, <1>3, <1>4 DEF Denotes, HasID, Holds
<1>8. CASE \E c \in FindByURL(cluster, obj[p].url) : id = c.cluster_id
  <2>1. Denotes(id, url)
    BY <1>8 DEF FindByURL, Denotes, url
  <2> QED BY <1>2, <1>5, <1>6, <1>7, <2>1, NothingNew DEF Safe, Inv, NewUUID
<1>9. CASE obj[p].cluster_id # NilID /\ id = obj[p].cluster_id
  <2>1. Denotes(id, url)
    BY <1>1, <1>9 DEF Denotes, HasID, url
  <2> QED BY <1>2, <1>5, <1>6, <1>7, <2>1, NothingNew DEF Safe, Inv, NewUUID
<1>10. CASE NewUUID(id)
  BY <1>3, <1>5, <1>6, <1>7, <1>10, OneNew DEF Safe, Inv
<1> QED BY <1>2, <1>8, <1>9, <1>10

LEMMA NormalizeFailsSafe ==
  ASSUME Inv, Typed', NEW p \in Procs, NormalizeFails(p)
  PROVE  Safe' /\ KeepsMeaning
<1>1. /\ Saved(p, "bad parameter") /\ "bad parameter" \in Answers
      /\ UNCHANGED <<cluster, identity_cluster, issued, obj>>
  BY DEF NormalizeFails, store, Answers
<1> QED BY <1>1, SavedForgets, QuietSafe DEF Inv

LEMMA UpdateRowSafe ==
  ASSUME Inv, Typed', NEW p \in Procs, UpdateRow(p)
  PROVE  Safe' /\ KeepsMeaning
<1>1. /\ pc[p] = "update" /\ Holds(p) /\ obj[p] \in ClusterRows /\ obj[p].url.slash
      /\ UNCHANGED <<identity_cluster, issued, obj>>
  BY DEF UpdateRow, Inv, Typed, ControlOK, Holds, SlashesOK
<1>2. CASE Goto(p, "first") /\ UNCHANGED <<cluster, answer, sync>>
  <2>1. \A q \in Procs : /\ HasID(q)' => HasID(q)
                         /\ Holds(q)' => Holds(q)
    BY <1>1, <1>2 DEF Goto, HasID, Holds, Deleting, Inv, Typed, TypeOK
  <2> QED BY <1>1, <1>2, <2>1, QuietSafe
<1>3. CASE /\ Load(cluster, obj[p].cluster_id) # {}
           /\ cluster' = Update(cluster, obj[p])
           /\ Saved(p, "ok")
  <2>1. PICK old \in cluster : old.cluster_id = obj[p].cluster_id
    BY <1>3 DEF Load
  <2>2. old.url = obj[p].url
    <3>1. Denotes(obj[p].cluster_id, obj[p].url) /\ Denotes(obj[p].cluster_id, old.url)
      BY <1>1, <2>1, SlashIdempotent DEF Denotes, HasID, ClusterRows
    <3> QED BY <1>1, <2>1, <3>1 DEF Inv, IDsOK, Typed, TypeOK, ClusterRows
  <2>3. TablesOK'
    <3>1. cluster' = {c \in cluster : c.cluster_id # obj[p].cluster_id} \cup {obj[p]}
      BY <1>3 DEF Update
    <3>2. \A c \in cluster : c.url = obj[p].url => c = old
      BY <2>2 DEF Inv, TablesOK, UniqueURL
    <3>3. PrimaryKey(cluster') /\ UniqueURL(cluster') /\ NormalizedURLs(cluster')
      BY <1>1, <2>1, <3>1, <3>2 DEF Inv, TablesOK, PrimaryKey, UniqueURL, NormalizedURLs
    <3>4. ForeignKey(cluster', identity_cluster')
      BY <1>1, <3>1 DEF Inv, TablesOK, ForeignKey, Load
    <3> QED BY <3>3, <3>4 DEF TablesOK
  <2>4. \A id \in ClusterIDs, u \in URLs : Denotes(id, u)' => Denotes(id, u)
    BY <1>1, <1>3, <2>1, <2>2, SavedForgets DEF Denotes, Update, Answers, Inv
  <2>5. SlashesOK'
    BY <1>1, <1>3, SavedForgets DEF SlashesOK, Answers, Inv
  <2> QED BY <1>1, <2>3, <2>4, <2>5, NothingNew DEF Safe, Inv
<1> QED BY <1>2, <1>3 DEF UpdateRow

LEMMA FirstOrCreateSafe ==
  ASSUME Inv, Typed', NEW p \in Procs, FirstOrCreate(p)
  PROVE  Safe' /\ KeepsMeaning
<1>1. /\ pc[p] = "first"
      /\ UNCHANGED <<cluster, identity_cluster, issued>>
      /\ \A q \in Procs : q # p => obj'[q] = obj[q]
  BY DEF FirstOrCreate, store, Inv, Typed, TypeOK
<1>2. CASE Saved(p, "ok")
  BY <1>1, <1>2, SavedForgets, QuietSafe DEF Inv, Answers
<1>3. CASE Goto(p, "insert") /\ UNCHANGED <<obj, answer, sync>>
  <2>1. \A q \in Procs : /\ HasID(q)' => HasID(q)
                         /\ Holds(q)' => Holds(q)
    BY <1>1, <1>3 DEF Goto, HasID, Holds, Deleting, Inv, Typed, TypeOK
  <2> QED BY <1>1, <1>3, <2>1, QuietSafe
<1> QED BY <1>2, <1>3 DEF FirstOrCreate

LEMMA InsertRowSafe ==
  ASSUME Inv, Typed', NEW p \in Procs, InsertRow(p)
  PROVE  Safe' /\ KeepsMeaning
<1>1. /\ pc[p] = "insert" /\ Holds(p) /\ obj[p] \in ClusterRows /\ obj[p].url.slash
      /\ UNCHANGED <<identity_cluster, issued, obj>>
  BY DEF InsertRow, Inv, Typed, ControlOK, Holds, SlashesOK
<1>2. CASE Saved(p, "internal error") /\ UNCHANGED cluster
  BY <1>1, <1>2, SavedForgets, QuietSafe DEF Inv, Answers
<1>3. CASE /\ ~InsertViolates(cluster, obj[p])
           /\ cluster' = cluster \cup {obj[p]}
           /\ Saved(p, "ok")
  <2>1. TablesOK'
    BY <1>1, <1>3 DEF Inv, TablesOK, InsertViolates, PrimaryKey, UniqueURL, NormalizedURLs,
                      ForeignKey, Load
  <2>2. Denotes(obj[p].cluster_id, obj[p].url)
    BY <1>1, SlashIdempotent DEF Denotes, HasID, ClusterRows
  <2>3. \A id \in ClusterIDs, u \in URLs : Denotes(id, u)' => Denotes(id, u)
    BY <1>1, <1>3, <2>2, SavedForgets DEF Denotes, Answers, Inv
  <2>4. SlashesOK'
    BY <1>1, <1>3, SavedForgets DEF SlashesOK, Answers, Inv
  <2> QED BY <1>1, <2>1, <2>3, <2>4, NothingNew DEF Safe, Inv
<1> QED BY <1>2, <1>3 DEF InsertRow

LEMMA LoadToDeleteSafe ==
  ASSUME Inv, Typed', NEW p \in Procs, LoadToDelete(p)
  PROVE  Safe' /\ KeepsMeaning
<1>1. pc[p] = "load" /\ UNCHANGED <<cluster, identity_cluster, issued, obj>>
  BY DEF LoadToDelete, store
<1>2. CASE Goto(p, "delete") /\ UNCHANGED <<answer, sync>>
  <2>1. \A q \in Procs : /\ HasID(q)' => HasID(q)
                         /\ Holds(q)' => Holds(q)
    BY <1>1, <1>2 DEF Goto, HasID, Holds, Deleting, Inv, Typed, TypeOK
  <2> QED BY <1>1, <1>2, <2>1, QuietSafe
<1>3. CASE Deleted(p, "not found")
  BY <1>1, <1>3, DeletedForgets, QuietSafe DEF Inv, Answers
<1> QED BY <1>2, <1>3 DEF LoadToDelete

LEMMA DeleteRowSafe ==
  ASSUME Inv, Typed', NEW p \in Procs, DeleteRow(p)
  PROVE  Safe' /\ KeepsMeaning
<1>1. UNCHANGED <<issued, obj>>
  BY DEF DeleteRow
<1>2. CASE Deleted(p, "not found") /\ UNCHANGED store
  BY <1>1, <1>2, DeletedForgets, QuietSafe DEF Inv, Answers, store
<1>3. CASE /\ cluster' = DeleteCluster(cluster, Target(p))
           /\ identity_cluster' = CascadeLinks(identity_cluster, Target(p))
           /\ Deleted(p, "ok")
  <2>1. /\ \A c \in cluster' : c \in cluster
        /\ \A l \in identity_cluster' : l \in identity_cluster /\ l.cluster_id # Target(p)
        /\ \A c \in cluster : c.cluster_id # Target(p) => c \in cluster'
    BY <1>3 DEF DeleteCluster, CascadeLinks
  <2>2. PrimaryKey(cluster') /\ UniqueURL(cluster') /\ NormalizedURLs(cluster')
    BY <2>1 DEF Inv, TablesOK, PrimaryKey, UniqueURL, NormalizedURLs
  <2>3. ForeignKey(cluster', identity_cluster')
    BY <2>1 DEF Inv, TablesOK, ForeignKey, Load
  <2>4. IDsOK' /\ SlashesOK' /\ KeepsMeaning
    BY <1>1, <1>3, <2>1, DeletedForgets, Forgetting DEF Inv, Answers
  <2> QED BY <2>2, <2>3, <2>4 DEF Safe, TablesOK
<1> QED BY <1>2, <1>3 DEF DeleteRow

LEMMA FindToLinkSafe ==
  ASSUME Inv, Typed', NEW r \in Requests, FindToLink(r)
  PROVE  Safe' /\ KeepsMeaning
<1>1. /\ pc[r] = "link.find" /\ r \in Procs /\ r \notin Replicas
      /\ UNCHANGED <<cluster, identity_cluster, issued>>
  BY DEF FindToLink, store, Procs
<1>2. CASE Refuse(r, "not found")
  BY <1>1, <1>2, ReplyForgets, QuietSafe DEF Inv, Refuse
<1>3. CASE \E c \in cluster, l \in {"link.load", "link.insert"} : Proceed(r, l, c)
  <2>1. PICK c \in cluster, l \in {"link.load", "link.insert"} : Proceed(r, l, c)
    BY <1>3
  <2>2. /\ UNCHANGED sync
        /\ obj'[r] = c /\ pc'[r] = l
        /\ \A q \in Procs : q # r => pc'[q] = pc[q] /\ obj'[q] = obj[q]
    BY <1>1, <2>1 DEF Proceed, Goto, Inv, Typed, TypeOK
  <2>3. c \in ClusterRows /\ c.url.slash /\ AddTrailingSlashToURL(c.url) = c.url
    BY SlashIdempotent DEF Inv, Typed, TypeOK, TablesOK, NormalizedURLs, ClusterRows
  <2>4. SlashesOK'
    BY <1>1, <2>2, <2>3 DEF Inv, SlashesOK, Holds
  <2>5. \A id \in ClusterIDs, u \in URLs : Denotes(id, u)' => Denotes(id, u)
    BY <1>1, <2>2, <2>3 DEF Denotes, HasID, Holds
  <2>6. TablesOK'
    BY <1>1 DEF Inv, TablesOK, PrimaryKey, UniqueURL, NormalizedURLs, ForeignKey, Load
  <2> QED BY <1>1, <2>4, <2>5, <2>6, NothingNew DEF Safe, Inv
<1> QED BY <1>2, <1>3 DEF FindToLink, FindByURL

LEMMA LoadLinkSafe ==
  ASSUME Inv, Typed', NEW r \in Requests, LoadLink(r)
  PROVE  Safe' /\ KeepsMeaning
<1>1. /\ pc[r] = "link.load" /\ r \in Procs
      /\ UNCHANGED <<cluster, identity_cluster, issued, obj>>
  BY DEF LoadLink, store, Procs
<1>2. CASE Reply(r, "ok")
  BY <1>1, <1>2, ReplyForgets, QuietSafe DEF Inv
<1>3. CASE Goto(r, "link.insert") /\ UNCHANGED <<answer, sync>>
  <2>1. \A q \in Procs : /\ HasID(q)' => HasID(q)
                         /\ Holds(q)' => Holds(q)
    BY <1>1, <1>3 DEF Goto, HasID, Holds, Deleting, Inv, Typed, TypeOK
  <2> QED BY <1>1, <1>3, <2>1, QuietSafe
<1> QED BY <1>2, <1>3 DEF LoadLink

LEMMA LinkStepSafe ==
  ASSUME Inv, Typed', NEW r \in Requests, NEW a, Reply(r, a),
         UNCHANGED <<cluster, issued, obj>>, ForeignKey(cluster, identity_cluster')
  PROVE  Safe' /\ KeepsMeaning
<1>1. TablesOK'
  BY DEF Inv, TablesOK, PrimaryKey, UniqueURL, NormalizedURLs, ForeignKey, Load
<1>2. IDsOK' /\ SlashesOK' /\ KeepsMeaning
  BY ReplyForgets, Forgetting DEF Inv
<1> QED BY <1>1, <1>2 DEF Safe

LEMMA InsertLinkSafe ==
  ASSUME Inv, Typed', NEW r \in Requests, InsertLink(r)
  PROVE  Safe' /\ KeepsMeaning
<1>1. ForeignKey(cluster, identity_cluster')
  BY DEF InsertLink, InsertLinkViolates, Inv, TablesOK, ForeignKey
<1>2. \E a \in {"ok", "internal error"} : Reply(r, a)
  BY DEF InsertLink
<1> QED BY <1>1, <1>2, LinkStepSafe DEF InsertLink

LEMMA DeleteLinkSafe ==
  ASSUME Inv, Typed', NEW r \in Requests, DeleteLink(r)
  PROVE  Safe' /\ KeepsMeaning
<1>1. ForeignKey(cluster, identity_cluster')
  BY DEF DeleteLink, Inv, TablesOK, ForeignKey
<1>2. \E a \in {"ok", "not found"} : Reply(r, a)
  BY DEF DeleteLink
<1> QED BY <1>1, <1>2, LinkStepSafe DEF DeleteLink

LEMMA StartSyncSafe ==
  ASSUME Inv, Typed', NEW w \in Replicas, StartSync(w)
  PROVE  Safe' /\ KeepsMeaning
<1>1. /\ pc[w] = "idle" /\ pc' = [pc EXCEPT ![w] = "next"] /\ w \in Procs
      /\ UNCHANGED <<cluster, identity_cluster, issued, obj>>
  BY DEF StartSync, store, Goto, Procs
<1>2. /\ sync'[w].toDelete = cluster
      /\ \A v \in Replicas : v # w => sync'[v] = sync[v]
  BY DEF StartSync, Inv, Typed, TypeOK
<1>3. \A q \in Procs : /\ HasID(q)' => HasID(q)
                       /\ Holds(q)' => Holds(q)
  BY <1>1 DEF HasID, Holds, Deleting, Inv, Typed, TypeOK
<1>4. TablesOK'
  BY <1>1 DEF Inv, TablesOK, PrimaryKey, UniqueURL, NormalizedURLs, ForeignKey, Load
<1>5. SlashesOK'
  BY <1>1, <1>2, <1>3 DEF Inv, SlashesOK, TablesOK, NormalizedURLs
<1>6. \A id \in ClusterIDs, u \in URLs : Denotes(id, u)' => Denotes(id, u)
  BY <1>1, <1>2, <1>3 DEF Denotes
<1> QED BY <1>1, <1>4, <1>5, <1>6, NothingNew DEF Safe, Inv

LEMMA ListFailsSafe ==
  ASSUME Inv, Typed', NEW w \in Replicas, ListFails(w)
  PROVE  Safe' /\ KeepsMeaning
<1>1. UNCHANGED <<cluster, identity_cluster, issued, obj, pc>>
  BY DEF ListFails, store
<1>2. \A v \in Replicas : sync'[v].toDelete = sync[v].toDelete
  BY DEF ListFails, Inv, Typed, TypeOK, Syncs
<1> QED BY <1>1, <1>2, QuietSafe DEF HasID, Holds

LEMMA KeepRemoves ==
  ASSUME NEW rows, NEW e
  PROVE  Keep(rows, e) \subseteq rows
  BY DEF Keep

LEMMA NextEntrySafe ==
  ASSUME Inv, Typed', NEW w \in Replicas, NextEntry(w)
  PROVE  Safe' /\ KeepsMeaning
<1>1. /\ pc[w] = "next" /\ w \in Procs
      /\ UNCHANGED <<cluster, identity_cluster, issued>>
  BY DEF NextEntry, store, Procs
<1>2. CASE Goto(w, "purge") /\ UNCHANGED <<sync, obj>>
  <2>1. \A q \in Procs : /\ HasID(q)' => HasID(q)
                         /\ Holds(q)' => Holds(q)
    BY <1>1, <1>2 DEF Goto, HasID, Holds, Deleting, Inv, Typed, TypeOK
  <2> QED BY <1>1, <1>2, <2>1, QuietSafe
<1>3. CASE \E e \in sync[w].pending :
             /\ sync' = [sync EXCEPT ![w].pending = @ \ {e},
                                     ![w].toDelete = Keep(@, e)]
             /\ obj' = [obj EXCEPT ![w] = [cluster_id |-> NilID, url |-> e.url,
                                           token_provider_id |-> e.token_provider_id]]
             /\ Goto(w, "find")
  <2>1. PICK e \in sync[w].pending :
             /\ sync' = [sync EXCEPT ![w].pending = @ \ {e},
                                     ![w].toDelete = Keep(@, e)]
             /\ obj' = [obj EXCEPT ![w] = [cluster_id |-> NilID, url |-> e.url,
                                           token_provider_id |-> e.token_provider_id]]
             /\ Goto(w, "find")
    BY <1>3
  <2>2. \A v \in Replicas : sync'[v].toDelete \subseteq sync[v].toDelete
    BY <2>1, KeepRemoves DEF Inv, Typed, TypeOK, Syncs
  <2>3. /\ pc'[w] = "find" /\ obj'[w].cluster_id = NilID
        /\ \A q \in Procs : q # w => pc'[q] = pc[q] /\ obj'[q] = obj[q]
    BY <1>1, <2>1 DEF Goto, Inv, Typed, TypeOK
  <2>4. \A q \in Procs : /\ HasID(q)' => HasID(q) /\ obj'[q] = obj[q]
                         /\ Holds(q)' => Holds(q) /\ obj'[q] = obj[q]
    BY <2>3 DEF HasID, Holds, Deleting
  <2> QED BY <1>1, <2>2, <2>4, QuietSafe
<1> QED BY <1>2, <1>3 DEF NextEntry

LEMMA NextDeleteSafe ==
  ASSUME Inv, Typed', NEW w \in Replicas, NextDelete(w)
  PROVE  Safe' /\ KeepsMeaning
<1>1. /\ pc[w] = "purge" /\ w \in Procs
      /\ UNCHANGED <<cluster, identity_cluster, issued>>
  BY DEF NextDelete, store, Procs
<1>2. CASE /\ sync' = [sync EXCEPT ![w].result = "ok"]
           /\ Goto(w, "idle")
           /\ UNCHANGED obj
  <2>1. \A q \in Procs : /\ HasID(q)' => HasID(q)
                         /\ Holds(q)' => Holds(q)
    BY <1>1, <1>2 DEF Goto, HasID, Holds, Deleting, Inv, Typed, TypeOK
  <2>2. \A v \in Replicas : sync'[v].toDelete = sync[v].toDelete
    BY <1>2 DEF Inv, Typed, TypeOK, Syncs
  <2> QED BY <1>1, <1>2, <2>1, <2>2, QuietSafe
<1>3. CASE \E c \in sync[w].toDelete :
             /\ sync' = [sync EXCEPT ![w].toDelete = @ \ {c}]
             /\ obj' = [obj EXCEPT ![w] = c]
             /\ Goto(w, "load")
  <2>1. PICK c \in sync[w].toDelete :
             /\ sync' = [sync EXCEPT ![w].toDelete = @ \ {c}]
             /\ obj' = [obj EXCEPT ![w] = c]
             /\ Goto(w, "load")
    BY <1>3
  <2>2. \A v \in Replicas : sync'[v].toDelete \subseteq sync[v].toDelete
    BY <2>1 DEF Inv, Typed, TypeOK, Syncs
  <2>3. /\ pc'[w] = "load" /\ obj'[w] = c
        /\ \A q \in Procs : q # w => pc'[q] = pc[q] /\ obj'[q] = obj[q]
    BY <1>1, <2>1 DEF Goto, Inv, Typed, TypeOK
  <2>4. c.url.slash /\ AddTrailingSlashToURL(c.url) = c.url
    BY SlashIdempotent DEF Inv, SlashesOK, Typed, TypeOK, Syncs, ClusterRows
  <2>5. SlashesOK'
    BY <2>2, <2>3, <2>4 DEF Inv, SlashesOK, Holds
  <2>6. \A id \in ClusterIDs, u \in URLs : Denotes(id, u)' => Denotes(id, u)
    BY <1>1, <2>2, <2>3, <2>4 DEF Denotes, HasID, Holds
  <2>7. TablesOK'
    BY <1>1 DEF Inv, TablesOK, PrimaryKey, UniqueURL, NormalizedURLs, ForeignKey, Load
  <2> QED BY <1>1, <2>5, <2>6, <2>7, NothingNew DEF Safe, Inv
<1> QED BY <1>2, <1>3 DEF NextDelete

LEMMA FaultSafe ==
  ASSUME Inv, Typed', NEW p \in Procs, Fail(p) \/ LoseCommit(p)
  PROVE  Safe' /\ KeepsMeaning
<1>1. UNCHANGED <<cluster, identity_cluster, issued, obj>>
  BY FaultMoves DEF Inv
<1>2. PICK a \in Answers : Saved(p, a) \/ Deleted(p, a) \/ (p \in Requests /\ Reply(p, a))
  BY FaultMoves DEF Inv
<1>3. CASE Saved(p, a)
  BY <1>1, <1>3, SavedForgets, QuietSafe DEF Inv
<1>4. CASE Deleted(p, a)
  BY <1>1, <1>4, DeletedForgets, QuietSafe DEF Inv
<1>5. CASE p \in Requests /\ Reply(p, a)
  BY <1>1, <1>5, ReplyForgets, QuietSafe DEF Inv
<1> QED BY <1>2, <1>3, <1>4, <1>5

LEMMA NextSafe == Inv /\ [Next]_vars => Inv' /\ KeepsMeaning
<1> SUFFICES ASSUME Inv, [Next]_vars PROVE Inv' /\ KeepsMeaning
  OBVIOUS
<1>1. Typed'
  BY NextTyped DEF Inv
<1>2. CASE UNCHANGED vars
  <2>1. Safe' /\ KeepsMeaning
    BY <1>1, <1>2, QuietSafe DEF vars, HasID, Holds
  <2> QED BY <1>1, <2>1 DEF Inv, Safe
<1>3. ASSUME NEW p \in Procs, Run(p) PROVE Safe' /\ KeepsMeaning
  BY <1>1, <1>3, FindExistingSafe, NormalizeFailsSafe, UpdateRowSafe, FirstOrCreateSafe,
     InsertRowSafe, LoadToDeleteSafe, DeleteRowSafe DEF Run
<1>4. ASSUME NEW r \in Requests, Arrive(r) \/ RunRequest(r) PROVE Safe' /\ KeepsMeaning
  BY <1>1, <1>3, <1>4, ArriveSafe, FillTokenSafe, FindToLinkSafe, LoadLinkSafe,
     InsertLinkSafe, DeleteLinkSafe DEF RunRequest, Procs
<1>5. ASSUME NEW w \in Replicas, StartSync(w) \/ ListFails(w) \/ RunSync(w)
      PROVE  Safe' /\ KeepsMeaning
  BY <1>1, <1>3, <1>5, StartSyncSafe, ListFailsSafe, NextEntrySafe, NextDeleteSafe
  DEF RunSync, Procs
<1>6. ASSUME NEW p \in Procs, Fail(p) \/ LoseCommit(p) PROVE Safe' /\ KeepsMeaning
  BY <1>1, <1>6, FaultSafe
<1>7. CASE Next
  BY <1>1, <1>4, <1>5, <1>6, <1>7 DEF Next, Inv, Safe
<1> QED BY <1>2, <1>7

LEMMA NextInv == Inv /\ [Next]_vars => Inv'
  BY NextSafe

LEMMA Invariance == Spec => []Inv
  BY InitInv, NextInv, PTL DEF Spec

\* Links raced by the delete of their cluster never stay behind.
THEOREM LinksHaveClusters == Spec => []NoDanglingLink
<1>1. Inv => NoDanglingLink
  BY DEF Inv, TablesOK, NoDanglingLink
<1> QED BY <1>1, Invariance, PTL

\* However the API and the workers of the replicas interleave, two rows never
\* describe one API server.
THEOREM ServersAreUnique == Spec => []OneClusterPerServer
<1>1. Inv => OneClusterPerServer
  <2> SUFFICES ASSUME Inv, NEW c \in cluster, NEW d \in cluster,
                      c.url.server = d.url.server
               PROVE  c = d
    BY DEF OneClusterPerServer
  <2>1. c.url \in URLs /\ d.url \in URLs /\ c.url.slash /\ d.url.slash
    BY DEF Inv, Typed, TypeOK, ClusterRows, TablesOK, NormalizedURLs
  <2>2. c.url = d.url
    BY <2>1 DEF URLs
  <2> QED BY <2>2 DEF Inv, TablesOK, UniqueURL
<1> QED BY <1>1, Invariance, PTL

\* No process ever acts on another cluster than the one it looked up, although
\* what it remembers is only an ID and the row may be gone or back.
THEOREM StaleIDsNeverMislead == Spec => []StaleIDsAreHarmless
<1>1. Inv => StaleIDsAreHarmless
  <2> SUFFICES ASSUME Inv PROVE StaleIDsAreHarmless
    OBVIOUS
  <2>1. ASSUME NEW p \in Procs, Holds(p), NEW c \in Load(cluster, obj[p].cluster_id)
        PROVE  c.url = AddTrailingSlashToURL(obj[p].url)
    <3>1. obj[p] \in ClusterRows /\ c \in ClusterRows
      BY <2>1 DEF Inv, Typed, TypeOK, ControlOK, Load
    <3>2. /\ AddTrailingSlashToURL(obj[p].url) \in URLs
          /\ c.url \in URLs /\ c.cluster_id \in ClusterIDs
      BY <3>1, SlashIdempotent DEF ClusterRows
    <3>3. /\ Denotes(c.cluster_id, c.url)
          /\ Denotes(c.cluster_id, AddTrailingSlashToURL(obj[p].url))
      BY <2>1 DEF Denotes, HasID, Load
    <3> QED BY <3>2, <3>3 DEF Inv, IDsOK
  <2>2. ASSUME NEW w \in Replicas, NEW c \in sync[w].toDelete,
               NEW d \in Load(cluster, c.cluster_id)
        PROVE  d.url = c.url
    <3>1. c \in ClusterRows /\ d \in ClusterRows
      BY DEF Inv, Typed, TypeOK, Syncs, Load
    <3>2. Denotes(c.cluster_id, c.url) /\ Denotes(c.cluster_id, d.url)
      BY DEF Denotes, Load
    <3> QED BY <3>1, <3>2 DEF Inv, IDsOK, ClusterRows
  <2> QED BY <2>1, <2>2 DEF StaleIDsAreHarmless
<1> QED BY <1>1, Invariance, PTL
=============================================================================
