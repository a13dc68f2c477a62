------------------------- MODULE ClusterAttributes -------------------------
(***************************************************************************)
(* The columns of a cluster, from what a configuration file or the payload  *)
(* of a request says to what is stored: decoding with defaults, the check   *)
(* of the file, the validation of a payload, and Normalize, which derives   *)
(* the URLs that were left out.  ClusterService has the statements and the  *)
(* interleavings of the same writes; here a save is one step.               *)
(*                                                                          *)
(* A cluster is a function from the keys of the configuration file to       *)
(* values.  "name" stands for every required text without a rule of its     *)
(* own; the token provider ID is ClusterService's.                          *)
(***************************************************************************)
EXTENDS Naturals, Sequences

CONSTANTS Labels,     \* first labels of host names
          Domains,    \* what follows the first label of a host name
          OneLabel,   \* nothing follows: a host name without a dot
          NoHost,     \* the URL names no host
          Malformed,  \* the URL cannot be parsed
          Texts,      \* texts that are not blank
          Types,      \* cluster types a file may name, known or not
          Empty,      \* the empty text
          Spaces,     \* a text of spaces
          Mistyped,   \* a JSON value of another type than the field
          Files,      \* contents of the configuration file: lists of objects
          Payloads    \* payloads of create requests

Encrypted == "service-account-token-encrypted"
Optional  == {"console-url", "metrics-url", "logging-url"}
URLFields == {"api-url", "app-dns"} \cup Optional
Required  == {"name", "api-url", "app-dns", "service-account-token"}
Fields    == Required \cup Optional \cup {Encrypted, "type"}

\* The host is label.domain, after a scheme or after none ("//label.domain"); the
\* path is that of the derived URLs, or none.
URLs == [scheme : BOOLEAN, label : Labels, domain : Domains \cup {OneLabel, NoHost, Malformed},
         path : {"none", "console"}, slash : BOOLEAN]

Values(f) ==
  CASE f \in Optional -> URLs \cup {Empty, Spaces}
    [] f \in URLFields \ Optional -> URLs \cup {Empty}
    [] f = Encrypted -> BOOLEAN
    [] f = "type" -> Types \cup {Empty}
    [] f \in {"name", "service-account-token"} -> Texts \cup {Empty, Spaces}

KnownTypes == {"OSD", "OCP", "OSO"}

\* An object of the file, or a payload: some of the fields, with values.
IsObject(o) == /\ DOMAIN o \subseteq Fields
               /\ \A f \in DOMAIN o : o[f] \in Values(f) \cup {Mistyped}

ASSUME AttributesAssumption ==
  /\ {"console", "metrics"} \subseteq Labels
  /\ KnownTypes \subseteq Types
  /\ {OneLabel, NoHost, Malformed} \cap Domains = {}
  /\ OneLabel \notin {NoHost, Malformed}
  /\ Empty \notin URLs \cup Texts \cup Types \cup {Spaces, Mistyped}
  /\ Spaces \notin URLs \cup Texts \cup {Mistyped}
  /\ \A f \in Fields : Mistyped \notin Values(f)
  /\ \A file \in Files : /\ DOMAIN file \subseteq Nat
                          /\ \A i \in DOMAIN file : IsObject(file[i])
  /\ \A p \in Payloads : /\ IsObject(p)
                         /\ Required \cup {"type"} \subseteq DOMAIN p
                         /\ Encrypted \notin DOMAIN p
                         /\ \A f \in DOMAIN p : p[f] # Mistyped

\* A repository.Cluster.
IsCluster(c) == DOMAIN c = Fields /\ \A f \in Fields : c[f] \in Values(f)

VARIABLES
  loaded,    \* ConfigurationData.clusters
  phase,     \* where the sync is
  pending,   \* the clusters it has still to save
  toDelete,  \* the URLs it has still to delete
  result,    \* what the last load or sync returned
  stored,    \* table cluster
  answer,    \* the answer to the last create
  text,      \* history: the file that was loaded
  written    \* history: by whom, and from what, each stored cluster was written

vars == <<loaded, phase, pending, toDelete, result, stored, answer, text, written>>

syncing == <<phase, pending, toDelete>>

-----------------------------------------------------------------------------
(* decodeClusters and the check.                                            *)

\* The zero values of Go, and the `default` tags of repository.Cluster.
Zero(f) == IF f = Encrypted THEN FALSE ELSE Empty

DefaultValues == [f \in {Encrypted, "type"} |-> IF f = Encrypted THEN TRUE ELSE "OSO"]

Decodes(file) == \A i \in DOMAIN file : \A f \in DOMAIN file[i] : file[i][f] # Mistyped

\* Mutant: a field counts as assigned when any cluster of the file has it.
AssignedFields_Anywhere(file) ==
  UNION {[idx : DOMAIN file, field : DOMAIN file[i]] : i \in DOMAIN file}

\* The decoder's metadata: which field was assigned in which element.
AssignedFields(file) ==
  UNION {[idx : {i}, field : DOMAIN file[i]] : i \in DOMAIN file}

decodeClusters(file) ==
  [i \in DOMAIN file |-> [f \in Fields |->
     IF f \in DOMAIN DefaultValues /\ [idx |-> i, field |-> f] \notin AssignedFields(file)
       THEN DefaultValues[f]
     ELSE IF f \in DOMAIN file[i] THEN file[i][f]
     ELSE Zero(f)]]

\* The map by api-url, as it is written: a later entry replaces an earlier one.
ByURL(list) ==
  {list[i] : i \in {j \in DOMAIN list :
                      \A k \in DOMAIN list : k > j => list[k]["api-url"] # list[j]["api-url"]}}

\* Mutant: only the first required field is looked at.
checkClusterConfig_Name(clusters) ==
  clusters # {} /\ \A c \in clusters : c["name"] # Empty

\* Required texts must not be empty; spaces will do, and so will any type.
checkClusterConfig(clusters) ==
  clusters # {} /\ \A c \in clusters : \A f \in Required : c[f] # Empty

-----------------------------------------------------------------------------
(* Normalize.                                                               *)

IsBlank(v) == v \in {Empty, Spaces}   \* strings.TrimSpace(v) == ""

AddTrailingSlashToURL(v) == IF v = Empty THEN Empty ELSE [v EXCEPT !.slash = TRUE]

\* The first label of the host is replaced, which needs a second one and a URL that
\* can be parsed, with or without a scheme.
ConvertAPIURL(u, prefix, path) == [u EXCEPT !.label = prefix, !.path = path, !.slash = FALSE]

Derived(f, u) == IF f = "metrics-url" THEN ConvertAPIURL(u, "metrics", "none")
                                      ELSE ConvertAPIURL(u, "console", "console")

\* Normalize returns no error: the API URL is only looked at to derive another.
Normalizable(c) ==
  (\E f \in Optional : IsBlank(c[f])) => c["api-url"].domain \in Domains

\* Mutant: derived URLs are left without a slash.
Normalize_Bare(c) ==
  [f \in Fields |->
     IF f \in Optional /\ IsBlank(c[f]) THEN Derived(f, c["api-url"])
     ELSE IF f \in URLFields THEN AddTrailingSlashToURL(c[f])
     ELSE IF f = "type" /\ c[f] = Empty THEN "OSO"
     ELSE c[f]]

Normalize(c) ==
  [f \in Fields |->
     IF f \in Optional /\ IsBlank(c[f]) THEN AddTrailingSlashToURL(Derived(f, c["api-url"]))
     ELSE IF f \in URLFields THEN AddTrailingSlashToURL(c[f])
     ELSE IF f = "type" /\ c[f] = Empty THEN "OSO"
     ELSE c[f]]

\* CreateOrSave: a row of that URL is overwritten, all columns.
Save(c) ==
  LET row == Normalize(c)
  IN stored' = {d \in stored : d["api-url"] # row["api-url"]} \cup {row}

\* For the properties: c was written from object o.
Remember(c, by, o) ==
  LET url == AddTrailingSlashToURL(c["api-url"])
  IN written' = {w \in written : w.url # url} \cup {[url |-> url, by |-> by, given |-> o]}

Forget(url) == written' = {w \in written : w.url # url}

-----------------------------------------------------------------------------
Init ==
  /\ loaded = {} /\ pending = {} /\ toDelete = {} /\ stored = {}
  /\ phase = "idle"
  /\ result = "none"
  /\ answer = "none"
  /\ text = <<>>
  /\ written = {}

\* Mutant: a file may be loaded while a sync is on.
Load_DuringSync(file) ==
  /\ Decodes(file)
  /\ loaded' = ByURL(decodeClusters(file))
  /\ text' = file
  /\ phase' = "list"
  /\ UNCHANGED <<pending, toDelete, result, stored, answer, written>>

\* initClusterConfig: the clusters are replaced before they are checked.
Load(file) ==
  /\ phase = "idle"
  /\ \/ /\ ~Decodes(file)
        /\ result' = "rejected"
        /\ UNCHANGED <<loaded, text, phase>>
     \/ /\ Decodes(file)
        /\ loaded' = ByURL(decodeClusters(file))
        /\ text' = file
        /\ \/ checkClusterConfig(loaded') /\ phase' = "list" /\ result' = "none"
           \/ ~checkClusterConfig(loaded') /\ result' = "rejected" /\ UNCHANGED phase
  /\ UNCHANGED <<pending, toDelete, stored, answer, written>>

\* CreateOrSaveClusterFromConfig lists what is stored.
StartSync ==
  /\ phase = "list"
  /\ phase' = "save"
  /\ pending' = loaded
  /\ toDelete' = {c["api-url"] : c \in stored} \
                 {AddTrailingSlashToURL(c["api-url"]) : c \in loaded}
  /\ UNCHANGED <<loaded, result, stored, answer, text, written>>

\* The last object of the loaded file with this api-url.
LastObject(url) ==
  LET same == {i \in DOMAIN text : "api-url" \in DOMAIN text[i] /\ text[i]["api-url"] = url}
  IN text[CHOOSE i \in same : \A j \in same : j <= i]

\* The next entry, in any order; one that cannot be normalized ends the sync.
SaveEntry ==
  /\ phase = "save"
  /\ \E c \in pending :
       \/ /\ Normalizable(c)
          /\ Save(c)
          /\ Remember(c, "file", LastObject(c["api-url"]))
          /\ pending' = pending \ {c}
          /\ UNCHANGED <<phase, toDelete, result>>
       \/ /\ ~Normalizable(c)
          /\ phase' = "idle"
          /\ pending' = {}
          /\ toDelete' = {}
          /\ result' = "failed"
          /\ UNCHANGED <<stored, written>>
  /\ UNCHANGED <<loaded, answer, text>>

AllSaved ==
  /\ phase = "save"
  /\ pending = {}
  /\ phase' = "purge"
  /\ UNCHANGED <<loaded, pending, toDelete, result, stored, answer, text, written>>

Purge ==
  /\ phase = "purge"
  /\ \/ \E u \in toDelete :
          /\ toDelete' = toDelete \ {u}
          /\ stored' = {c \in stored : c["api-url"] # u}
          /\ Forget(u)
          /\ UNCHANGED <<phase, result>>
     \/ /\ toDelete = {}
        /\ phase' = "idle"
        /\ result' = "ok"
        /\ UNCHANGED <<toDelete, stored, written>>
  /\ UNCHANGED <<loaded, pending, answer, text>>

-----------------------------------------------------------------------------
(* The API.                                                                 *)

\* The controller copies what the payload has; it has nothing on encryption.
FromPayload(p) == [f \in Fields |-> IF f \in DOMAIN p THEN p[f] ELSE Zero(f)]

validateURL(v) == v # Empty /\ v.scheme /\ v.domain \notin {NoHost, Malformed}

Valid(c) ==
  /\ ~IsBlank(c["name"])
  /\ validateURL(c["api-url"])
  /\ \A f \in Optional : ~IsBlank(c[f]) => validateURL(c[f])
  /\ c["type"] \in KnownTypes
  /\ ~IsBlank(c["service-account-token"])

Create(p) ==
  LET c == FromPayload(p)
  IN /\ \/ /\ ~Valid(c)
           /\ answer' = "bad parameter"
           /\ UNCHANGED <<stored, written>>
        \/ /\ Valid(c)
           /\ ~Normalizable(c)
           /\ answer' = "bad parameter"
           /\ UNCHANGED <<stored, written>>
        \/ /\ Valid(c)
           /\ Normalizable(c)
           /\ answer' = "created"
           /\ Save(c)
           /\ Remember(c, "request", p)
     /\ UNCHANGED <<loaded, syncing, result, text>>

Delete(c) ==
  /\ stored' = stored \ {c}
  /\ Forget(c["api-url"])
  /\ UNCHANGED <<loaded, syncing, result, answer, text>>

Next ==
  \/ \E file \in Files : Load(file)
  \/ StartSync \/ SaveEntry \/ AllSaved \/ Purge
  \/ \E p \in Payloads : Create(p)
  \/ \E c \in stored : Delete(c)

Spec == Init /\ [][Next]_vars
=============================================================================
