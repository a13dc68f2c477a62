---------------------- MODULE ClusterAttributes_proofs ----------------------
(***************************************************************************)
(* Proofs about ClusterAttributes for any file and any payload: what is     *)
(* stored is complete, saving it again changes nothing, and what is stored  *)
(* is what its last writer gave.                                            *)
(***************************************************************************)
EXTENDS ClusterAttributesProperties, TLAPS

-----------------------------------------------------------------------------
(* The inductive invariant.                                                 *)

\* What a check leaves to Normalize: the required texts are there.
Checked(c) == IsCluster(c) /\ \A f \in Required \ {"app-dns"} : c[f] # Empty

\* The loaded clusters are those of the last file that could be decoded.
Loaded ==
  /\ DOMAIN text \subseteq Nat
  /\ \A i \in DOMAIN text : IsObject(text[i])
  /\ Decodes(text)
  /\ loaded = ByURL(decodeClusters(text))

\* The clusters of a sync come from a file that passed the check.
Syncing ==
  /\ phase \in {"list", "save", "purge"} => \A c \in loaded : Checked(c)
  /\ pending \subseteq loaded
  /\ phase # "save" => pending = {}

\* A row as CreateOrSave leaves it.
Row(c) ==
  /\ IsCluster(c) /\ c = [f \in Fields |-> c[f]]
  /\ \A f \in Required \ {"app-dns"} : c[f] # Empty
  /\ \A f \in Optional : ~IsBlank(c[f])
  /\ \A f \in URLFields : c[f] # Empty => c[f].slash = TRUE
  /\ c["type"] # Empty

Rows == \A c \in stored : Row(c)

OnePerURL == \A c, d \in stored : c["api-url"] = d["api-url"] => c = d

Inv == Loaded /\ Syncing /\ Rows /\ OnePerURL /\ StoredAsGiven

-----------------------------------------------------------------------------
(* Values.                                                                  *)

LEMMA FieldValues ==
  /\ \A f \in Optional : Values(f) = URLs \cup {Empty, Spaces}
  /\ \A f \in URLFields \ Optional : Values(f) = URLs \cup {Empty}
  /\ Values(Encrypted) = BOOLEAN
  /\ Values("type") = Types \cup {Empty}
  /\ \A f \in {"name", "service-account-token"} : Values(f) = Texts \cup {Empty, Spaces}
PROOF
<1>1. \A f \in Optional : Values(f) = URLs \cup {Empty, Spaces}
  BY DEF Values, Optional, URLFields, Encrypted
<1>2. \A f \in URLFields \ Optional : Values(f) = URLs \cup {Empty}
  BY DEF Values, Optional, URLFields, Encrypted
<1>3. Values(Encrypted) = BOOLEAN
  BY DEF Values, Optional, URLFields, Encrypted
<1>4. Values("type") = Types \cup {Empty}
  BY DEF Values, Optional, URLFields, Encrypted
<1>5. \A f \in {"name", "service-account-token"} : Values(f) = Texts \cup {Empty, Spaces}
  BY DEF Values, Optional, URLFields, Encrypted
<1> QED BY <1>1, <1>2, <1>3, <1>4, <1>5

LEMMA EmptyIsNoURL == Empty \notin URLs /\ Spaces \notin URLs /\ Empty # Spaces
PROOF BY AttributesAssumption DEF AttributesAssumption

\* A URL with a slash is a URL, and a second slash changes nothing.
LEMMA Slashed ==
  ASSUME NEW u \in URLs
  PROVE  /\ AddTrailingSlashToURL(u) \in URLs
         /\ AddTrailingSlashToURL(u) = [u EXCEPT !.slash = TRUE]
         /\ AddTrailingSlashToURL(u).slash = TRUE
         /\ AddTrailingSlashToURL(u).label = u.label
         /\ AddTrailingSlashToURL(u).domain = u.domain
         /\ AddTrailingSlashToURL(u).scheme = u.scheme
         /\ AddTrailingSlashToURL(u).path = u.path
         /\ u.slash = TRUE => AddTrailingSlashToURL(u) = u
PROOF BY EmptyIsNoURL DEF AddTrailingSlashToURL, URLs

\* A derived URL is the promised one, and whole.
LEMMA DerivedIsPromised ==
  ASSUME NEW u \in URLs, u.domain \in Domains, NEW f \in Optional
  PROVE  /\ AddTrailingSlashToURL(Derived(f, u)) \in URLs
         /\ AddTrailingSlashToURL(Derived(f, u)) = PromisedURL(f, u)
         /\ PromisedURL(f, u).slash = TRUE
PROOF
<1>1. {"console", "metrics"} \subseteq Labels
  BY AttributesAssumption DEF AttributesAssumption
<1>2. Derived(f, u) \in URLs
  BY <1>1 DEF Derived, ConvertAPIURL, URLs
<1>3. AddTrailingSlashToURL(Derived(f, u)) = PromisedURL(f, u)
  <2>1. AddTrailingSlashToURL(Derived(f, u)) = [Derived(f, u) EXCEPT !.slash = TRUE]
    BY <1>2, Slashed
  <2>2. CASE f = "metrics-url"
    <3>1. Derived(f, u) = [u EXCEPT !.label = "metrics", !.path = "none", !.slash = FALSE]
      BY <2>2 DEF Derived, ConvertAPIURL
    <3>2. PromisedURL(f, u) = [scheme |-> u.scheme, label |-> "metrics", domain |-> u.domain,
                               path |-> "none", slash |-> TRUE]
      BY <2>2 DEF PromisedURL
    <3> QED BY <2>1, <3>1, <3>2 DEF URLs
  <2>3. CASE f # "metrics-url"
    <3>1. Derived(f, u) = [u EXCEPT !.label = "console", !.path = "console", !.slash = FALSE]
      BY <2>3 DEF Derived, ConvertAPIURL
    <3>2. PromisedURL(f, u) = [scheme |-> u.scheme, label |-> "console", domain |-> u.domain,
                               path |-> "console", slash |-> TRUE]
      BY <2>3 DEF PromisedURL
    <3> QED BY <2>1, <3>1, <3>2 DEF URLs
  <2> QED BY <2>2, <2>3
<1>4. PromisedURL(f, u).slash = TRUE
  BY DEF PromisedURL
<1> QED BY <1>2, <1>3, <1>4, Slashed

LEMMA SlashedURLs ==
  \A u \in URLs : AddTrailingSlashToURL(u) \in URLs /\ AddTrailingSlashToURL(u).slash = TRUE
PROOF BY Slashed

LEMMA RequiredURL ==
  ASSUME NEW c, Checked(c)
  PROVE  c["api-url"] \in URLs
PROOF BY FieldValues DEF Checked, IsCluster, Fields, Required, URLFields, Optional

-----------------------------------------------------------------------------
(* Decoding and the payload.                                                *)

LEMMA ZeroIsTyped ==
  ASSUME NEW f \in Fields
  PROVE  Zero(f) \in Values(f)
PROOF
<1>1. CASE f = Encrypted
  BY <1>1, FieldValues DEF Zero
<1>2. CASE f # Encrypted
  <2>1. Zero(f) = Empty
    BY <1>2 DEF Zero
  <2>2. f \in Optional \/ f \in URLFields \ Optional \/ f = "type"
        \/ f \in {"name", "service-account-token"}
    BY <1>2 DEF Fields, Required, URLFields, Optional
  <2> QED BY <2>1, <2>2, FieldValues
<1> QED BY <1>1, <1>2

\* A field that an object has is as the object says, and one that it does not
\* have is the default or the zero value.
LEMMA DecodedFields ==
  ASSUME NEW file, NEW i \in DOMAIN file, \A j \in DOMAIN file : IsObject(file[j]), NEW f \in Fields
  PROVE  /\ f \in DOMAIN file[i] => decodeClusters(file)[i][f] = file[i][f]
         /\ f \notin DOMAIN file[i] =>
              decodeClusters(file)[i][f] = IF f = Encrypted THEN TRUE
                                           ELSE IF f = "type" THEN "OSO" ELSE Empty
PROOF
<1>1. DOMAIN DefaultValues = {Encrypted, "type"}
  BY DEF DefaultValues
<1>2. [idx |-> i, field |-> f] \in AssignedFields(file) <=> f \in DOMAIN file[i]
  <2>1. ASSUME f \in DOMAIN file[i]
        PROVE  [idx |-> i, field |-> f] \in AssignedFields(file)
    BY <2>1 DEF AssignedFields
  <2>2. ASSUME [idx |-> i, field |-> f] \in AssignedFields(file)
        PROVE  f \in DOMAIN file[i]
    <3>1. PICK j \in DOMAIN file :
            [idx |-> i, field |-> f] \in [idx : {j}, field : DOMAIN file[j]]
      BY <2>2 DEF AssignedFields
    <3>2. i = j /\ f \in DOMAIN file[j]
      BY <3>1
    <3> QED BY <3>2
  <2> QED BY <2>1, <2>2
<1>3. decodeClusters(file)[i][f] =
        IF f \in DOMAIN DefaultValues /\ [idx |-> i, field |-> f] \notin AssignedFields(file)
          THEN DefaultValues[f]
        ELSE IF f \in DOMAIN file[i] THEN file[i][f]
        ELSE Zero(f)
  BY DEF decodeClusters
<1>4. DefaultValues[Encrypted] = TRUE /\ DefaultValues["type"] = "OSO"
  BY DEF DefaultValues, Encrypted
<1>5. f # Encrypted => Zero(f) = Empty
  BY DEF Zero
<1> QED BY <1>1, <1>2, <1>3, <1>4, <1>5

LEMMA DecodedIsTyped ==
  ASSUME NEW file, \A j \in DOMAIN file : IsObject(file[j]), Decodes(file),
         NEW i \in DOMAIN file
  PROVE  IsCluster(decodeClusters(file)[i])
PROOF
<1>1. DOMAIN decodeClusters(file)[i] = Fields
  BY DEF decodeClusters
<1>2. ASSUME NEW f \in Fields
      PROVE  decodeClusters(file)[i][f] \in Values(f)
  <2>1. CASE f \in DOMAIN file[i]
    <3>1. file[i][f] \in Values(f)
      BY <2>1 DEF IsObject, Decodes
    <3> QED BY <2>1, <3>1, DecodedFields
  <2>2. CASE f \notin DOMAIN file[i] /\ f = Encrypted
    <3>1. decodeClusters(file)[i][f] = TRUE
      BY <2>2, DecodedFields
    <3> QED BY <2>2, <3>1, FieldValues
  <2>3. CASE f \notin DOMAIN file[i] /\ f = "type"
    <3>1. "OSO" \in Types
      BY AttributesAssumption DEF AttributesAssumption, KnownTypes
    <3>2. decodeClusters(file)[i][f] = "OSO"
      BY <2>3, DecodedFields DEF Encrypted
    <3> QED BY <2>3, <3>1, <3>2, FieldValues
  <2>4. CASE f \notin DOMAIN file[i] /\ f # Encrypted /\ f # "type"
    <3>1. decodeClusters(file)[i][f] = Empty
      BY <2>4, DecodedFields
    <3>2. Zero(f) = Empty
      BY <2>4 DEF Zero
    <3> QED BY <3>1, <3>2, ZeroIsTyped
  <2> QED BY <2>1, <2>2, <2>3, <2>4
<1> QED BY <1>1, <1>2 DEF IsCluster

\* Each cluster of the map is the last object of the file for its URL.
LEMMA LastOneWins ==
  ASSUME NEW file, NEW c \in ByURL(decodeClusters(file))
  PROVE  \E i \in DOMAIN file :
           /\ c = decodeClusters(file)[i]
           /\ \A k \in DOMAIN file : k > i => decodeClusters(file)[k]["api-url"] # c["api-url"]
PROOF
<1>1. DOMAIN decodeClusters(file) = DOMAIN file
  BY DEF decodeClusters
<1> QED BY <1>1 DEF ByURL

LEMMA LoadedIsTyped ==
  ASSUME Loaded, NEW c \in loaded
  PROVE  IsCluster(c)
PROOF
<1>1. PICK i \in DOMAIN text : c = decodeClusters(text)[i]
  BY LastOneWins DEF Loaded
<1> QED BY <1>1, DecodedIsTyped DEF Loaded

\* A payload that passes the validation.
LEMMA PayloadIsChecked ==
  ASSUME NEW p \in Payloads, Valid(FromPayload(p))
  PROVE  Checked(FromPayload(p))
PROOF
<1>1. /\ IsObject(p)
      /\ Required \cup {"type"} \subseteq DOMAIN p
      /\ Encrypted \notin DOMAIN p
      /\ \A f \in DOMAIN p : p[f] # Mistyped
  BY AttributesAssumption DEF AttributesAssumption
<1>2. ASSUME NEW f \in Fields
      PROVE  FromPayload(p)[f] \in Values(f)
  <2>1. CASE f \in DOMAIN p
    BY <1>1, <2>1 DEF FromPayload, IsObject
  <2>2. CASE f \notin DOMAIN p
    BY <2>2, ZeroIsTyped DEF FromPayload
  <2> QED BY <2>1, <2>2
<1>3. IsCluster(FromPayload(p))
  BY <1>2 DEF IsCluster, FromPayload
<1>4. \A f \in Required \ {"app-dns"} : FromPayload(p)[f] # Empty
  BY DEF Valid, IsBlank, validateURL, Required
<1> QED BY <1>3, <1>4 DEF Checked

-----------------------------------------------------------------------------
(* Normalize.                                                               *)

\* What Normalize makes of each field.
LEMMA NormalizedFields ==
  ASSUME NEW c, Checked(c), Normalizable(c)
  PROVE  /\ DOMAIN Normalize(c) = Fields
         /\ \A f \in Fields \ URLFields :
              Normalize(c)[f] = IF f = "type" /\ c[f] = Empty THEN "OSO" ELSE c[f]
         /\ \A f \in URLFields \ Optional : Normalize(c)[f] = AddTrailingSlashToURL(c[f])
         /\ \A f \in Optional :
              Normalize(c)[f] = IF IsBlank(c[f])
                                  THEN AddTrailingSlashToURL(Derived(f, c["api-url"]))
                                  ELSE AddTrailingSlashToURL(c[f])
PROOF
<1>1. Optional \subseteq URLFields /\ URLFields \subseteq Fields
  BY DEF URLFields, Optional, Fields, Required
<1> QED BY <1>1 DEF Normalize

LEMMA NormalizeMakesRows ==
  ASSUME NEW c, Checked(c), Normalizable(c)
  PROVE  /\ Row(Normalize(c))
         /\ Normalize(c)["api-url"] = AddTrailingSlashToURL(c["api-url"])
         /\ Normalize(c)["api-url"] \in URLs
PROOF
<1> DEFINE r == Normalize(c)
<1>n. /\ r = [f \in Fields |-> r[f]]
      /\ \A f \in URLFields \ Optional : r[f] = AddTrailingSlashToURL(c[f])
      /\ \A f \in Optional :
           r[f] = IF IsBlank(c[f]) THEN AddTrailingSlashToURL(Derived(f, c["api-url"]))
                                   ELSE AddTrailingSlashToURL(c[f])
  BY NormalizedFields DEF Normalize
<1> HIDE DEF r
<1>u. /\ "api-url" \in URLFields \ Optional
      /\ Optional \subseteq URLFields
      /\ URLFields \subseteq Fields
      /\ {"type", "name", "service-account-token", Encrypted} = Fields \ URLFields
      /\ Required \ {"app-dns"} = {"name", "api-url", "service-account-token"}
  BY DEF URLFields, Optional, Fields, Required, Encrypted
<1>a. c["api-url"] \in URLs
  BY RequiredURL
<1>1. r["api-url"] = AddTrailingSlashToURL(c["api-url"]) /\ r["api-url"] \in URLs
  <2>1. r["api-url"] = AddTrailingSlashToURL(c["api-url"])
    BY <1>n, <1>u
  <2>2. AddTrailingSlashToURL(c["api-url"]) \in URLs
    BY <1>a, SlashedURLs
  <2> QED BY <2>1, <2>2
<1>2. ASSUME NEW f \in Optional
      PROVE  r[f] \in URLs /\ r[f].slash = TRUE
  <2>1. CASE IsBlank(c[f])
    <3>1. c["api-url"].domain \in Domains
      BY <2>1 DEF Normalizable
    <3>2. r[f] = PromisedURL(f, c["api-url"])
      BY <1>a, <2>1, <3>1, <1>n, DerivedIsPromised
    <3>3. r[f] = AddTrailingSlashToURL(Derived(f, c["api-url"]))
      BY <2>1, <1>n
    <3> QED BY <1>a, <3>1, <3>2, <3>3, DerivedIsPromised
  <2>2. CASE ~IsBlank(c[f])
    <3>1. c[f] \in URLs
      BY <1>u, <2>2, FieldValues DEF Checked, IsCluster, IsBlank
    <3>2. r[f] = AddTrailingSlashToURL(c[f])
      BY <1>n, <2>2
    <3>3. AddTrailingSlashToURL(c[f]) \in URLs /\ AddTrailingSlashToURL(c[f]).slash = TRUE
      BY <3>1, SlashedURLs
    <3> QED BY <3>2, <3>3
  <2> QED BY <2>1, <2>2
<1>3. ASSUME NEW f \in URLFields \ Optional
      PROVE  r[f] \in URLs \cup {Empty} /\ (r[f] # Empty => r[f].slash = TRUE)
  <2>1. c[f] \in URLs \cup {Empty}
    BY <1>u, FieldValues DEF Checked, IsCluster
  <2>2. CASE c[f] = Empty
    BY <2>2, <1>n DEF AddTrailingSlashToURL
  <2>3. CASE c[f] \in URLs
    <3>1. r[f] = AddTrailingSlashToURL(c[f])
      BY <1>n
    <3>2. AddTrailingSlashToURL(c[f]) \in URLs /\ AddTrailingSlashToURL(c[f]).slash = TRUE
      BY <2>3, SlashedURLs
    <3> QED BY <3>1, <3>2
  <2> QED BY <2>1, <2>2, <2>3
<1>4. ASSUME NEW f \in Fields \ URLFields
      PROVE  r[f] \in Values(f) /\ (f \in {"type", "name", "service-account-token"} => r[f] # Empty)
  <2>1. c[f] \in Values(f)
    BY DEF Checked, IsCluster
  <2>2. CASE f = "type"
    <3>1. "OSO" \in Types /\ "OSO" # Empty
      BY AttributesAssumption DEF AttributesAssumption, KnownTypes
    <3> QED BY <2>1, <2>2, <3>1, NormalizedFields, FieldValues DEF r
  <2>3. CASE f # "type"
    BY <1>u, <2>1, <2>3, NormalizedFields DEF Checked, Encrypted, r
  <2> QED BY <2>2, <2>3
<1>5. ASSUME NEW f \in Fields
      PROVE  r[f] \in Values(f)
  <2>1. f \in Optional \/ f \in URLFields \ Optional \/ f \in Fields \ URLFields
    OBVIOUS
  <2> QED BY <2>1, <1>2, <1>3, <1>4, FieldValues
<1>6. IsCluster(r)
  BY <1>5, NormalizedFields DEF IsCluster, r
<1>7. \A f \in Required \ {"app-dns"} : r[f] # Empty
  BY <1>u, <1>1, <1>4, EmptyIsNoURL
<1>8. \A f \in Optional : ~IsBlank(r[f])
  BY <1>2, EmptyIsNoURL DEF IsBlank
<1>9. \A f \in URLFields : r[f] # Empty => r[f].slash = TRUE
  BY <1>2, <1>3
<1>10. r["type"] # Empty
  BY <1>u, <1>4
<1> QED BY <1>n, <1>1, <1>6, <1>7, <1>8, <1>9, <1>10 DEF Row, r

\* A row needs no derived URL, and Normalize leaves it as it is.
LEMMA RowsStay ==
  ASSUME NEW c, Row(c)
  PROVE  Normalizable(c) /\ Normalize(c) = c
PROOF
<1>1. Normalizable(c)
  BY DEF Row, Normalizable
<1>2. Checked(c)
  BY DEF Row, Checked
<1>3. DOMAIN c = Fields /\ c = [f \in Fields |-> c[f]]
  BY DEF Row, IsCluster
<1>4. ASSUME NEW f \in Fields
      PROVE  Normalize(c)[f] = c[f]
  <2>1. CASE f \in URLFields
    <3>1. Normalize(c)[f] = AddTrailingSlashToURL(c[f])
      BY <1>1, <1>2, <2>1, NormalizedFields DEF Row
    <3>2. c[f] \in URLs \/ c[f] = Empty
      BY <2>1, FieldValues DEF Row, IsCluster, IsBlank
    <3>3. CASE c[f] = Empty
      BY <3>1, <3>3 DEF AddTrailingSlashToURL
    <3>4. CASE c[f] \in URLs
      BY <2>1, <3>1, <3>4, Slashed, EmptyIsNoURL DEF Row
    <3> QED BY <3>2, <3>3, <3>4
  <2>2. CASE f \notin URLFields
    BY <1>1, <1>2, <2>2, NormalizedFields DEF Row
  <2> QED BY <2>1, <2>2
<1>5. DOMAIN Normalize(c) = Fields /\ Normalize(c) = [f \in Fields |-> Normalize(c)[f]]
  BY DEF Normalize
<1> QED BY <1>1, <1>3, <1>4, <1>5

-----------------------------------------------------------------------------
(* From what was given to what is stored.                                   *)

\* c is object o, as the file's decoder or the controller reads it.
ReadFrom(c, by, o) ==
  \A f \in Fields :
    c[f] = IF f \in DOMAIN o THEN o[f]
           ELSE IF f = Encrypted THEN by = "file"
           ELSE IF f = "type" /\ by = "file" THEN "OSO"
           ELSE Empty

LEMMA PayloadIsRead ==
  ASSUME NEW p \in Payloads
  PROVE  ReadFrom(FromPayload(p), "request", p)
PROOF
<1>1. ASSUME NEW f \in Fields, f \notin DOMAIN p
      PROVE  FromPayload(p)[f] = IF f = Encrypted THEN FALSE ELSE Empty
  BY <1>1 DEF FromPayload, Zero
<1>2. \A f \in Fields : f \in DOMAIN p => FromPayload(p)[f] = p[f]
  BY DEF FromPayload
<1>3. "type" \in DOMAIN p
  BY AttributesAssumption DEF AttributesAssumption
<1> QED BY <1>1, <1>2, <1>3 DEF ReadFrom

\* A loaded cluster with a URL is the last object of the file for this URL.
LEMMA LastObjectIsRead ==
  ASSUME Loaded, NEW c \in loaded, Checked(c)
  PROVE  /\ ReadFrom(c, "file", LastObject(c["api-url"]))
         /\ IsObject(LastObject(c["api-url"]))
PROOF
<1> DEFINE url == c["api-url"]
           same == {i \in DOMAIN text : "api-url" \in DOMAIN text[i] /\ text[i]["api-url"] = url}
<1>1. PICK i \in DOMAIN text :
        /\ c = decodeClusters(text)[i]
        /\ \A k \in DOMAIN text : k > i => decodeClusters(text)[k]["api-url"] # url
  BY LastOneWins DEF Loaded
<1>2. \A j \in DOMAIN text : IsObject(text[j])
  BY DEF Loaded
<1>3. "api-url" \in Fields /\ "api-url" # Encrypted /\ "api-url" \in Required \ {"app-dns"}
  BY DEF Fields, Required, Encrypted
<1>4. ASSUME NEW j \in DOMAIN text
      PROVE  /\ "api-url" \in DOMAIN text[j] =>
                  decodeClusters(text)[j]["api-url"] = text[j]["api-url"]
             /\ "api-url" \notin DOMAIN text[j] => decodeClusters(text)[j]["api-url"] = Empty
  <2>1. "api-url" \in DOMAIN text[j] =>
          decodeClusters(text)[j]["api-url"] = text[j]["api-url"]
    BY <1>2, <1>3, DecodedFields, Zenon
  <2>2. "api-url" \notin DOMAIN text[j] => decodeClusters(text)[j]["api-url"] = Empty
    BY <1>2, <1>3, DecodedFields
  <2> QED BY <2>1, <2>2
<1>5. url # Empty
  BY <1>3 DEF Checked
<1>6. i \in same
  BY <1>1, <1>4, <1>5
<1>7. \A j \in same : j <= i
  BY <1>1, <1>4 DEF Loaded
<1>8. \A k \in same : (\A j \in same : j <= k) => k = i
  BY <1>6, <1>7 DEF Loaded
<1>9. (CHOOSE k \in same : \A j \in same : j <= k) = i
  BY <1>6, <1>7, <1>8
<1>10. LastObject(url) = text[i]
  BY <1>9 DEF LastObject
<1>11. ASSUME NEW f \in Fields
       PROVE  c[f] = IF f \in DOMAIN text[i] THEN text[i][f]
                     ELSE IF f = Encrypted THEN TRUE
                     ELSE IF f = "type" THEN "OSO"
                     ELSE Empty
  BY <1>1, <1>2, DecodedFields
<1>12. ReadFrom(c, "file", text[i])
  BY <1>11, Zenon DEF ReadFrom
<1> QED BY <1>2, <1>10, <1>12

\* Normalize keeps what was given and derives what was promised.
LEMMA NormalizeKeepsPromises ==
  ASSUME NEW c, Checked(c), Normalizable(c), NEW by, NEW o, ReadFrom(c, by, o)
  PROVE  GivenBy(Normalize(c),
                 [url |-> AddTrailingSlashToURL(c["api-url"]), by |-> by, given |-> o])
PROOF
<1> DEFINE r == Normalize(c)
           w == [url |-> AddTrailingSlashToURL(c["api-url"]), by |-> by, given |-> o]
<1>1. r["api-url"] = AddTrailingSlashToURL(c["api-url"]) /\ c["api-url"] \in URLs
  BY NormalizeMakesRows, RequiredURL
<1>2. ASSUME NEW f \in Fields \ URLFields
      PROVE  r[f] = Promised(w, f)
  <2>1. r[f] = IF f = "type" /\ c[f] = Empty THEN "OSO" ELSE c[f]
    BY NormalizedFields
  <2>2. c[f] = IF f \in DOMAIN o THEN o[f]
               ELSE IF f = Encrypted THEN by = "file"
               ELSE IF f = "type" /\ by = "file" THEN "OSO"
               ELSE Empty
    BY DEF ReadFrom
  <2>3. Promised(w, f) =
          CASE f \in DOMAIN o /\ ~(f = "type" /\ o[f] = Empty) -> o[f]
            [] f = Encrypted /\ f \notin DOMAIN o -> by = "file"
            [] OTHER -> "OSO"
    BY DEF Promised
  <2>4. f \in {"type", Encrypted, "name", "service-account-token"}
    BY DEF Fields, URLFields, Required
  <2>5. CASE f \in DOMAIN o
    BY <2>1, <2>2, <2>3, <2>5 DEF Encrypted
  <2>6. CASE f \notin DOMAIN o /\ f = Encrypted
    BY <2>1, <2>2, <2>3, <2>6 DEF Encrypted
  <2>7. CASE f \notin DOMAIN o /\ f = "type"
    BY <2>1, <2>2, <2>3, <2>7 DEF Encrypted
  <2>8. CASE f \notin DOMAIN o /\ f \in {"name", "service-account-token"}
    <3>1. c[f] # Empty
      BY <2>8 DEF Checked, Required
    <3>2. c[f] = Empty
      BY <2>2, <2>8 DEF Encrypted
    <3> QED BY <3>1, <3>2
  <2> QED BY <2>4, <2>5, <2>6, <2>7, <2>8
<1>3. ASSUME NEW f \in Optional
      PROVE  r[f] = IF GivenURL(w, f) THEN [w.given[f] EXCEPT !.slash = TRUE]
                                      ELSE PromisedURL(f, r["api-url"])
  <2>1. c[f] = IF f \in DOMAIN o THEN o[f] ELSE Empty
    BY DEF ReadFrom, Optional, Fields, Encrypted
  <2>2. GivenURL(w, f) <=> ~IsBlank(c[f])
    BY <2>1 DEF GivenURL, IsBlank
  <2>3. CASE IsBlank(c[f])
    <3>1. c["api-url"].domain \in Domains
      BY <2>3 DEF Normalizable
    <3>2. r[f] = AddTrailingSlashToURL(Derived(f, c["api-url"]))
      BY <2>3, NormalizedFields
    <3>3. AddTrailingSlashToURL(Derived(f, c["api-url"])) = PromisedURL(f, c["api-url"])
      BY <1>1, <3>1, DerivedIsPromised
    <3>4. /\ AddTrailingSlashToURL(c["api-url"]).domain = c["api-url"].domain
          /\ AddTrailingSlashToURL(c["api-url"]).scheme = c["api-url"].scheme
      BY <1>1, Slashed
    <3>5. PromisedURL(f, r["api-url"]) = PromisedURL(f, c["api-url"])
      BY <1>1, <3>4 DEF PromisedURL
    <3> QED BY <2>2, <2>3, <3>2, <3>3, <3>5
  <2>4. CASE ~IsBlank(c[f])
    <3>1. f \in DOMAIN o /\ c[f] = o[f]
      BY <2>1, <2>4 DEF IsBlank
    <3>2. c[f] # Empty
      BY <2>4 DEF IsBlank
    <3>3. r[f] = AddTrailingSlashToURL(c[f])
      BY <2>4, NormalizedFields
    <3>4. AddTrailingSlashToURL(c[f]) = [o[f] EXCEPT !.slash = TRUE]
      BY <3>1, <3>2 DEF AddTrailingSlashToURL
    <3> QED BY <2>2, <2>4, <3>3, <3>4
  <2> QED BY <2>3, <2>4
<1> QED BY <1>1, <1>2, <1>3 DEF GivenBy

-----------------------------------------------------------------------------
(* The table, whoever writes to it.                                         *)

Table == Rows /\ OnePerURL /\ StoredAsGiven

\* CreateOrSave replaces the row of the URL, and what was given for it.
LEMMA SaveKeepsTable ==
  ASSUME Table, NEW c, Checked(c), Normalizable(c), NEW by, NEW o, ReadFrom(c, by, o),
         Save(c), Remember(c, by, o)
  PROVE  Table'
PROOF
<1> DEFINE r == Normalize(c)
           url == AddTrailingSlashToURL(c["api-url"])
           w == [url |-> url, by |-> by, given |-> o]
<1>1. Row(r) /\ r["api-url"] = url
  BY NormalizeMakesRows
<1>2. GivenBy(r, w)
  BY NormalizeKeepsPromises
<1> HIDE DEF r, url
<1>3. stored' = {d \in stored : d["api-url"] # url} \cup {r}
  BY <1>1 DEF Save, r
<1>4. written' = {v \in written : v.url # url} \cup {w}
  BY DEF Remember, url
<1> HIDE DEF w
<1>5. Rows'
  BY <1>1, <1>3 DEF Table, Rows, Row
<1>6. OnePerURL'
  BY <1>1, <1>3 DEF Table, OnePerURL
<1>7. ASSUME NEW d \in stored'
      PROVE  \E v \in written' : GivenBy(d, v)
  <2>1. CASE d = r
    BY <1>2, <1>4, <2>1
  <2>2. CASE d \in stored /\ d["api-url"] # url
    <3>1. PICK v \in written : GivenBy(d, v)
      BY <2>2 DEF Table, StoredAsGiven
    <3>2. v.url = d["api-url"]
      BY <3>1 DEF GivenBy
    <3>3. v \in written'
      BY <1>4, <2>2, <3>2
    <3> QED BY <3>1, <3>3
  <2> QED BY <1>3, <2>1, <2>2
<1> QED BY <1>5, <1>6, <1>7 DEF Table, StoredAsGiven

\* A deletion takes the row of the URL, and what was given for it.
LEMMA DeletionKeepsTable ==
  ASSUME Table, NEW url, stored' = {c \in stored : c["api-url"] # url}, Forget(url)
  PROVE  Table'
PROOF
<1>1. Rows'
  BY DEF Table, Rows, Row
<1>2. OnePerURL'
  BY DEF Table, OnePerURL
<1>3. ASSUME NEW d \in stored'
      PROVE  \E v \in written' : GivenBy(d, v)
  <2>1. d \in stored /\ d["api-url"] # url
    OBVIOUS
  <2>2. PICK v \in written : GivenBy(d, v)
    BY <2>1 DEF Table, StoredAsGiven
  <2>3. v.url = d["api-url"]
    BY <2>2 DEF GivenBy
  <2>4. v \in written'
    BY <2>1, <2>3 DEF Forget
  <2> QED BY <2>2, <2>4
<1> QED BY <1>1, <1>2, <1>3 DEF Table, StoredAsGiven

LEMMA UntouchedTable ==
  ASSUME Table, UNCHANGED <<stored, written>>
  PROVE  Table'
PROOF BY DEF Table, Rows, OnePerURL, StoredAsGiven

-----------------------------------------------------------------------------
(* Initially, and after every step.                                         *)

LEMMA InitInv == ASSUME Init PROVE Inv
PROOF
<1>1. text = <<>> /\ DOMAIN text = {}
  BY DEF Init
<1>2. ByURL(decodeClusters(text)) = {}
  BY <1>1 DEF ByURL, decodeClusters
<1>3. Loaded
  BY <1>1, <1>2 DEF Init, Loaded, Decodes
<1>4. Syncing /\ Rows /\ OnePerURL /\ StoredAsGiven
  BY DEF Init, Syncing, Rows, OnePerURL, StoredAsGiven
<1> QED BY <1>3, <1>4 DEF Inv

LEMMA CheckedFile ==
  ASSUME Loaded, checkClusterConfig(loaded), NEW c \in loaded
  PROVE  Checked(c)
PROOF BY LoadedIsTyped DEF checkClusterConfig, Checked

LEMMA LoadStep ==
  ASSUME Inv, NEW file \in Files, Load(file)
  PROVE  Inv'
PROOF
<1>1. Table'
  BY UntouchedTable DEF Inv, Table, Load
<1>2. CASE ~Decodes(file) /\ result' = "rejected" /\ UNCHANGED <<loaded, text, phase>>
  <2>1. Loaded'
    BY <1>2 DEF Inv, Loaded, Decodes
  <2>2. Syncing'
    BY <1>2 DEF Inv, Syncing, Load
  <2> QED BY <1>1, <2>1, <2>2 DEF Inv, Table
<1>3. CASE /\ Decodes(file)
           /\ loaded' = ByURL(decodeClusters(file))
           /\ text' = file
           /\ \/ checkClusterConfig(loaded') /\ phase' = "list" /\ result' = "none"
              \/ ~checkClusterConfig(loaded') /\ result' = "rejected" /\ UNCHANGED phase
  <2>1. DOMAIN file \subseteq Nat /\ \A i \in DOMAIN file : IsObject(file[i])
    BY AttributesAssumption DEF AttributesAssumption
  <2>2. Loaded'
    BY <1>3, <2>1 DEF Loaded, Decodes
  <2>3. ASSUME NEW c \in loaded', checkClusterConfig(loaded')
        PROVE  Checked(c)
    <3>1. PICK i \in DOMAIN file : c = decodeClusters(file)[i]
      BY <1>3, <2>3, LastOneWins
    <3>2. IsCluster(c)
      BY <1>3, <2>1, <3>1, DecodedIsTyped
    <3> QED BY <2>3, <3>2 DEF checkClusterConfig, Checked
  <2>4. pending' = {} /\ phase = "idle"
    BY DEF Inv, Syncing, Load
  <2>5. Syncing'
    BY <1>3, <2>3, <2>4 DEF Syncing
  <2> QED BY <1>1, <2>2, <2>5 DEF Inv, Table
<1> QED BY <1>2, <1>3 DEF Load

\* What a step of the sync that changes no table and loads nothing keeps.
LEMMA QuietStep ==
  ASSUME Inv, UNCHANGED <<loaded, text, stored, written>>, Syncing'
  PROVE  Inv'
PROOF
<1>1. Table'
  BY UntouchedTable DEF Inv, Table
<1>2. Loaded'
  BY DEF Inv, Loaded, Decodes
<1> QED BY <1>1, <1>2 DEF Inv, Table

LEMMA StartSyncStep == ASSUME Inv, StartSync PROVE Inv'
PROOF
<1>1. Syncing'
  BY DEF Inv, Syncing, StartSync
<1> QED BY <1>1, QuietStep DEF StartSync

LEMMA AllSavedStep == ASSUME Inv, AllSaved PROVE Inv'
PROOF
<1>1. Syncing'
  BY DEF Inv, Syncing, AllSaved
<1> QED BY <1>1, QuietStep DEF AllSaved

LEMMA SaveEntryStep == ASSUME Inv, SaveEntry PROVE Inv'
PROOF
<1>1. PICK c \in pending :
        \/ /\ Normalizable(c)
           /\ Save(c)
           /\ Remember(c, "file", LastObject(c["api-url"]))
           /\ pending' = pending \ {c}
           /\ UNCHANGED <<phase, toDelete, result>>
        \/ /\ ~Normalizable(c)
           /\ phase' = "idle"
           /\ pending' = {}
           /\ toDelete' = {}
           /\ result' = "failed"
           /\ UNCHANGED <<stored, written>>
  BY DEF SaveEntry
<1>2. c \in loaded /\ Checked(c)
  BY DEF Inv, Syncing, SaveEntry
<1>3. phase = "save" /\ UNCHANGED <<loaded, text>>
  BY DEF SaveEntry
<1>4. Loaded'
  BY <1>3 DEF Inv, Loaded, Decodes
<1>5. CASE Normalizable(c) /\ Save(c) /\ Remember(c, "file", LastObject(c["api-url"]))
           /\ pending' = pending \ {c} /\ UNCHANGED <<phase, toDelete, result>>
  <2>1. ReadFrom(c, "file", LastObject(c["api-url"]))
    BY <1>2, LastObjectIsRead DEF Inv
  <2>2. Table'
    BY <1>2, <1>5, <2>1, SaveKeepsTable DEF Inv, Table
  <2>3. Syncing'
    BY <1>3, <1>5 DEF Inv, Syncing
  <2> QED BY <1>4, <2>2, <2>3 DEF Inv, Table
<1>6. CASE /\ ~Normalizable(c) /\ phase' = "idle" /\ pending' = {} /\ toDelete' = {}
           /\ result' = "failed" /\ UNCHANGED <<stored, written>>
  <2>1. Table'
    BY <1>6, UntouchedTable DEF Inv, Table
  <2>2. Syncing'
    BY <1>6 DEF Syncing
  <2> QED BY <1>4, <2>1, <2>2 DEF Inv, Table
<1> QED BY <1>1, <1>5, <1>6

LEMMA PurgeStep == ASSUME Inv, Purge PROVE Inv'
PROOF
<1>1. phase = "purge" /\ UNCHANGED <<loaded, pending, answer, text>>
  BY DEF Purge
<1>2. ASSUME NEW u \in toDelete, stored' = {c \in stored : c["api-url"] # u}, Forget(u),
             UNCHANGED <<phase, result>>
      PROVE  Inv'
  <2>1. Table'
    BY <1>2, DeletionKeepsTable DEF Inv, Table
  <2>2. Loaded'
    BY <1>1 DEF Inv, Loaded, Decodes
  <2>3. Syncing'
    BY <1>1, <1>2 DEF Inv, Syncing
  <2> QED BY <2>1, <2>2, <2>3 DEF Inv, Table
<1>3. CASE phase' = "idle" /\ result' = "ok" /\ UNCHANGED <<toDelete, stored, written>>
  <2>1. Syncing'
    BY <1>1, <1>3 DEF Inv, Syncing
  <2> QED BY <1>1, <1>3, <2>1, QuietStep
<1> QED BY <1>2, <1>3 DEF Purge

LEMMA CreateStep ==
  ASSUME Inv, NEW p \in Payloads, Create(p)
  PROVE  Inv'
PROOF
<1> DEFINE c == FromPayload(p)
<1>1. UNCHANGED <<loaded, phase, pending, toDelete, result, text>>
  BY DEF Create, syncing
<1>2. Loaded' /\ Syncing'
  BY <1>1 DEF Inv, Loaded, Decodes, Syncing
<1>3. CASE UNCHANGED <<stored, written>>
  BY <1>2, <1>3, UntouchedTable DEF Inv, Table
<1>4. CASE Valid(c) /\ Normalizable(c) /\ Save(c) /\ Remember(c, "request", p)
  <2>1. Checked(c) /\ ReadFrom(c, "request", p)
    BY <1>4, PayloadIsChecked, PayloadIsRead
  <2>2. Table'
    BY <1>4, <2>1, SaveKeepsTable DEF Inv, Table
  <2> QED BY <1>2, <2>2 DEF Inv, Table
<1> QED BY <1>3, <1>4 DEF Create

LEMMA DeleteStep ==
  ASSUME Inv, NEW c \in stored, Delete(c)
  PROVE  Inv'
PROOF
<1>1. UNCHANGED <<loaded, phase, pending, toDelete, result, text>>
  BY DEF Delete, syncing
<1>2. Loaded' /\ Syncing'
  BY <1>1 DEF Inv, Loaded, Decodes, Syncing
<1>3. stored' = {d \in stored : d["api-url"] # c["api-url"]}
  BY DEF Delete, Inv, OnePerURL
<1>4. Table'
  BY <1>3, DeletionKeepsTable DEF Delete, Inv, Table
<1> QED BY <1>2, <1>4 DEF Inv, Table

LEMMA NextInv == ASSUME Inv, [Next]_vars PROVE Inv'
PROOF
<1>1. CASE \E file \in Files : Load(file)
  BY <1>1, LoadStep
<1>2. CASE StartSync
  BY <1>2, StartSyncStep
<1>3. CASE SaveEntry
  BY <1>3, SaveEntryStep
<1>4. CASE AllSaved
  BY <1>4, AllSavedStep
<1>5. CASE Purge
  BY <1>5, PurgeStep
<1>6. CASE \E p \in Payloads : Create(p)
  BY <1>6, CreateStep
<1>7. CASE \E c \in stored : Delete(c)
  BY <1>7, DeleteStep
<1>8. CASE UNCHANGED vars
  BY <1>8, QuietStep DEF Inv, Syncing, vars
<1> QED BY <1>1, <1>2, <1>3, <1>4, <1>5, <1>6, <1>7, <1>8 DEF Next

LEMMA SpecInv == Spec => []Inv
PROOF BY InitInv, NextInv, PTL DEF Spec

-----------------------------------------------------------------------------
(* Types: what Inv does not say of them.                                    *)

Typed ==
  /\ phase \in {"idle", "list", "save", "purge"}
  /\ toDelete \subseteq URLs
  /\ result \in {"none", "ok", "rejected", "failed"}
  /\ answer \in {"none", "created", "bad parameter"}
  /\ \A w \in written : /\ w.url \in URLs
                        /\ w.by \in {"file", "request"}
                        /\ IsObject(w.given)

LEMMA RememberedIsTyped ==
  ASSUME \A w \in written : w.url \in URLs /\ w.by \in {"file", "request"} /\ IsObject(w.given),
         NEW c, Checked(c), NEW by \in {"file", "request"}, NEW o, IsObject(o), Remember(c, by, o)
  PROVE  (\A w \in written : w.url \in URLs /\ w.by \in {"file", "request"} /\ IsObject(w.given))'
PROOF
<1> DEFINE url == AddTrailingSlashToURL(c["api-url"])
<1>1. url \in URLs
  BY RequiredURL, SlashedURLs
<1> HIDE DEF url
<1> SUFFICES ASSUME NEW w \in written'
             PROVE  w.url \in URLs /\ w.by \in {"file", "request"} /\ IsObject(w.given)
  BY DEF IsObject
<1>2. w \in written \/ w = [url |-> url, by |-> by, given |-> o]
  BY DEF Remember, url
<1> QED BY <1>1, <1>2

LEMMA NextTyped == ASSUME Inv, Typed, [Next]_vars PROVE Typed'
PROOF
<1>1. ASSUME NEW file \in Files, Load(file)
      PROVE  Typed'
  BY <1>1 DEF Typed, Load, IsObject
<1>2. CASE StartSync
  <2>1. \A c \in stored : c["api-url"] \in URLs
    BY RequiredURL DEF Inv, Rows, Row, Checked
  <2> QED BY <1>2, <2>1 DEF Typed, StartSync, IsObject
<1>3. CASE SaveEntry
  <2>1. PICK c \in pending :
          \/ /\ Remember(c, "file", LastObject(c["api-url"]))
             /\ UNCHANGED <<phase, toDelete, result>>
          \/ /\ phase' = "idle" /\ toDelete' = {} /\ result' = "failed"
             /\ UNCHANGED written
    BY <1>3 DEF SaveEntry
  <2>2. c \in loaded /\ Checked(c) /\ UNCHANGED answer
    BY <1>3 DEF SaveEntry, Inv, Syncing
  <2>3. IsObject(LastObject(c["api-url"]))
    BY <2>2, LastObjectIsRead DEF Inv
  <2>4. (\A w \in written : w.url \in URLs /\ w.by \in {"file", "request"} /\ IsObject(w.given))'
    <3>1. CASE UNCHANGED written
      BY <3>1 DEF Typed, IsObject
    <3>2. CASE Remember(c, "file", LastObject(c["api-url"]))
      BY <2>2, <2>3, <3>2, RememberedIsTyped DEF Typed
    <3> QED BY <2>1, <3>1, <3>2
  <2> QED BY <2>1, <2>2, <2>4 DEF Typed
<1>4. CASE AllSaved
  BY <1>4 DEF Typed, AllSaved, IsObject
<1>5. CASE Purge
  BY <1>5 DEF Typed, Purge, Forget, IsObject
<1>6. ASSUME NEW p \in Payloads, Create(p)
      PROVE  Typed'
  <2>1. CASE UNCHANGED written
    BY <1>6, <2>1 DEF Typed, Create, syncing, IsObject
  <2>2. CASE /\ Valid(FromPayload(p)) /\ answer' = "created"
             /\ Remember(FromPayload(p), "request", p)
    <3>1. Checked(FromPayload(p)) /\ IsObject(p)
      BY <2>2, PayloadIsChecked, AttributesAssumption DEF AttributesAssumption
    <3>2. (\A w \in written : w.url \in URLs /\ w.by \in {"file", "request"} /\ IsObject(w.given))'
      BY <2>2, <3>1, RememberedIsTyped DEF Typed
    <3>3. UNCHANGED syncing /\ UNCHANGED result
      BY <1>6 DEF Create
    <3> QED BY <2>2, <3>2, <3>3 DEF Typed, syncing
  <2> QED BY <1>6, <2>1, <2>2 DEF Create
<1>7. ASSUME NEW c \in stored, Delete(c)
      PROVE  Typed'
  BY <1>7 DEF Typed, Delete, Forget, syncing, IsObject
<1>8. CASE UNCHANGED vars
  BY <1>8 DEF Typed, vars, IsObject
<1> QED BY <1>1, <1>2, <1>3, <1>4, <1>5, <1>6, <1>7, <1>8 DEF Next

LEMMA TypedMeansTypeOK == ASSUME Inv, Typed PROVE TypeOK
PROOF
<1>1. \A c \in loaded \cup pending \cup stored : IsCluster(c)
  BY LoadedIsTyped DEF Inv, Syncing, Rows, Row
<1> QED BY <1>1 DEF TypeOK, Typed, Inv, Syncing, Loaded

-----------------------------------------------------------------------------
(* The results.                                                             *)

\* Every variable of ClusterAttributes keeps its type, a loaded cluster also
\* when its file is rejected.
THEOREM AttributesTyped == Spec => []TypeOK
PROOF
<1>1. Init => Typed
  BY DEF Init, Typed
<1>2. Spec => []Typed
  BY <1>1, NextTyped, SpecInv, PTL DEF Spec
<1> QED BY <1>2, SpecInv, TypedMeansTypeOK, PTL

\* Whatever the files and the payloads are, and however a sync and requests
\* alternate, no incomplete cluster is ever stored.
THEOREM StoredClustersAreComplete == Spec => []StoredIsComplete
PROOF
<1>1. Inv => StoredIsComplete
  BY DEF Inv, Rows, Row, StoredIsComplete
<1> QED BY <1>1, SpecInv, PTL

\* Whatever the files and the payloads are, every stored cluster is what its
\* last writer gave, with the promised values for what was left out.
THEOREM StoredClustersAreAsGiven == Spec => []StoredAsGiven
PROOF
<1>1. Inv => StoredAsGiven
  BY DEF Inv
<1> QED BY <1>1, SpecInv, PTL

\* Normalize is idempotent on what is stored: a replica that saves again what
\* it read changes nothing.
THEOREM SavingAgainChangesNothing == Spec => []SavedAgainTheSame
PROOF
<1>1. Inv => SavedAgainTheSame
  BY RowsStay DEF Inv, Rows, SavedAgainTheSame
<1> QED BY <1>1, SpecInv, PTL
=============================================================================
