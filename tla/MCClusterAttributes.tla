------------------------ MODULE MCClusterAttributes ------------------------
(***************************************************************************)
(* An instance of ClusterAttributes for TLC: files with every kind of       *)
(* object, and payloads of every kind.                                      *)
(***************************************************************************)
EXTENDS ClusterAttributesProperties, TLC

CONSTANTS dom1, dom2, n1, tok1, tok2

URL(l, d, s) == [scheme |-> TRUE, label |-> l, domain |-> d, path |-> "none", slash |-> s]

\* The least an object must have.
Basic(u, t) == "name" :> n1 @@ "api-url" :> u @@ "app-dns" :> URL("apps", dom1, FALSE)
               @@ "service-account-token" :> t

AllURLs(u) == "console-url" :> URL("web", dom1, FALSE) @@ "metrics-url" :> URL("m", dom1, TRUE)
              @@ "logging-url" :> u

API1 == URL("api", dom1, FALSE)
API2 == URL("api", dom2, TRUE)
Host == URL("api", OneLabel, FALSE)
Bad  == URL("api", NoHost, FALSE)
Torn == URL("api", Malformed, TRUE)
Bare == [API1 EXCEPT !.scheme = FALSE]

MCFiles ==
  { <<>>,
    <<Basic(API1, tok1)>>,
    <<Basic(API1, tok1) @@ Encrypted :> FALSE @@ "type" :> "OSD", Basic(API2, tok1)>>,
    <<Basic(API1, tok1) @@ "type" :> Empty, Basic(API1, tok2) @@ "console-url" :> Spaces>>,
    <<Basic(API2, tok2) @@ "type" :> "other", Basic(Host, tok1)>>,
    <<Basic(Host, tok1) @@ AllURLs(API1), Basic(Torn, tok2) @@ AllURLs(Bad)>>,
    <<Basic(Bare, tok1), Basic(Torn, tok1)>>,
    <<Basic(API1, Empty)>>,
    <<Basic(API2, tok2) @@ Encrypted :> Mistyped>> }

MCPayloads ==
  { Basic(URL("api", dom1, TRUE), tok2) @@ "type" :> "OCP",
    Basic(API2, tok1) @@ "type" :> "OSO" @@ AllURLs(Spaces),
    "app-dns" :> Empty @@ Basic(API2, tok2) @@ "type" :> "OSD",
    Basic(Host, tok1) @@ "type" :> "OSO",
    Basic(Bad, tok1) @@ "type" :> "OSO",
    Basic(Bare, tok1) @@ "type" :> "OSO" @@ AllURLs(API2),
    Basic(API2, tok1) @@ "type" :> "OSO" @@ AllURLs(Torn),
    Basic(API1, tok1) @@ "type" :> "other",
    Basic(API1, Spaces) @@ "type" :> "OSO",
    Basic(API1, tok1) @@ "type" :> "OSO" @@ "logging-url" :> Bad }
=============================================================================
