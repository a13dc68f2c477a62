SPECIFICATION Spec
CONSTANTS
  dom1 = dom1  dom2 = dom2
  n1 = n1
  tok1 = tok1  tok2 = tok2
  OneLabel = OneLabel
  NoHost = NoHost
  Malformed = Malformed
  Empty = Empty
  Spaces = Spaces
  Mistyped = Mistyped
  Labels = {"api", "apps", "web", "m", "console", "metrics"}
  Domains = {dom1, dom2}
  Texts = {n1, tok1, tok2}
  Types = {"OSO", "OSD", "OCP", "other"}
  Files <- MCFiles
  Payloads <- MCPayloads
INVARIANTS
  TypeOK
  StoredIsComplete
  StoredAsGiven
  SavedAgainTheSame
