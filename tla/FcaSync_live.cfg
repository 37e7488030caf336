SPECIFICATION FairSpec
CONSTANTS
  s1 = s1
  s2 = s2
  r1 = r1
  r2 = r2
  Sources = {s1}
  Datasets = {s1}
  FetchOrder <- FirstOnly
  ImportOrder <- FirstOnly
  Payloads = {a, b, u, m}
  Malformed = {m}
  Unparsable = {u}
  RunIds = {r1, r2}
  None = None
PROPERTIES
  Converges
