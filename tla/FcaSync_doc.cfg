SPECIFICATION Spec
CONSTANTS
  s1 = s1
  s2 = s2
  r1 = r1
  r2 = r2
  Sources = {s1, s2}
  Datasets = {s1, s2}
  FetchOrder <- FirstThenSecond
  ImportOrder <- SecondThenFirst
  Payloads = {a, b}
  Malformed = {}
  Unparsable = {}
  RunIds = {r1, r2}
  None = None
INVARIANTS
  FailedSyncOwnsNoHead
