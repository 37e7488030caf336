SPECIFICATION Spec
CONSTANTS
  Launchers = {l1, l2}
  Tokens = {s1, s2}
  NoOne = NoOne
  Other = Other
  External = External
  Damaged = Damaged
SYMMETRY Symmetry
INVARIANTS
  TypeOK
  Manageable
PROPERTIES
  StoppedIsStopped
  RefusalIsReal
  RequestsReachServers
