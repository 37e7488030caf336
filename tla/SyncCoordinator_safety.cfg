SPECIFICATION Spec
CONSTANTS
  Procs = {p1, p2}
  Workers = {w1, w2}
  Closers = {c1, c2}
  NoProc = NoProc
  ReleaseMayRaise = TRUE
SYMMETRY Symmetry
INVARIANTS
  TypeOK
  MutualExclusion
  ReservationNotStranded
  DrainedMeansQuiet
  CompletionReportsOwnOutcome
PROPERTIES
  ImplementsExclusiveSync
