SPECIFICATION Spec
CONSTANTS
  Threads = {t1, t2}
  NoThread = NoThread
  Publications <- MCPublications
  Channels = {"stable", "preview"}
  Current <- MCCurrent
  TTL = 1
  Backoff = 1
  MaxBackoff = 2
  Tolerance = 0
  Waits = {3}
  MaxTime = 2
  MaxSetBack = 1
SYMMETRY Symmetry
INVARIANTS
  TypeOK
  OffersOnlyNewer
PROPERTIES
  GatesHold
  SuccessIsCurrent
  FailureForgetsNothing
