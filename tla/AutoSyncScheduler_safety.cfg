SPECIFICATION Spec
CONSTANTS
  Workers = {w1}
  Closers = {c1}
  NoProc = NoProc
  ReleaseMayRaise = FALSE
  Self = me
  Updaters = {u1, u2}
  Intervals = {1}
  Base = 1
  MaxDelay = 1
  FailureCap = 1
  Horizon = 1
  Never = Never
  NoWorker = NoWorker
  SettingsMayFail = FALSE
SYMMETRY Symmetry
INVARIANTS
  TypeOK
  SleepsWithCurrentSettings
  StoppedForGood
CHECK_DEADLOCK FALSE
