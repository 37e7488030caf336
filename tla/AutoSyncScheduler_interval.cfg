SPECIFICATION Spec
CONSTANTS
  Workers = {w1}
  Closers = {c1}
  NoProc = NoProc
  ReleaseMayRaise = FALSE
  Self = me
  Updaters = {u1}
  Intervals = {2}
  Base = 1
  MaxDelay = 2
  FailureCap = 2
  Horizon = 2
  Never = Never
  NoWorker = NoWorker
  SettingsMayFail = TRUE
PROPERTIES
  IntervalRespected
CHECK_DEADLOCK FALSE
