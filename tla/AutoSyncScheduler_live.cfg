SPECIFICATION FairSpec
CONSTANTS
  Workers = {w1}
  Closers = {c1, c2}
  NoProc = NoProc
  ReleaseMayRaise = FALSE
  Self = me
  Updaters = {}
  Intervals = {2}
  Base = 1
  MaxDelay = 2
  FailureCap = 2
  Horizon = 2
  Never = Never
  NoWorker = NoWorker
  SettingsMayFail = TRUE
PROPERTIES
  StopEnds
  DrainEnds
  ChecksContinue
CHECK_DEADLOCK FALSE
