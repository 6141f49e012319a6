CONSTANTS
  Keys = {"HOME", "REFRESH", "QUIT", "BACK", "MAP_LIST", "OVERVIEW", "SORT", "MAP_GET", "MAP_STOP", "ENTER"}
  MaxKeys = 5
  MaxSignals = 0
  MaxResizes = 0
  WithPid = TRUE
  StartMayFail = FALSE
  WinMayFail = FALSE
  RunLimit = FALSE
  Slow = FALSE
SPECIFICATION Spec
INVARIANTS TypeOK Flag2Accounting ModeMatchesPage
PROPERTY ControlTaskNotLost
