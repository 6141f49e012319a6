CONSTANTS
  Keys = {"HOME", "QUIT", "BACK", "MAP_LIST", "OVERVIEW", "ENTER"}
  MaxKeys = 3
  MaxSignals = 0
  MaxResizes = 0
  WithPid = FALSE
  StartMayFail = TRUE
  WinMayFail = FALSE
  RunLimit = FALSE
  Slow = FALSE
SPECIFICATION FairSpec
PROPERTIES DispReturns ShutdownCompletes PendingPageShown
CHECK_DEADLOCK FALSE
