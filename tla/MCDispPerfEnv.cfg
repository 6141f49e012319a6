CONSTANTS
  Keys = {"HOME", "QUIT", "BACK", "MAP_LIST", "OVERVIEW", "SCROLL", "ENTER", "ERR"}
  MaxKeys = 2
  MaxSignals = 1
  MaxResizes = 1
  WithPid = TRUE
  StartMayFail = TRUE
  WinMayFail = TRUE
  RunLimit = TRUE
  Slow = TRUE
SPECIFICATION Spec
INVARIANTS EventOwned CleanExit
