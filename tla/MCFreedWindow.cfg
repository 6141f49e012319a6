CONSTANTS
  Keys = {"SCROLL"}
  MaxKeys = 1
  MaxSignals = 0
  MaxResizes = 1
  WithPid = TRUE
  StartMayFail = FALSE
  WinMayFail = FALSE
  RunLimit = FALSE
  Slow = FALSE
SPECIFICATION Spec
INVARIANT NoFreedWindow
