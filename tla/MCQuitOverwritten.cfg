CONSTANTS
  Keys = {"QUIT"}
  MaxKeys = 1
  MaxSignals = 0
  MaxResizes = 0
  WithPid = TRUE
  StartMayFail = FALSE
  WinMayFail = FALSE
  RunLimit = FALSE
  Slow = FALSE
SPECIFICATION FairSpec
PROPERTY QuitHonoured
