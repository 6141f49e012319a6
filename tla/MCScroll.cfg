CONSTANTS
  Rows = 3
  MaxLines = 7
  NrProc = 2
SPECIFICATION Spec
INVARIANTS TypeOK HighlightRight PageShown
PROPERTY SelectionKept
