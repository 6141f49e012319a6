SPECIFICATION Spec
CONSTANTS
  Attrs = {file, heap}
  NoAttr = NoAttr
  MaxPage = 3
  EntryNum = 1
  MaxOps = 2
INVARIANTS TypeOK FindCorrect NoLeak
PROPERTY Faithful
