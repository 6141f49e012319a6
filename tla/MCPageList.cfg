CONSTANTS
  Addrs = {a1, a2, a3, a4}
  Null = Null
  Opens = {"MONITOR"}
SPECIFICATION Spec
INVARIANTS TypeOK ListOK
PROPERTY ImplementsStack
