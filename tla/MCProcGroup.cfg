CONSTANTS
  Procs = {p1, p2, p3}
  Pids = {1, 2, 3}
  NBuckets = 2
  NoProc = NoProc
SPECIFICATION FairSpec
INVARIANTS TypeOK RefsCounted TableSound NoneLost UndercountAtMostOne
PROPERTY RemovedFreed
