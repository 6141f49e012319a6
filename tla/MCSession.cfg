CONSTANTS
  Instances = {i1, i2}
  MayFail = {"plat", "debug", "dump", "group", "cons", "perf", "disp"}
SPECIFICATION Spec
INVARIANTS TypeOK AllDown OwnTargets DamonAsFound
PROPERTY OnlyWhatIsUp
