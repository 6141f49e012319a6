CONSTANTS
  Regions <- MCRegions
  Lines <- MCLines
  SortKeys = {"START", "SIZE", "NRA"}
  Slots = 3
  Most = 2
  WordMod = 64
  MaxMixed = 1
SPECIFICATION Spec
INVARIANTS TypeOK OneBeside DrawnInOrder NoneMadeUp HitWithin
