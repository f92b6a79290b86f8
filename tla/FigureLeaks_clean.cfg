SPECIFICATION LeakSpec
CONSTANTS
  f1 = f1
  f2 = f2
  f3 = f3
  a = a
  b = b
  Names = {f1, f2, f3}
  NoName = NoName
  Texts <- TextsOfAllSizes
  Payload = 2
  Extension = 4
  MaxBlock = 9
  MaxMade = 4
  MaxKills = 2
SYMMETRY Interchangeable
INVARIANTS TypeOK CountersMatchFlags BlocksAccounted OneReference
PROPERTIES ReopenRestores StoreRefined
CHECK_DEADLOCK FALSE
