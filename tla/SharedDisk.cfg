SPECIFICATION SharedSpec
CONSTANTS
  f1 = f1
  f2 = f2
  f3 = f3
  a = a
  b = b
  Names = {f1, f2, f3}
  NoName = NoName
  Texts <- OneText
  Payload = 2
  Extension = 3
  MaxBlock = 6
  MaxMade = 3
  MaxKills = 1
  MaxSessions = 4
SYMMETRY Interchangeable
INVARIANTS KeptOnDisk KeptServed SharedApart
CHECK_DEADLOCK FALSE
