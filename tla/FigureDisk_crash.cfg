SPECIFICATION CrashSpec
CONSTANTS
  f1 = f1
  f2 = f2
  f3 = f3
  a = a
  b = b
  Names = {f1, f2, f3}
  NoName = NoName
  Texts <- TextsAll
  Payload = 2
  Extension = 4
  MaxBlock = 9
  MaxMade = 3
  MaxKills = 1
SYMMETRY Interchangeable
INVARIANTS KilledFiguresApart
PROPERTIES KillKeepsFigures KillInDeletionKeepsEarlier
CHECK_DEADLOCK FALSE
