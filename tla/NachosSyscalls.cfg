SPECIFICATION Spec
CONSTANTS
  f = f
  g = g
  Files <- TwoFiles
  MAX_FILES = 5
  MaxFds = 7
  None = None
INVARIANTS TypeOK FilesReached FdsAccounted LegalProgramsRun
CHECK_DEADLOCK FALSE
