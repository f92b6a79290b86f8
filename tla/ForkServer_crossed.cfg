SPECIFICATION Spec
CONSTANTS
  Servers <- OneIsland
  Figures <- Gallery
  Holds <- OneDisk
  Length <- Sizes
  BufSize = 2
  MaxResponses = 1
  NoServer = NoServer
  Clients = {c1, c2}
  Lossy = FALSE
  Segmented = FALSE
  Padding = FALSE
  MaxBoots = 1
INVARIANTS NeverCrossed
CHECK_DEADLOCK FALSE
