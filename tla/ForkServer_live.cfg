SPECIFICATION FairSpec
CONSTANTS
  Servers <- OneIsland
  Figures <- Large
  Holds <- OneDisk
  Length <- LargeSizes
  BufSize = 2
  MaxResponses = 1
  NoServer = NoServer
  Clients = {c1, c2}
  Lossy = FALSE
  Segmented = FALSE
  Padding = FALSE
  MaxBoots = 1
PROPERTIES NextBroadcastConnects Finishes
CHECK_DEADLOCK FALSE
