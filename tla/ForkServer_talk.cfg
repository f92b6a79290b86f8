SPECIFICATION Spec
CONSTANTS
  Servers <- OneIsland
  Figures <- Gallery
  Holds <- OneDisk
  Length <- Sizes
  BufSize = 2
  MaxResponses = 1
  NoServer = NoServer
  Clients = {c1, c2}
  Lossy = TRUE
  Segmented = FALSE
  Padding = TRUE
  MaxBoots = 2
SYMMETRY Interchangeable
INVARIANTS TypeOK OwnAnswer RoutedHasEntry
PROPERTIES StaysUp
CHECK_DEADLOCK FALSE
