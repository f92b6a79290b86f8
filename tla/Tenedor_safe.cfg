SPECIFICATION Spec
CONSTANTS
  Servers <- Islands
  Figures <- Gallery
  Holds <- Disks
  NameOf <- Names
  NoServer = NoServer
  NoClient = NoClient
  Clients = {c1, c2}
  Lossy = TRUE
  MaxBoots = 2
INVARIANTS TypeOK ForwardsToListed
SYMMETRY Interchangeable
CHECK_DEADLOCK FALSE
