SPECIFICATION FairSpec
CONSTANTS
  Servers <- OneIsland
  Figures <- OneFigure
  Holds <- OneDisk
  NameOf <- OneName
  NoServer = NoServer
  NoClient = NoClient
  Clients = {c1}
  Lossy = FALSE
  MaxBoots = 1
PROPERTIES ServersDiscovered
CHECK_DEADLOCK FALSE
