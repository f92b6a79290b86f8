SPECIFICATION FairSpec
CONSTANTS
  Servers <- OneIsland
  Figures <- OneFigure
  Holds <- OneDisk
  NameOf <- OneName
  NoServer = NoServer
  NoClient = NoClient
  Clients = {c1, c2}
  Lossy = FALSE
  MaxBoots = 2
PROPERTIES Answered EndsAfterConnection AnnouncementsHeard
CHECK_DEADLOCK FALSE
