CONSTANTS
  Button = {"left"}
  Key = {"esc"}
  Client <- MCClient
  Monitor <- MCMonitor
  Screen <- MCScreen
  MaxWidth = {960, 1920}
  MaxQueue = 1
  MaxWire = 2
  MaxPoll = 2
SPECIFICATION FairSpec
INVARIANTS
  TypeOK
  ReleasesAccounted
  LandsWherePointed
PROPERTIES
  ReleasesArrive
