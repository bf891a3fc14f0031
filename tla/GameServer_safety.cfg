\* Three sessions and three slots; SQLite may fail.
SPECIFICATION Spec
CONSTANTS
  s1 = s1
  s2 = s2
  s3 = s3
  home = home
  nat = nat
  NULL = NULL
  Session = {s1, s2, s3}
  IPv4 = {home, nat}
  Ip <- MCIp
  ProductCode <- MCProductCode
  ValidProductCode <- MCValidProductCode
  KnownProducts = {"ULUS10000"}
  Crosslinks <- MCCrosslinks
  GroupName <- MCGroupName
  ValidGroupName <- MCValidGroupName
  SERVER_USER_MAXIMUM = 3
  DatabaseExists = TRUE
  SqliteMayFail = TRUE
SYMMETRY Symmetry
INVARIANTS
  TypeOK
  NoDanglingSession
  NodesListTheirSessions
  NoEmptyNodes
  PeerViewMatchesGroup
  FounderIsBssid
  PlayedGamesAreRecorded
\* The server stops for good after its drain timer.
CHECK_DEADLOCK FALSE
