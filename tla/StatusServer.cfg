\* Three users in two games with or without a group, and the relay ports of one address; SQLite may fail.
SPECIFICATION StatusSpec
CONSTANTS
  home = home
  m1 = m1
  NULL = NULL
  Session = {s1, s2, s3}
  IPv4 = {home}
  Ip <- MCIp
  ProductCode <- MCProductCode
  ValidProductCode <- MCProductCode
  KnownProducts = {"ULUS10000"}
  Crosslinks <- MCCrosslinks
  GroupName = {"lobby"}
  ValidGroupName = {"lobby"}
  SERVER_USER_MAXIMUM = 3
  DatabaseExists = TRUE
  SqliteMayFail = TRUE
  Connection = {c1}
  Mac = {m1}
  Port = {1}
  MacOf <- OneMac
SYMMETRY Symmetry
INVARIANT
  PageShowsLobby
  
\* The server stops for good after its drain timer.
CHECK_DEADLOCK FALSE
