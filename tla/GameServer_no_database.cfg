\* Two sessions and two slots; database.db does not exist.
SPECIFICATION Spec
CONSTANTS
  s1 = s1
  s2 = s2
  s3 = s3
  home = home
  nat = nat
  NULL = NULL
  Session = {s1, s3}
  IPv4 = {home, nat}
  Ip <- MCIp
  ProductCode <- MCProductCode
  ValidProductCode <- MCValidProductCode
  KnownProducts = {}
  Crosslinks <- MCCrosslinks
  GroupName <- MCGroupName
  ValidGroupName <- MCValidGroupName
  SERVER_USER_MAXIMUM = 2
  DatabaseExists = FALSE
  SqliteMayFail = FALSE
INVARIANT
  LookupsAreNoOps
CHECK_DEADLOCK FALSE
