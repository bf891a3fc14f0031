\* Three starts, each with any of the command lines.
SPECIFICATION Spec
CONSTANTS
  CommandLines <- MCCommandLines
  default_server_port = 1
  PortMax = 4
  Ephemeral = {2, 3}
  Taken <- MCTaken
  Path = {"a", "b", "long", "busy"}
  TooLong = {"long"}
  Blocked = {"busy"}
  DatabaseMayFail = TRUE
  StderrMayFail = TRUE
  MaxStarts = 3
INVARIANTS
  TypeOK
  RelayIsNextToFixedPort
  DistinctPathsAreReachable
PROPERTIES
  CommandLineIsGrammar
  
\* The process ends.
CHECK_DEADLOCK FALSE
