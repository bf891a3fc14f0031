\* PTP and PDP: four sessions, of which the relay admits three; two buffers fill a queue.
SPECIFICATION Spec
CONSTANTS
  RelaySession = {r1, r2, r3, r4}
  host = host
  guest = guest
  Address = {host, guest}
  NULL = NULL
  Requests <- AllRequests
  max_num_sessions = 3
  data_queue_size_limit = 2
SYMMETRY Symmetry
INVARIANTS
  TypeOK
  NamesLeadToLiveSessions
  OneOpenSessionPerName
  NoLostListener
  BondedHasPeer
  DirectoryIsBacked
  ActiveCountIsExact
  ClosedSessionsAreResumed
