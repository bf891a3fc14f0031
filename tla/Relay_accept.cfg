\* A listener, a connect and the accept it waits for.
SPECIFICATION Spec
CONSTANTS
  RelaySession = {r1, r2, r3}
  host = host
  guest = guest
  Address = {host, guest}
  NULL = NULL
  Requests <- StreamRequests
  max_num_sessions = 3
  data_queue_size_limit = 2
PROPERTY
  AwaitedAcceptIsCreated
