\* One session, three queued buffers, SQLite may fail.
SPECIFICATION FairSpec
CONSTANTS
  QueueBound = 3
  LoginMayThrow = TRUE
INVARIANTS
  TypeOK
  NoLostWakeup
  NobodyWaitsOnClosed
  ListedIsHeldByReader
PROPERTIES
  NoPrematureTimeout
  ClosedSessionEnds
  SilentClientIsClosed
  ImplementsLife
\* A session ends.
CHECK_DEADLOCK FALSE
