\* Every stream of five bytes after a login, in every chunking.
SPECIFICATION FairSpec
CONSTANTS
  TailLen = 5
  Stream <- MCStream
  RefusedLogin <- MCRefusedLogin
  RefusedConnect <- MCRefusedConnect
  RxSize = 5
  LoginSize = 4
  ConnectSize = 2
  ChatSize = 3
INVARIANT
  TypeOK
  PacketsAreTheStream
  BufferHoldsPartOfPacket
PROPERTY
  PacketLoopEnds
\* A session ends.
CHECK_DEADLOCK FALSE
