SPECIFICATION FairSpec
CONSTANTS
  a = a
  Clients = {c1, c2}
  Data = {a}
  Messages <- EveryCommand
  BUF_SIZE = 2
  RECV_SIZE = 2
  SOCK_SIZE = 1
  Pipelined = FALSE
  MaxSessions = 3
  MaxSends = 3
  Nobody = nobody
INVARIANTS OwnAnswer
PROPERTIES DeviceImplemented OnlyCutMessagesEndServer ClientServed
\* All sessions are over.
CHECK_DEADLOCK FALSE
