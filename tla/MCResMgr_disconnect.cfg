SPECIFICATION Spec
CONSTANTS
  a = a
  Clients = {c1}
  Data = {a}
  Messages <- ReadAndWrite
  BUF_SIZE = 2
  RECV_SIZE = 2
  SOCK_SIZE = 1
  Pipelined = TRUE
  MaxSessions = 1
  MaxSends = 3
  Nobody = nobody
PROPERTIES NoClientEndsServer
CHECK_DEADLOCK FALSE
