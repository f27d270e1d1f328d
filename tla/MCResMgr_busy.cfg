SPECIFICATION Spec
CONSTANTS
  a = a
  Clients = {c1, c2}
  Data = {a}
  Messages <- ReadAndWrite
  BUF_SIZE = 2
  RECV_SIZE = 2
  SOCK_SIZE = 1
  Pipelined = FALSE
  MaxSessions = 2
  MaxSends = 3
  Nobody = nobody
INVARIANTS BusyWhileServed
CHECK_DEADLOCK FALSE
