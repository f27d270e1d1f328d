SPECIFICATION Spec
CONSTANTS
  a = a
  Clients = {c1, c2}
  Data = {a}
  Messages <- FewCommands
  BUF_SIZE = 3
  RECV_SIZE = 3
  SOCK_SIZE = 1
  Pipelined = TRUE
  MaxSessions = 3
  MaxSends = 4
  Nobody = nobody
INVARIANTS TypeOK ReadStillTrue
PROPERTIES DeviceImplemented
SYMMETRY ClientSymmetry
\* All sessions are over.
CHECK_DEADLOCK FALSE
