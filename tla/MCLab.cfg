SPECIFICATION FairSpec
CONSTANTS
  Connections = {k1, k2}
  BUFFER = 2
  SOCKET = 3
  MAX_EVENTS = 2
  MaxUnits = 3
  MaxNotes = 1
  PRODUCT_MOD = 3
  MaxSpuriousWakes = 2
  MaxKills = 2
  BURST = 3
  MQ_MAXMSG = 4
  MaxRuns = 4
  Copies = {1, 2, 3}
  MaxCount = 2
  SIGNALS = 3
  EVENTS = 3
  MESSAGES = 2
  MaxLate = 3
  SLEEPS <- Sleeps
  BLOCK_COUNT = 3
  PERIOD = 2
  NUM_SAMPLES = 3
  BILLION = 5
  MaxDelay = 4
  NUM_DEVICES = 3
  EVENT_BUFFER = 3
INVARIANTS TypeOK NothingStranded ReportsTrue NamedIsFresh NoNoticeLost
PROPERTIES BurstInOrder EchoedInOrder PatientClientsServed HandoverImplemented NoInversion PoolImplemented MainEnds GoesOn
\* The clients of the epoll server may all have left; some programs end.
CHECK_DEADLOCK FALSE
