SPECIFICATION FairSpec
CONSTANTS
  Clients = {c1, c2, c3}
  Last = 2
  MQ_MAXMSG = 2
  MaxStarts = 2
  MaxKills = 1
INVARIANTS TypeOK OwnAnswer NobodyForgotten
PROPERTIES ClientsFinish
\* All clients are over, or wait for an answer that was dropped.
CHECK_DEADLOCK FALSE
