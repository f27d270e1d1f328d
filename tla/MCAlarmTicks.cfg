SPECIFICATION FairSpec
CONSTANTS
  EVENTS = 10
  MESSAGES = 3
  MaxLate = 3
INVARIANTS WaitsForMessages
\* main ends.
CHECK_DEADLOCK FALSE
