SPECIFICATION FairSpec
CONSTANTS
  BUFFER_SIZE = 3
  COUNTER_MOD = 4
  MaxSignals = 2
  MaxProducerCrashes = 1
  MaxConsumerCrashes = 1
INVARIANTS TypeOK NoSlotConflict SemaphoresCountSlots TokensBounded
PROPERTIES FifoImplemented EveryNumberConsumed ConsumedInOrderUndisturbed ProcessesStop
\* Both processes may have stopped; kills may cost all the slots.
CHECK_DEADLOCK FALSE
