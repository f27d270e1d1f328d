SPECIFICATION Spec
CONSTANTS
  BUFFER_SIZE = 2
  COUNTER_MOD = 4
  MaxSignals = 1
  MaxProducerCrashes = 0
  MaxConsumerCrashes = 0
PROPERTIES ConsumedInOrder
CHECK_DEADLOCK FALSE
