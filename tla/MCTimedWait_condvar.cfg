SPECIFICATION Spec
CONSTANTS
  MaxSpuriousWakes = 2
  MaxKills = 2
INVARIANT SecondWaitSucceeds
CHECK_DEADLOCK FALSE
