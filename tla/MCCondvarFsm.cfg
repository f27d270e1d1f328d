SPECIFICATION FairSpec
CONSTANTS
  CNT_MOD = 4
  MaxSpurious = 2
  Free = free
INVARIANTS TypeOK MutualExclusion NoLostWakeup
PROPERTIES CycleImplemented
