SPECIFICATION Spec
CONSTANTS
  Threads = {t1, t2, t3}
  VAR_MOD = 3
  NoThread = none
INVARIANTS TypeOK CountersAgree NeverRepairs AloneNeverRepairs
SYMMETRY ThreadSymmetry
\* The process ends with main.
CHECK_DEADLOCK FALSE
