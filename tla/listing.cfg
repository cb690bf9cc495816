CONSTANTS
  MaxCaptures = 4
  Limits = {1, 2, 3}
SPECIFICATION Spec
CHECK_DEADLOCK FALSE
INVARIANTS TypeOK NothingMissed RepeatsForAReason
