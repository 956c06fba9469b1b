SPECIFICATION Spec
CONSTANTS
  MaxTicks = 2
  STRIDE1 = 1024
  TICKETS_INIT = 8
CHECK_DEADLOCK FALSE
INVARIANT SleeperNotChosen
