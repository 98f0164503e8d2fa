SPECIFICATION Spec
CONSTANTS
  Callbacks = {c1, c2}
  Ticks = 3
CHECK_DEADLOCK FALSE
PROPERTIES CancelledRunNeverCompletes RunEnds
