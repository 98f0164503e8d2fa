SPECIFICATION Spec
CONSTANTS
  home = home work = work meet = meet
  Ids <- MCIds
  HomeId = home
  Overrides <- MCOverrides
  LastMinute = 4
  Schedules <- MCSchedules
  LocalSchedules <- MCLocalSchedules
  Delays = {1, 3}
  Nowhere = Nowhere
  Cap = 150
  Decay = 65
  Window = 5
  Interval = 2
  MaxEvents = 20
  LateMinute = 4
  Letters <- MCLetters
  MaxLetters = 1
CHECK_DEADLOCK FALSE

PROPERTY MemoryFades
