SPECIFICATION Spec
CONSTANTS
  DayEnd = 24
  DiaryStart = 4
  MinimumRoutable = 2
  MinutesBetween <- Hours
  Nowhere = 0
  CapacityPercent = 100
  PersonLimit = 4
  MinimumPerCbsa = 2
  Shuffle <- Shuffled
  Downloads = {"archive", "osm"}
  ByHand = {"atus"}
  Pinned = {"archive"}
  ShortReads = TRUE
  Buckets = {1, 2}
  Worlds <- MCWorlds
CHECK_DEADLOCK FALSE
INVARIANTS DiaryClockKept
