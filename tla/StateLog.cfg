SPECIFICATION Spec
CONSTANTS
  r0 = r0 r1 = r1 anna = anna ben = ben resting = resting working = working
  Unlogged = Unlogged
  Ranks <- MCRanks
  Root = r0
  Persons <- MCPersons
  States <- MCStates
  Ticks = 3
  FlushTicks = 2
CHECK_DEADLOCK FALSE
INVARIANTS AcceptedIsTrue FinishedIsAccepted StreamMissesNothing
