SPECIFICATION FairSpec
CONSTANTS
  r1 = r1 r2 = r2 r3 = r3
  anna = anna ben = ben
  house = house school = school shop = shop
  Nowhere = Nowhere
  Ranks <- MCRanks
  Persons <- MCPersons
  Places <- MCPlaces
  PlaceRank <- MCPlaceRank
  Home <- MCHome
  ScheduleEngine = FALSE
  Replicated = FALSE
CHECK_DEADLOCK FALSE
INVARIANTS OwnersAreLocal OccupantsExact NoGhosts
PROPERTY TicksGoOn
