CONSTANTS
  q1 = q1
  q2 = q2
  h1 = h1
  Jobs = {j1, j2}
  Ranks <- MCRanks
  Ids <- MCIds
  Places <- MCPlaces
  p1 = p1
  GraphNodes <- MCGraphNodes
  Persons = {p1}
  Sources <- MCSources
  DefaultRanks <- MCDefaultRanks
  Unset = Unset
SPECIFICATION Spec
INVARIANTS PeopleHaveOneOwner FullCoverageIsEnforced OneAssignment
PROPERTY StartupEnds
CHECK_DEADLOCK FALSE
