SPECIFICATION Spec
CONSTANTS
  r1 = r1 r2 = r2
  anna = anna ben = ben
  house = house school = school shop = shop
  m1 = m1 m2 = m2
  Blank = Blank
  Ranks <- MCRanks
  Persons <- MCPersons
  Places <- MCPlaces
  PlaceRank <- MCPlaceRank
  Home <- MCHome
  Messages <- MCMessages
  SocialMessages = TRUE
SYMMETRY MCSymmetry
INVARIANTS DeliveredAtMostOnce ReceiptsAreTrue OnlyMigrantsMissOut DeliveriesAreSeen
