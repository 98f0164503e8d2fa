---------------------------- MODULE MCMigration ----------------------------
(* Three ranks with a place each, and two people who live on different     *)
(* ranks.  The third rank may be without people, coming or going.          *)
EXTENDS Migration, TLC

CONSTANTS r1, r2, r3, anna, ben, house, school, shop

MCRanks == {r1, r2, r3}
MCPersons == {anna, ben}
MCPlaces == {house, school, shop}
MCPlaceRank == house :> r1 @@ school :> r2 @@ shop :> r3
MCHome == anna :> house @@ ben :> shop
=============================================================================
