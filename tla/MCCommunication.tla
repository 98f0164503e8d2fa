-------------------------- MODULE MCCommunication --------------------------
(* Two ranks, two places on the first and one on the second, two people    *)
(* created on different ranks and two messages.                            *)
EXTENDS Communication, TLC

CONSTANTS r1, r2, anna, ben, house, school, shop, m1, m2

MCRanks == {r1, r2}
MCPersons == {anna, ben}
MCPlaces == {house, school, shop}
MCPlaceRank == house :> r1 @@ school :> r1 @@ shop :> r2
MCHome == anna :> house @@ ben :> shop
MCMessages == {m1, m2}
MCSymmetry == Permutations(MCMessages)
=============================================================================
