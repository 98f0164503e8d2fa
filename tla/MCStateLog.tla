----------------------------- MODULE MCStateLog -----------------------------
(* StateLog with two ranks, two people, two states and three ticks, and files *)
(* of two tables.                                                             *)
EXTENDS StateLog

CONSTANTS r0, r1, anna, ben, resting, working

MCRanks == {r0, r1}
MCPersons == {anna, ben}
MCStates == {resting, working}
=============================================================================
