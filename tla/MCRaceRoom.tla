----------------------------- MODULE MCRaceRoom -----------------------------
(* Instances of RaceRoom for TLC.                                          *)
EXTENDS RaceRoom, TLC

CONSTANTS w1, w2, x1, c1, c2

RoomSymmetry == Permutations({w1, w2}) \cup Permutations({c1, c2})
=============================================================================
