---------------------------- MODULE MCRaceMarket ----------------------------
(* Instances of RaceMarket for TLC.                                        *)
EXTENDS RaceMarket, TLC

CONSTANTS b1, b2, b3, n1, n2, n3, k1, k2

Symmetry ==
  Permutations({b1, b2, b3}) \cup Permutations({n1, n2, n3}) \cup Permutations({k1, k2})
=============================================================================
