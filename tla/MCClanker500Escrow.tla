------------------------- MODULE MCClanker500Escrow -------------------------
(* Instances of Clanker500Escrow for TLC.                                  *)
EXTENDS Clanker500Escrow, TLC

CONSTANTS d1, d2

DriverSymmetry == Permutations({d1, d2})
=============================================================================
