---------------------------- MODULE MCRaceEscrow ----------------------------
(* Instances of RaceEscrow for TLC.                                        *)
EXTENDS RaceEscrow, TLC

CONSTANTS d1, d2

DriverSymmetry == Permutations({d1, d2})
=============================================================================
