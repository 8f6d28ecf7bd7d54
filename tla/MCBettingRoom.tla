--------------------------- MODULE MCBettingRoom ---------------------------
(* Instances of BettingRoom for TLC.                                       *)
EXTENDS BettingRoom, TLC

CONSTANTS h1, h2, n1

Symmetry == Permutations({h1, h2})
=============================================================================
