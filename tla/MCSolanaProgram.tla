-------------------------- MODULE MCSolanaProgram --------------------------
(* Instances of SolanaProgram for TLC.  Driver d1 has two token accounts.  *)
EXTENDS SolanaProgram, TLC

CONSTANTS d1, d2, a1, a2, a3, b1, b2, b3, n1, n2, n3, f1, f2, j1

TwoAccounts == (a1 :> d1) @@ (a2 :> d1) @@ (a3 :> d2)

Symmetry == Permutations({b1, b2, b3}) \cup Permutations({n1, n2, n3}) \cup Permutations({a1, a2})
            \cup Permutations({f1, f2})
=============================================================================
