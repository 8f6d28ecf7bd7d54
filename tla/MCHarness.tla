----------------------------- MODULE MCHarness -----------------------------
(* Instances of Harness for TLC.                                           *)
EXTENDS Harness

MCForward == {4}
MCCap == [mode \in SpeedMode |-> CASE mode = "low" -> 1 [] mode = "medium" -> 2 [] OTHER -> 3]
=============================================================================
