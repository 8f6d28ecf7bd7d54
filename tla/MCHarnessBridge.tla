-------------------------- MODULE MCHarnessBridge --------------------------
(* Instances of HarnessBridge for TLC.                                     *)
EXTENDS HarnessBridge

CONSTANT p1

MCFrames ==
  [channel : {"drive"}, command : [token : {p1}, mode : {"low"}, moves : BOOLEAN]]
  \cup [channel : {"drive"}, command : [token : {p1}, mode : {"high"}, moves : {TRUE}]]
  \cup [channel : {"camera"}, command : [token : {p1}, mode : {"low"}, moves : {TRUE}]]
=============================================================================
