---------------------------- MODULE MCRobotLink ----------------------------
(* Instances of RobotLink for TLC.                                         *)
EXTENDS RobotLink

CONSTANTS socket, channel

MCCap == [mode \in SpeedMode |-> CASE mode = "low" -> 1 [] mode = "medium" -> 2 [] OTHER -> 4]
MCKind == [c \in Clients |-> IF c = socket THEN "ws" ELSE "webrtc"]
MCWanted == {-6, 0}
=============================================================================
