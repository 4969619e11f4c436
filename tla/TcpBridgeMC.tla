---------------------------- MODULE TcpBridgeMC ----------------------------
(* Instances of TcpBridge for TLC. *)
EXTENDS TcpBridge

MCDelays == {0, 2}
MCCriterion == [d \in Dirs |-> IF d = "down" THEN "cnr" ELSE "occulted"]
MCOpen == [d \in Dirs |-> "none"]
MCFaulty == Dirs
=============================================================================
