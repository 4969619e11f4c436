--------------------------- MODULE ForwardLoopMC ---------------------------
(* Instances of ForwardLoop for TLC. *)
EXTENDS ForwardLoop

MCDelays == {0, 2}
MCCriterion == [d \in Directions |-> IF d = "uplink" THEN "occulted" ELSE "cnr"]
MCDelayOn == [d \in Directions |-> IF d = "uplink" THEN "unset" ELSE "on"]
MCResolvable == Dest \ {"gsw2_tlm"}
=============================================================================
