----------------------------- MODULE MCProximity -----------------------------
(* The four couples of sensors of the robot.                               *)
EXTENDS Proximity
Fast == {"fast"}
Both == {"fast", "slow"}
=============================================================================
