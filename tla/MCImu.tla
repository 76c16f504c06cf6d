-------------------------------- MODULE MCImu --------------------------------
(* Two axes, filters of two samples and, before the first call has set its *)
(* size, of none; a count of three values.                                 *)
EXTENDS Imu
CONSTANTS c1, c2
OneCaller == {c1}
TwoCallers == {c1, c2}
MCUsers == {imu, ground}
MCAttempts == [u \in Users |-> IF u = imu THEN 2 ELSE 1]
MCAxes == 0..1
MCSizes == {2}
OneSensor == {"acc"}
=============================================================================
