------------------------------- MODULE MCDrive -------------------------------
(* Two motors, a slow speed, one beyond the limit, and an obstacle that    *)
(* turns it round.                                                         *)
EXTENDS Drive
CONSTANTS u1, u2, left, right
OneUser == {u1}
TwoUsers == {u1, u2}
MCMotors == {left, right}
MCSpeeds == {-3, 0, 1}
MCForces == {0, 4}
=============================================================================
