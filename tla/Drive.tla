-------------------------------- MODULE Drive --------------------------------
(***************************************************************************)
(* The motors (motors.c), the thread that avoids obstacles (behaviors.c)   *)
(* and the threads that give orders to both.  What the proximity sensors   *)
(* measure is a force that an obstacle may add to the speed of a motor.    *)
(* The counter and the phase of a motor are left out.                      *)
(***************************************************************************)
EXTENDS Integers

CONSTANTS Users, Motors,
          Speeds,       \* the speeds that are ordered
          Forces,       \* what is added to them
          Limit,        \* MOTOR_SPEED_LIMIT
          Thresv,       \* THRESV
          TimerFreq, Idle, Full,        \* MOTOR_TIMER_FREQ, 1000 and 0xFFFF
          None,
          Preempts      \* a user may run between the test and the orders of the behaviors

ASSUME SpeedsAssumption == Speeds \subseteq Int /\ 0 \in Speeds /\ Forces \subseteq Int
ASSUME LimitAssumption == {Limit, Thresv, TimerFreq, Idle, Full} \subseteq Nat \ {0}
ASSUME NoneAssumption == None \notin Int
ASSUME MotorsAssumption == Motors # {}
ASSUME PreemptsAssumption == Preempts \in BOOLEAN

VARIABLES motor,        \* desired_speed, direction, the period and the power save of the timer
          coils,        \* the motors whose coils have current
          oa_enabled, target, behaviors,
          user,         \* user[u]: where u is in a call, for which motor and speed
          order         \* the last order since the avoidance was switched

driveVars == <<motor, coils, oa_enabled, target, behaviors, user, order>>

Writing == {"desired", "direction", "save", "interval"}
Resting == [at |-> "idle", m |-> CHOOSE m \in Motors : TRUE, v |-> 0]

DriveTypeOK ==
    /\ motor \in [Motors -> [desired : -Limit..Limit, direction : {-1, 0, 1},
                             interval : Nat, save : BOOLEAN]]
    /\ coils \subseteq Motors /\ oa_enabled \in BOOLEAN
    /\ target \in [Motors -> Speeds] /\ behaviors \in {"rest", "set"}
    /\ user \in [Users -> [at : Writing \union {"idle", "decide"}, m : Motors, v : Speeds]]
    /\ order \in [Motors -> Speeds \union {None}]

DriveInit ==
    /\ motor = [m \in Motors |-> [desired |-> 0, direction |-> 0, interval |-> Full, save |-> FALSE]]
    /\ coils = {} /\ oa_enabled = FALSE
    /\ target = [m \in Motors |-> 0] /\ behaviors = "rest"
    /\ user = [u \in Users |-> Resting]
    /\ order = [m \in Motors |-> None]

-----------------------------------------------------------------------------
\* motor_set_speed
Limited(v) == IF v > Limit THEN Limit ELSE IF v < -Limit THEN -Limit ELSE v
Direction(v) == IF v > 0 THEN 1 ELSE IF v < 0 THEN -1 ELSE 0
MicroSteps(v) == 2 * (IF v < 0 THEN -v ELSE v)
PowerSave(v) == v # 0 /\ MicroSteps(v) < Thresv
Interval(v) == IF v = 0 THEN Idle ELSE TimerFreq \div MicroSteps(v)

\* A motor once motor_set_speed(v) has returned
At(v) == [desired |-> Limited(v), direction |-> Direction(Limited(v)),
          interval |-> Interval(Limited(v)), save |-> PowerSave(Limited(v))]

\* mutant: a motor at rest keeps its coils as they are
MotorStepHolds(m) ==
    /\ coils' = IF motor[m].direction = 0 THEN coils ELSE coils \union {m}
    /\ UNCHANGED <<motor, oa_enabled, target, behaviors, user, order>>

\* left_motor_timer_callback
MotorStep(m) ==
    /\ coils' = IF motor[m].direction = 0 THEN coils \ {m} ELSE coils \union {m}
    /\ UNCHANGED <<motor, oa_enabled, target, behaviors, user, order>>

\* left_motor_pwm_ch1_cb
CoilsOff(m) ==
    /\ motor[m].save /\ coils' = coils \ {m}
    /\ UNCHANGED <<motor, oa_enabled, target, behaviors, user, order>>

-----------------------------------------------------------------------------
\* mutant: the orders are given whether or not they are asked for
BehaviorsAnyway ==
    /\ behaviors = "rest" /\ behaviors' = "set"
    /\ UNCHANGED <<motor, coils, oa_enabled, target, user, order>>

\* behaviors_thd: one test, and then an order to each motor
Behaviors ==
    /\ behaviors = "rest" /\ oa_enabled /\ behaviors' = "set"
    /\ UNCHANGED <<motor, coils, oa_enabled, target, user, order>>

BehaviorsSet ==
    /\ behaviors = "set" /\ behaviors' = "rest"
    /\ \E f \in [Motors -> Forces] : motor' = [m \in Motors |-> At(target[m] + f[m])]
    /\ UNCHANGED <<coils, oa_enabled, target, user, order>>

-----------------------------------------------------------------------------
IsAt(u, step) == user[u].at = step /\ (Preempts \/ behaviors = "rest")
Goes(u, step) == user' = [user EXCEPT ![u] = IF step = "idle" THEN Resting ELSE [@ EXCEPT !.at = step]]

\* enable_obstacle_avoidance, disable_obstacle_avoidance
Switch(u) ==
    /\ IsAt(u, "idle")
    /\ oa_enabled' = ~oa_enabled /\ order' = [m \in Motors |-> None]
    /\ UNCHANGED <<motor, coils, target, behaviors, user>>

\* left_motor_set_speed
SetSpeed(u) ==
    /\ IsAt(u, "idle")
    /\ \E m \in Motors, v \in Speeds : user' = [user EXCEPT ![u] = [at |-> "decide", m |-> m, v |-> v]]
    /\ UNCHANGED <<motor, coils, oa_enabled, target, behaviors, order>>

Decide(u) ==
    LET m == user[u].m  v == user[u].v
    IN  /\ IsAt(u, "decide")
        /\ Goes(u, IF oa_enabled THEN "idle" ELSE "desired")
        /\ target' = IF oa_enabled THEN [target EXCEPT ![m] = v] ELSE target
        /\ order' = IF oa_enabled THEN order ELSE [order EXCEPT ![m] = v]
        /\ UNCHANGED <<motor, coils, oa_enabled, behaviors>>

Write(u, step, next, m) ==
    /\ IsAt(u, step) /\ Goes(u, next) /\ motor' = [motor EXCEPT ![user[u].m] = m]
    /\ UNCHANGED <<coils, oa_enabled, target, behaviors, order>>

MotorSetSpeed(u) ==
    LET v == user[u].v  m == motor[user[u].m]
    IN  \/ Write(u, "desired", "direction", [m EXCEPT !.desired = At(v).desired])
        \/ Write(u, "direction", "save", [m EXCEPT !.direction = At(v).direction])
        \/ Write(u, "save", "interval", [m EXCEPT !.save = At(v).save])
        \/ Write(u, "interval", "idle", [m EXCEPT !.interval = At(v).interval])

User(u) == Switch(u) \/ SetSpeed(u) \/ Decide(u) \/ MotorSetSpeed(u)

DriveNext ==
    \/ \E m \in Motors : MotorStep(m) \/ CoilsOff(m)
    \/ Behaviors \/ BehaviorsSet
    \/ \E u \in Users : User(u)

DriveSpec == DriveInit /\ [][DriveNext]_driveVars

\* the timer of a motor runs, and a call goes on
FairDriveSpec ==
    /\ DriveSpec
    /\ WF_driveVars(BehaviorsSet)
    /\ \A m \in Motors : WF_driveVars(MotorStep(m))
    /\ \A u \in Users : SF_driveVars(Decide(u) \/ MotorSetSpeed(u))

-----------------------------------------------------------------------------
(* Once the avoidance is off and a speed is ordered, all the parts of the  *)
(* motor agree on it, and only another order changes any of them.          *)
ObeysTheOrder ==
    \A m \in Motors :
        ~oa_enabled /\ order[m] # None /\ (\A u \in Users : user[u].m = m => user[u].at \notin Writing)
            => motor[m] = At(order[m])

DriveInv == DriveTypeOK /\ ObeysTheOrder

(* A motor that is ordered to stand, and is not ordered to move again,     *)
(* does: its coils are off in the end, with or without the power save.     *)
StandsStill ==
    \A m \in Motors : order[m] = 0 ~> m \notin coils \/ order[m] # 0
=============================================================================
