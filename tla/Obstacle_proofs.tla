---------------------------- MODULE Obstacle_proofs ----------------------------
(***************************************************************************)
(* Proofs about the obstacles: how they are measured and what they do to   *)
(* the motors.                                                             *)
(***************************************************************************)
EXTENDS Proximity, Drive, FiniteSetTheorems, TLAPS

-----------------------------------------------------------------------------
(* Proximity, for any number of couples and of samples: ProximityInv is    *)
(* inductive, and the properties follow from it.                           *)

\* A remainder is below its divisor.
LEMMA Remainder == ASSUME NEW n \in Nat \ {0}, NEW a \in Nat PROVE a % n \in 0..(n - 1)
  BY SMT

LEMMA AtMostOne == ASSUME NEW x PROVE Cardinality({}) <= 1 /\ Cardinality({x}) <= 1
<1>1. Cardinality({}) = 0
  BY FS_EmptySet
<1>2. Cardinality({x}) = 1
  BY FS_Singleton
<1> QED BY <1>1, <1>2

LEMMA InvInit == Init => ProximityInv
<1> SUFFICES ASSUME Init PROVE ProximityInv
  OBVIOUS
<1>1. TypeOK
  <2>1. 0 \in 0..(2 * Couples) /\ 0 \in 0..(2 * Couples - 1) /\ 0 \in 0..CalSamples
    BY CouplesAssumption, CalSamplesAssumption
  <2>2. calibration \in [inProgress : BOOLEAN, state : {0, 1}, samples : 0..CalSamples]
    BY <2>1 DEF Init
  <2>3. lit \subseteq 1..Couples /\ {mode, period} \subseteq {"fast", "slow"}
    BY DEF Init
  <2>4. right \in BOOLEAN /\ adc2_ready \in BOOLEAN /\ terminate \in BOOLEAN
    BY DEF Init
  <2> QED BY <2>1, <2>2, <2>3, <2>4 DEF Init, TypeOK, Measures
<1>2. OneEmitter
  BY FS_EmptySet DEF Init, OneEmitter
<1>3. InStep /\ CallsAgree
  BY DEF Init, InStep, CallsAgree
<1> QED BY <1>1, <1>2, <1>3 DEF ProximityInv

LEMMA InvReset == ASSUME ProximityInv, Reset PROVE ProximityInv'
<1> USE DEF ProximityInv
<1>1. NextPulse \in 0..(2 * Couples)
  <2>1. pulseSeqState % (2 * Couples) \in 0..(2 * Couples - 1)
    BY Remainder, CouplesAssumption DEF TypeOK
  <2> QED BY <2>1, CouplesAssumption DEF NextPulse
<1>2. lit = {}
  BY DEF Reset, OneEmitter
<1>3. lit' = IF pulseSeqState > 0 /\ pulseSeqState % 2 = 0 THEN {pulseSeqState \div 2} ELSE {}
  BY <1>2 DEF Reset
<1>4. lit' \subseteq 1..Couples
  BY <1>3, CouplesAssumption DEF TypeOK
<1>5. TypeOK'
  BY <1>1, <1>4 DEF TypeOK, Reset, sampling, config
<1>6. OneEmitter'
  BY <1>3, AtMostOne DEF OneEmitter, Reset
<1>7. ASSUME rounds > 0 PROVE lit' = Own /\ pulseSeqState' = ((position + 1) % (2 * Couples)) + 1
  <2>1. pulseSeqState = position + 1 /\ position \in Nat
    BY <1>7 DEF Reset, InStep, TypeOK
  <2>2. pulseSeqState' = ((position + 1) % (2 * Couples)) + 1
    BY <2>1, SMT DEF Reset, NextPulse
  <2>3. lit' = Own
    BY <1>3, <2>1, SMT DEF Own
  <2> QED BY <2>2, <2>3
<1>8. InStep'
  BY <1>7 DEF InStep, Reset, sampling, Own
<1>9. CallsAgree'
  BY DEF CallsAgree, Reset, config
<1> QED BY <1>5, <1>6, <1>8, <1>9

LEMMA InvSample == ASSUME ProximityInv, Sample PROVE ProximityInv'
<1> USE DEF ProximityInv
<1> DEFINE next == (position + 1) % (2 * Couples)
<1>1. next \in 0..(2 * Couples - 1)
  BY Remainder, CouplesAssumption DEF TypeOK
<1>2. position' = next
  BY DEF Sample
<1>3. rounds > 0 => Rights /\ pulseSeqState = next + 1
  BY DEF Sample, InStep, Rights
<1> HIDE DEF next
<1>4. TypeOK'
  <2>1. pulseSeqState' \in 0..(2 * Couples) /\ position' \in 0..(2 * Couples - 1)
    BY <1>1, <1>2, CouplesAssumption DEF TypeOK, Sample
  <2>2. right' \in BOOLEAN /\ adc2_ready' \in BOOLEAN
    BY DEF TypeOK, Sample, Rights
  <2>3. values' \in Measures /\ rounds' \in 0..2
    BY DEF TypeOK, Sample, Measures
  <2> QED BY <2>1, <2>2, <2>3 DEF TypeOK, Sample, config
<1>5. OneEmitter'
  BY DEF OneEmitter, Sample
<1>6. InStep'
  <2>1. rounds \in 0..2
    BY DEF TypeOK
  <2>2. CASE next = 0
    <3>1. pulseSeqState' = 1 /\ right' = TRUE /\ timer' = "channel1" /\ position' = 0
      BY <1>2, <2>2 DEF Sample
    <3>2. rounds' = 2 => values' = "right"
      BY <1>2, <1>3, <2>1, <2>2 DEF Sample
    <3> QED BY <3>1, <3>2 DEF InStep
  <2>3. CASE next # 0
    <3>1. pulseSeqState' = pulseSeqState /\ rounds' = rounds /\ timer' = "channel1"
          /\ values' = values /\ right' = Rights
      BY <1>2, <2>3 DEF Sample
    <3> QED BY <1>2, <1>3, <3>1 DEF InStep
  <2> QED BY <2>2, <2>3
<1>7. CallsAgree'
  BY DEF CallsAgree, Sample, config
<1> QED BY <1>4, <1>5, <1>6, <1>7
LEMMA InvChannel1 == ASSUME ProximityInv, Channel1 PROVE ProximityInv'
<1> USE DEF ProximityInv, Channel1
<1>1. TypeOK'
  BY DEF TypeOK, sampling, config
<1>2. OneEmitter'
  BY FS_EmptySet DEF OneEmitter
<1>3. InStep'
  BY DEF InStep, sampling
<1>4. CallsAgree'
  BY DEF CallsAgree, config
<1> QED BY <1>1, <1>2, <1>3, <1>4

\* Nothing but the thread, its calibration and the place of a call changes
LEMMA InvThread == ASSUME ProximityInv, Thread PROVE ProximityInv'
<1> USE DEF ProximityInv
<1>1. CASE Loop
  BY <1>1 DEF Loop, TypeOK, OneEmitter, InStep, CallsAgree, Own, pulses, sampling, config
<1>2. CASE Wait
  BY <1>2 DEF Wait, TypeOK, OneEmitter, InStep, CallsAgree, Own, pulses, config
<1>3. CASE Publish
  <2> USE <1>3 DEF Publish
  <2> DEFINE c == Calibrated(calibration)
  <2>0. /\ calibration = [inProgress |-> calibration.inProgress, state |-> calibration.state,
                           samples |-> calibration.samples]
        /\ calibration.inProgress \in BOOLEAN /\ calibration.state \in {0, 1}
        /\ calibration.samples \in 0..CalSamples
    BY DEF TypeOK
  <2>1. /\ c \in [inProgress : BOOLEAN, state : {0, 1}, samples : 0..CalSamples]
        /\ c.inProgress /\ c.state = 1 => c.samples < CalSamples
    <3>1. CASE ~calibration.inProgress
      BY <2>0, <3>1 DEF Calibrated
    <3>2. CASE calibration.inProgress /\ calibration.state = 0
      <4>1. c = [inProgress |-> calibration.inProgress, state |-> 1, samples |-> 0]
        BY <2>0, <3>2 DEF Calibrated
      <4> QED BY <2>0, <4>1, CalSamplesAssumption
    <3>3. CASE calibration.inProgress /\ calibration.state = 1
      <4> DEFINE n == calibration.samples + 1
      <4>1. n \in 1..CalSamples
        BY <2>0, <3>3, CalSamplesAssumption DEF CallsAgree
      <4>2. CASE n = CalSamples
        <5>1. c = [inProgress |-> FALSE, state |-> 1, samples |-> CalSamples]
          BY <2>0, <3>3, <4>2 DEF Calibrated
        <5> HIDE DEF n
        <5> QED BY <4>1, <5>1, CalSamplesAssumption
      <4>3. CASE n # CalSamples
        <5>1. c = [calibration EXCEPT !.samples = n]
          <6>1. ~(calibration.state = 0)
            BY <3>3
          <6> QED BY <3>3, <4>3, <6>1, Zenon DEF Calibrated
        <5> HIDE DEF c, n
        <5>2. c \in [inProgress : BOOLEAN, state : {0, 1}, samples : 0..CalSamples]
          BY <4>1, <5>1, CalSamplesAssumption DEF TypeOK
        <5>3. c.samples = n
          BY <2>0, <5>1
        <5> QED BY <4>1, <4>3, <5>2, <5>3, CalSamplesAssumption
      <4> QED BY <4>2, <4>3
    <3> QED BY <2>0, <3>1, <3>2, <3>3
  <2>2. ~calibration.inProgress => c = calibration
    BY DEF Calibrated
  <2>3. calibration' = c
    OBVIOUS
  <2> HIDE DEF c
  <2>4. CallsAgree'
    BY <2>1, <2>2, <2>3 DEF CallsAgree, pulses, config
  <2>5. TypeOK'
    BY <2>1, <2>3 DEF TypeOK, pulses, sampling, config
  <2>6. OneEmitter' /\ InStep'
    BY DEF OneEmitter, InStep, Own, pulses, sampling
  <2> QED BY <2>4, <2>5, <2>6
<1> QED BY <1>1, <1>2, <1>3 DEF Thread

LEMMA InvStart == ASSUME ProximityInv, ProximityStart PROVE ProximityInv'
<1> USE DEF ProximityInv, ProximityStart
<1>1. TypeOK'
  BY CouplesAssumption, ModesAssumption DEF TypeOK
<1>2. OneEmitter' /\ InStep' /\ CallsAgree'
  BY DEF OneEmitter, InStep, CallsAgree
<1> QED BY <1>1, <1>2

LEMMA InvStopEnds == ASSUME ProximityInv, StopEnds PROVE ProximityInv'
<1> USE DEF ProximityInv, StopEnds
<1>1. TypeOK'
  BY DEF TypeOK, sampling, config
<1>2. OneEmitter'
  BY FS_EmptySet DEF OneEmitter
<1>3. InStep' /\ CallsAgree'
  BY DEF InStep, CallsAgree, sampling
<1> QED BY <1>1, <1>2, <1>3

\* The steps that change only calibration, terminate and main
LEMMA InvCall ==
    ASSUME ProximityInv, StopBegins \/ CalibrationState \/ CalibrationBegins \/ CalibrationEnds
    PROVE  ProximityInv'
<1> USE DEF ProximityInv
<1>1. OneEmitter' /\ InStep'
  BY DEF StopBegins, CalibrationState, CalibrationBegins, CalibrationEnds, Calibrates,
         OneEmitter, InStep, Own, pulses, sampling
<1>2. calibration' \in [inProgress : BOOLEAN, state : {0, 1}, samples : 0..CalSamples]
  BY DEF StopBegins, CalibrationState, CalibrationBegins, CalibrationEnds, TypeOK
<1>3. TypeOK'
  BY <1>2 DEF StopBegins, CalibrationState, CalibrationBegins, CalibrationEnds, Calibrates,
         TypeOK, pulses, sampling, config
<1>4. CallsAgree'
  BY DEF StopBegins, CalibrationState, CalibrationBegins, CalibrationEnds, Calibrates,
         TypeOK, CallsAgree, pulses
<1> QED BY <1>1, <1>3, <1>4

LEMMA InvNext == ASSUME ProximityInv, [Next]_vars PROVE ProximityInv'
<1>1. CASE Timer
  BY <1>1, InvReset, InvSample, InvChannel1 DEF Timer
<1>2. CASE Thread
  BY <1>2, InvThread
<1>3. CASE ProximityStart
  BY <1>3, InvStart
<1>4. CASE StopBegins \/ CalibrationState \/ CalibrationBegins \/ CalibrationEnds
  BY <1>4, InvCall
<1>5. CASE StopEnds
  BY <1>5, InvStopEnds
<1>6. CASE UNCHANGED vars
  BY <1>6 DEF vars, ProximityInv, TypeOK, OneEmitter, InStep, CallsAgree, Own, pulses, sampling, config
<1> QED BY <1>1, <1>2, <1>3, <1>4, <1>5, <1>6 DEF Next, Calls

-----------------------------------------------------------------------------
(* The emitters, the pulses, the ADC and the calls agree in every state,   *)
(* whatever the number of couples: two emitters are never lit at once and  *)
(* none is left lit by proximity_stop.                                     *)
THEOREM InvariantTheorem == Spec => []ProximityInv
<1>1. Init => ProximityInv
  BY InvInit
<1>2. ProximityInv /\ [Next]_vars => ProximityInv'
  BY InvNext
<1> QED BY <1>1, <1>2, PTL DEF Spec

(* From the second sequence after a start on, every measure that           *)
(* proximity_thd publishes is right, however the pulses were when the      *)
(* sampling was started: adc_cb brings them in step.                       *)
THEOREM MeasuresTheorem == Spec => MeasuresAreRight
<1>1. ASSUME ProximityInv, [Next]_vars, thread = "publish", thread' = "loop", rounds = 2
      PROVE  delta' = "right"
  <2>2. CASE Publish
    BY <1>1, <2>2 DEF Publish, ProximityInv, InStep
  <2>3. CASE ~Publish
    BY <1>1, <2>3 DEF ProximityInv, CallsAgree, Next, Timer, Thread, Calls, Reset, Sample, Channel1, Loop, Wait, ProximityStart,
          StopBegins, StopEnds, CalibrationState, CalibrationBegins, CalibrationEnds, Calibrates, vars
  <2> QED BY <2>2, <2>3
<1>2. ProximityInv /\ [Next]_vars
        => [thread = "publish" /\ thread' = "loop" /\ rounds = 2 => delta' = "right"]_vars
  BY <1>1
<1> QED BY <1>2, InvariantTheorem, PTL DEF Spec, MeasuresAreRight

-----------------------------------------------------------------------------
(* DriveInv for any motors, speeds and forces, where one user at a time    *)
(* gives orders and a pass of the obstacle avoidance is not interrupted.   *)

Motion == [desired : -Limit..Limit, direction : {-1, 0, 1}, interval : Nat, save : BOOLEAN]

\* A call has written the parts of the motor that lie behind it.
Written(m, at, v) ==
    /\ at \in {"direction", "save", "interval"} => motor[m].desired = At(v).desired
    /\ at \in {"save", "interval"} => motor[m].direction = At(v).direction
    /\ at = "interval" => motor[m].save = At(v).save

\* A call that writes has found the avoidance off, and keeps it so.
WritingInv ==
    \A u \in Users : user[u].at \in Writing =>
        /\ ~oa_enabled /\ behaviors = "rest" /\ order[user[u].m] = user[u].v
        /\ Written(user[u].m, user[u].at, user[u].v)

Inv == DriveTypeOK /\ ObeysTheOrder /\ WritingInv /\ (behaviors = "set" => oa_enabled)

LEMMA Quotient ==
    ASSUME NEW n \in Nat, NEW d \in Nat, d > 0
    PROVE  n \div d \in Nat
BY SMT

LEMMA AtType ==
    ASSUME NEW v \in Int
    PROVE  At(v) \in Motion
<1> DEFINE w == Limited(v)
<1>1. w \in Int /\ w \in -Limit..Limit
  BY LimitAssumption DEF Limited
<1>2. Direction(w) \in {-1, 0, 1}
  BY DEF Direction
<1>3. MicroSteps(w) \in Nat /\ (w # 0 => MicroSteps(w) > 0)
  BY <1>1 DEF MicroSteps
<1>4. Interval(w) \in Nat
  <2>1. CASE w = 0
    BY <2>1, LimitAssumption DEF Interval
  <2>2. CASE w # 0
    <3>1. TimerFreq \div MicroSteps(w) \in Nat
      BY <1>3, <2>2, Quotient, LimitAssumption
    <3> QED BY <3>1, <2>2 DEF Interval
  <2> QED BY <2>1, <2>2
<1>5. PowerSave(w) \in BOOLEAN
  BY DEF PowerSave
<1> HIDE DEF w
<1> QED BY <1>1, <1>2, <1>4, <1>5 DEF At, Motion, w

LEMMA DriveInitKeeps ==
    ASSUME DriveInit
    PROVE  Inv
<1>1. Resting \in [at : {"idle"}, m : Motors, v : Speeds]
  BY MotorsAssumption, SpeedsAssumption DEF Resting
<1>2. DriveTypeOK
  <2>1. \A u \in Users : user[u] = Resting
    BY DEF DriveInit
  <2>2. user \in [Users -> [at : Writing \union {"idle", "decide"}, m : Motors, v : Speeds]]
    BY <1>1 DEF DriveInit
  <2>3. motor \in [Motors -> Motion]
    BY LimitAssumption DEF DriveInit, Motion
  <2> QED BY <2>2, <2>3, SpeedsAssumption DEF DriveInit, DriveTypeOK, Motion
<1>3. \A u \in Users : user[u].at = "idle"
  BY <1>1 DEF DriveInit
<1>4. WritingInv
  BY <1>3 DEF WritingInv, Writing
<1>5. ObeysTheOrder
  BY DEF DriveInit, ObeysTheOrder
<1> QED BY <1>2, <1>4, <1>5 DEF Inv, DriveInit

LEMMA InvInterrupt ==
    ASSUME Inv, NEW m \in Motors, MotorStep(m) \/ CoilsOff(m)
    PROVE  Inv'
<1>1. UNCHANGED <<motor, oa_enabled, target, behaviors, user, order>> /\ coils' \subseteq Motors
  BY DEF Inv, DriveTypeOK, MotorStep, CoilsOff
<1> QED BY <1>1 DEF Inv, DriveTypeOK, ObeysTheOrder, WritingInv, Written

LEMMA InvBehaviors ==
    ASSUME Inv, Behaviors \/ BehaviorsSet
    PROVE  Inv'
<1>1. CASE Behaviors
  <2>1. \A u \in Users : user[u].at \notin Writing
    BY <1>1 DEF Inv, WritingInv, Behaviors
  <2> QED BY <1>1, <2>1 DEF Inv, DriveTypeOK, ObeysTheOrder, WritingInv, Behaviors
<1>2. CASE BehaviorsSet
  <2>1. PICK f \in [Motors -> Forces] : motor' = [m \in Motors |-> At(target[m] + f[m])]
    BY <1>2 DEF BehaviorsSet
  <2>2. \A m \in Motors : target[m] + f[m] \in Int
    <3> TAKE m \in Motors
    <3>1. f[m] \in Forces /\ target[m] \in Speeds
      BY <2>1 DEF Inv, DriveTypeOK
    <3>2. f[m] \in Int /\ target[m] \in Int
      BY <3>1, SpeedsAssumption
    <3> QED BY <3>2
  <2>3. motor' \in [Motors -> Motion]
    BY <2>1, <2>2, AtType
  <2>4. oa_enabled /\ oa_enabled'
    BY <1>2 DEF Inv, BehaviorsSet
  <2>5. DriveTypeOK'
    BY <1>2, <2>3 DEF Inv, DriveTypeOK, BehaviorsSet, Motion
  <2>6. \A u \in Users : user'[u].at \notin Writing
    BY <1>2, <2>4 DEF Inv, WritingInv, BehaviorsSet
  <2> QED BY <1>2, <2>4, <2>5, <2>6 DEF Inv, ObeysTheOrder, WritingInv, BehaviorsSet
<1> QED BY <1>1, <1>2

\* The step of a call: the user alone moves.
LEMMA DriveCallKeeps ==
    ASSUME Inv, ~Preempts, NEW u \in Users, Users = {u}, Switch(u) \/ SetSpeed(u) \/ Decide(u)
    PROVE  Inv'
<1>1. CASE Switch(u)
  <2>1. \A w \in Users : user'[w].at \notin Writing
    BY <1>1 DEF Switch, IsAt, Writing
  <2>2. DriveTypeOK'
    BY <1>1 DEF Inv, DriveTypeOK, Switch
  <2>3. ObeysTheOrder'
    BY <1>1 DEF Switch, ObeysTheOrder
  <2>4. behaviors' = "rest"
    BY <1>1 DEF Switch, IsAt
  <2> QED BY <2>1, <2>2, <2>3, <2>4 DEF Inv, WritingInv
<1>2. CASE SetSpeed(u)
  <2>1. PICK m \in Motors, v \in Speeds : user' = [user EXCEPT ![u] = [at |-> "decide", m |-> m, v |-> v]]
    BY <1>2 DEF SetSpeed
  <2>2. user'[u].at = "decide" /\ user[u].at = "idle"
    BY <1>2, <2>1 DEF SetSpeed, IsAt, Inv, DriveTypeOK
  <2>3. DriveTypeOK'
    BY <1>2, <2>1 DEF Inv, DriveTypeOK, SetSpeed
  <2>4. ObeysTheOrder'
    BY <1>2, <2>2 DEF Inv, ObeysTheOrder, SetSpeed, Writing
  <2>5. WritingInv'
    BY <2>2 DEF WritingInv, Writing
  <2> QED BY <1>2, <2>3, <2>4, <2>5 DEF Inv, SetSpeed
<1>3. CASE Decide(u)
  <2> DEFINE m == user[u].m  v == user[u].v
  <2>1. m \in Motors /\ v \in Speeds /\ behaviors = "rest" /\ user[u].at = "decide"
    BY <1>3 DEF Decide, IsAt, Inv, DriveTypeOK
  <2>2. CASE oa_enabled
    <3>1. user'[u] = Resting /\ target' = [target EXCEPT ![m] = v] /\ order' = order /\ oa_enabled'
      BY <1>3, <2>2 DEF Decide, Goes, Inv, DriveTypeOK
    <3>2. Resting \in [at : {"idle"}, m : Motors, v : Speeds]
      BY MotorsAssumption, SpeedsAssumption DEF Resting
    <3>3. DriveTypeOK'
      <4>1. user' \in [Users -> [at : Writing \union {"idle", "decide"}, m : Motors, v : Speeds]]
        BY <1>3, <2>2, <3>2 DEF Decide, Goes, Inv, DriveTypeOK
      <4>2. target' \in [Motors -> Speeds]
        BY <2>1, <3>1 DEF Inv, DriveTypeOK
      <4> QED BY <1>3, <3>1, <4>1, <4>2 DEF Decide, Inv, DriveTypeOK
    <3>4. user'[u].at = "idle"
      BY <3>1, <3>2
    <3> QED BY <1>3, <3>1, <3>3, <3>4 DEF Decide, Inv, ObeysTheOrder, WritingInv, Writing
  <2>3. CASE ~oa_enabled
    <3>1. /\ user' = [user EXCEPT ![u] = [@ EXCEPT !.at = "desired"]]
          /\ order' = [order EXCEPT ![m] = v]
          /\ UNCHANGED <<target, motor, coils, oa_enabled, behaviors>>
      BY <1>3, <2>3 DEF Decide, Goes
    <3>2. user'[u].at = "desired" /\ user'[u].m = m /\ user'[u].v = v
      BY <3>1 DEF Inv, DriveTypeOK
    <3>3. DriveTypeOK'
      BY <2>1, <3>1 DEF Inv, DriveTypeOK, Writing
    <3>4. order'[m] = v
      BY <2>1, <3>1 DEF Inv, DriveTypeOK
    <3>5. WritingInv'
      BY <2>1, <2>3, <3>1, <3>2, <3>4 DEF WritingInv, Written
    <3>6. ObeysTheOrder'
      <4> SUFFICES ASSUME NEW n \in Motors, n # m, order'[n] # None
                   PROVE  motor'[n] = At(order'[n])
        BY <3>2 DEF ObeysTheOrder, Writing
      <4>1. order'[n] = order[n] /\ motor'[n] = motor[n]
        BY <3>1 DEF Inv, DriveTypeOK
      <4> QED BY <2>1, <2>3, <4>1 DEF Inv, ObeysTheOrder, Writing
    <3> QED BY <2>1, <3>1, <3>3, <3>5, <3>6 DEF Inv
  <2> QED BY <2>2, <2>3
<1> QED BY <1>1, <1>2, <1>3
\* A part of a motor is written.
LEMMA InvWrite ==
    ASSUME Inv, ~Preempts, NEW u \in Users, Users = {u}, MotorSetSpeed(u)
    PROVE  Inv'
<1>0. PICK m \in Motors, v \in Speeds : m = user[u].m /\ v = user[u].v
  BY DEF Inv, DriveTypeOK
<1>1. At(v) \in Motion /\ motor[m] \in Motion
  BY SpeedsAssumption, AtType DEF Inv, DriveTypeOK, Motion
<1>2. user[u].at \in Writing /\ UNCHANGED <<coils, oa_enabled, target, behaviors, order>>
  BY DEF MotorSetSpeed, Write, IsAt, Writing
<1>3. ~oa_enabled /\ behaviors = "rest" /\ order[m] = v /\ Written(m, user[u].at, v)
  BY <1>0, <1>2 DEF Inv, WritingInv
<1> DEFINE Keeps(next, new) ==
       /\ new \in Motion /\ motor' = [motor EXCEPT ![m] = new]
       /\ \/ /\ next \in Writing /\ user' = [user EXCEPT ![u] = [@ EXCEPT !.at = next]]
             /\ next \in {"direction", "save", "interval"} => new.desired = At(v).desired
             /\ next \in {"save", "interval"} => new.direction = At(v).direction
             /\ next = "interval" => new.save = At(v).save
          \/ next = "idle" /\ user' = [user EXCEPT ![u] = Resting] /\ new = At(v)
<1>4. \E next \in Writing \union {"idle"} : \E new \in Motion : Keeps(next, new)
  <2>1. CASE Write(u, "desired", "direction", [motor[m] EXCEPT !.desired = At(v).desired])
    <3>1. Keeps("direction", [motor[m] EXCEPT !.desired = At(v).desired])
      BY <1>0, <2>1, <1>1 DEF Write, Goes, Writing, Motion
    <3> QED BY <3>1 DEF Writing
  <2>2. CASE Write(u, "direction", "save", [motor[m] EXCEPT !.direction = At(v).direction])
    <3>1. Keeps("save", [motor[m] EXCEPT !.direction = At(v).direction])
      BY <1>0, <2>2, <1>1, <1>3 DEF Write, Goes, Writing, Motion, IsAt, Written
    <3> QED BY <3>1 DEF Writing
  <2>3. CASE Write(u, "save", "interval", [motor[m] EXCEPT !.save = At(v).save])
    <3>1. Keeps("interval", [motor[m] EXCEPT !.save = At(v).save])
      BY <1>0, <2>3, <1>1, <1>3 DEF Write, Goes, Writing, Motion, IsAt, Written
    <3> QED BY <3>1 DEF Writing
  <2>4. CASE Write(u, "interval", "idle", [motor[m] EXCEPT !.interval = At(v).interval])
    <3>1. [motor[m] EXCEPT !.interval = At(v).interval] = At(v)
      BY <1>0, <2>4, <1>1, <1>3 DEF Write, Motion, IsAt, Written
    <3>2. Keeps("idle", At(v))
      BY <1>0, <2>4, <3>1, <1>1 DEF Write, Goes
    <3> QED BY <3>2, <1>1
  <2> QED BY <1>0, <2>1, <2>2, <2>3, <2>4 DEF MotorSetSpeed
<1>5. PICK next \in Writing \union {"idle"}, new \in Motion : Keeps(next, new)
  BY <1>4
<1>6. motor'[m] = new /\ \A n \in Motors : n # m => motor'[n] = motor[n]
  BY <1>1, <1>5 DEF Inv, DriveTypeOK
<1>7. motor' \in [Motors -> Motion]
  BY <1>1, <1>5 DEF Inv, DriveTypeOK, Motion
<1>8. CASE next \in Writing
  <2>1. user' = [user EXCEPT ![u] = [@ EXCEPT !.at = next]]
    BY <1>5, <1>8 DEF Writing
  <2>2. user'[u].at = next /\ user'[u].m = m /\ user'[u].v = v
    BY <1>0, <2>1 DEF Inv, DriveTypeOK
  <2>3. DriveTypeOK'
    <3>1. user' \in [Users -> [at : Writing \union {"idle", "decide"}, m : Motors, v : Speeds]]
      BY <2>1, <1>8 DEF Inv, DriveTypeOK
    <3> QED BY <3>1, <1>2, <1>7 DEF Inv, DriveTypeOK, Motion
  <2>5. Written(m, next, v)'
    BY <1>5, <1>6, <1>8 DEF Written, Writing
  <2>6. WritingInv'
    BY <1>2, <1>3, <2>2, <2>5 DEF WritingInv
  <2>7. ObeysTheOrder'
    <3> SUFFICES ASSUME NEW n \in Motors, n # m, order[n] # None
                 PROVE  motor[n] = At(order[n])
      BY <1>2, <1>6, <1>8, <2>2 DEF ObeysTheOrder
    <3> QED BY <1>0, <1>3 DEF Inv, ObeysTheOrder
  <2> QED BY <1>2, <2>3, <2>6, <2>7 DEF Inv
<1>9. CASE next = "idle"
  <2>1. user' = [user EXCEPT ![u] = Resting] /\ new = At(v)
    BY <1>5, <1>9 DEF Writing
  <2>2. Resting \in [at : {"idle"}, m : Motors, v : Speeds]
    BY MotorsAssumption, SpeedsAssumption DEF Resting
  <2>3. user'[u].at = "idle"
    BY <2>1, <2>2 DEF Inv, DriveTypeOK
  <2>4. DriveTypeOK'
    <3>1. user' \in [Users -> [at : Writing \union {"idle", "decide"}, m : Motors, v : Speeds]]
      BY <2>1, <2>2 DEF Inv, DriveTypeOK
    <3> QED BY <3>1, <1>2, <1>7 DEF Inv, DriveTypeOK, Motion
  <2>5. WritingInv'
    BY <2>3 DEF WritingInv, Writing
  <2>6. ObeysTheOrder'
    <3> SUFFICES ASSUME NEW n \in Motors, order[n] # None
                 PROVE  motor'[n] = At(order[n])
      BY <1>2 DEF ObeysTheOrder
    <3>1. CASE n = m
      BY <3>1, <1>3, <1>6, <2>1
    <3>2. CASE n # m
      BY <3>2, <1>0, <1>3, <1>6 DEF Inv, ObeysTheOrder
    <3> QED BY <3>1, <3>2
  <2> QED BY <1>2, <2>4, <2>5, <2>6 DEF Inv
<1> QED BY <1>5, <1>8, <1>9

LEMMA DriveNextKeeps ==
    ASSUME Inv, ~Preempts, NEW one, Users = {one}, [DriveNext]_driveVars
    PROVE  Inv'
<1>1. CASE \E m \in Motors : MotorStep(m) \/ CoilsOff(m)
  BY <1>1, InvInterrupt
<1>2. CASE Behaviors \/ BehaviorsSet
  BY <1>2, InvBehaviors
<1>3. CASE \E u \in Users : User(u)
  BY <1>3, DriveCallKeeps, InvWrite DEF User
<1>4. CASE UNCHANGED driveVars
  BY <1>4 DEF driveVars, Inv, DriveTypeOK, ObeysTheOrder, WritingInv, Written
<1> QED BY <1>1, <1>2, <1>3, <1>4 DEF DriveNext

(* With one user, whose calls are not interrupted by a pass of the         *)
(* avoidance (motors.c:298, behaviors.c:55), DriveInv holds for any        *)
(* motors, speeds and forces: once the avoidance is off, the direction,    *)
(* the power save and the period of a motor are those of the last order.   *)
THEOREM DriveTheorem ==
    ASSUME ~Preempts, NEW one, Users = {one}
    PROVE  DriveSpec => []DriveInv
<1>1. DriveInit => Inv
  BY DriveInitKeeps
<1>2. Inv /\ [DriveNext]_driveVars => Inv'
  BY DriveNextKeeps
<1>3. Inv => DriveInv
  BY DEF Inv, DriveInv
<1> QED BY <1>1, <1>2, <1>3, PTL DEF DriveSpec
================================================================================
