--------------------------------- MODULE Imu ---------------------------------
(***************************************************************************)
(* The thread that reads the IMU (sensors/imu.c), the threads that ask it  *)
(* for the average of an axis or for a calibration, and the thread of the  *)
(* ground sensors (sensors/ground.c) on the same bus.                      *)
(*                                                                         *)
(* The accelerometer and the gyroscope have the same filter, of which a    *)
(* record has the variables.  The sum of a filter has the number of values *)
(* that were read for it and the axes they are of: the sample of a read    *)
(* that failed is an earlier value, counted in samples and not in new.     *)
(***************************************************************************)
EXTENDS I2cBus

CONSTANTS imu, ground, Callers, Sensors, Axes,
          Sizes,        \* the filter sizes that are asked for
          CalSize,      \* 50, the filter size of a calibration
          Range,        \* 2^8: NumSamples is a uint8_t
          Stops,        \* imu_stop is called, and imu_start again
          Overlaps      \* imu_start may meet a restart of the bus

ASSUME UsersAssumption == Users = {imu, ground} /\ imu # ground
ASSUME SizesAssumption == Sizes \union {CalSize} \subseteq 0..(Range - 1)
ASSUME SensorsAssumption == Sensors # {} /\ Range \in Nat
ASSUME BooleansAssumption == {Stops, Overlaps} \subseteq BOOLEAN

VARIABLES filter,       \* filter[s]: AxisFilteringInProgress, ..State, AxisSelected, ...
          filtered,
          offset,       \* 0, or FALSE, until a calibration sets it
          imu_configured, terminate,
          pc, call,     \* the callers: where each is and what it asked for
          \* history, of the callers since each made its call
          raced,        \* the thread ran while it set the filter up
          missed        \* a read failed, in a call that was not raced

calls == <<pc, call, raced, missed>>
vars == <<i2c, filter, filtered, offset, imu_configured, terminate, calls>>

LastAxis == CHOOSE a \in Axes : \A b \in Axes : b <= a

ASSUME AxesAssumption == LastAxis \in Nat /\ Axes = 0..LastAxis

NoSum == [new |-> 0, axes |-> {}]
Sums == [new : Nat, axes : SUBSET Axes]
Call == [sensor : Sensors, axis : Axes, size : Sizes \union {CalSize}, calibrates : BOOLEAN]
NoCall == CHOOSE k \in Call : TRUE

TypeOK ==
    /\ I2cTypeOK
    /\ filter \in [Sensors ->
           [inProgress : BOOLEAN, state : {0, 1}, axis : Axes, size : 0..(Range - 1),
            calibration : BOOLEAN, samples : 0..(Range - 1), sum : Sums]]
    /\ filtered \in [Sensors -> [Axes -> Sums]]
    /\ offset \in [Sensors -> [Axes -> BOOLEAN]]
    /\ imu_configured \in BOOLEAN /\ terminate \in BOOLEAN
    /\ pc \in [Callers -> {"idle", "set", "size", "poll"}]
    /\ call \in [Callers -> Call]
    /\ raced \subseteq Callers /\ missed \subseteq Callers

Init ==
    /\ I2cInit
    /\ filter = [s \in Sensors |->
           [inProgress |-> FALSE, state |-> 0, axis |-> 0, size |-> 0,
            calibration |-> FALSE, samples |-> 0, sum |-> NoSum]]
    /\ filtered = [s \in Sensors |-> [a \in Axes |-> NoSum]]
    /\ offset = [s \in Sensors |-> [a \in Axes |-> FALSE]]
    /\ imu_configured = TRUE /\ terminate = FALSE
    /\ pc = [c \in Callers |-> "idle"]
    /\ call = [c \in Callers |-> NoCall]
    /\ raced = {} /\ missed = {}

-----------------------------------------------------------------------------
\* One cycle of the thread for one filter; isNew: the read has not failed
Samples(f) == (f.samples + 1) % Range

Completes(f) == f.inProgress /\ f.state = 1 /\ Samples(f) = f.size

Sum(f, isNew) ==
    IF isNew THEN [new |-> f.sum.new + 1, axes |-> f.sum.axes \union {f.axis}] ELSE f.sum

Filtered(f, isNew) ==
    IF ~f.inProgress THEN f
    ELSE IF f.state = 0 THEN [f EXCEPT !.samples = 0, !.sum = NoSum, !.state = 1]
    ELSE [f EXCEPT !.samples = Samples(f), !.sum = Sum(f, isNew),
                   !.inProgress = ~Completes(f), !.calibration = @ /\ ~Completes(f)]

Calling == {c \in Callers : pc[c] # "idle"}
SettingUp == {c \in Callers : pc[c] \in {"set", "size"}}

ImuCycle ==
    /\ at[imu] \in {"got", "failed"} /\ at' = [at EXCEPT ![imu] = "rest"]
    /\ LET isNew == at[imu] = "got"
       IN  /\ filter' = [s \in Sensors |-> Filtered(filter[s], isNew)]
           /\ filtered' = [s \in Sensors |->
                  LET f == filter[s]
                  IN  IF Completes(f) THEN [filtered[s] EXCEPT ![f.axis] = Sum(f, isNew)] ELSE filtered[s]]
           /\ offset' = [s \in Sensors |->
                  LET f == filter[s]
                  IN  IF f.inProgress /\ f.state = 0 THEN [offset[s] EXCEPT ![f.axis] = FALSE]
                      ELSE IF Completes(f) /\ f.calibration THEN [offset[s] EXCEPT ![f.axis] = TRUE]
                      ELSE offset[s]]
           /\ missed' = (IF isNew THEN missed ELSE missed \union Calling) \ (raced \union SettingUp)
    /\ raced' = raced \union SettingUp
    /\ UNCHANGED <<bus, owner, left, imu_configured, terminate, pc, call>>

ImuReads == ~terminate /\ imu_configured /\ Access(imu) /\ UNCHANGED <<filter, filtered, offset, imu_configured, terminate, calls>>

\* the ground sensors are published whatever the read returned
GroundCycle ==
    /\ \/ Access(ground)
       \/ /\ at[ground] \in {"got", "failed"} /\ at' = [at EXCEPT ![ground] = "rest"]
          /\ UNCHANGED <<bus, owner, left>>
    /\ UNCHANGED <<filter, filtered, offset, imu_configured, terminate, calls>>

BusStep(u) == AccessStep(u) /\ UNCHANGED <<filter, filtered, offset, imu_configured, terminate, calls>>

\* imu_stop: chThdTerminate, then chThdWait
StopBegins ==
    /\ Stops /\ imu_configured /\ ~terminate
    /\ terminate' = TRUE
    /\ UNCHANGED <<i2c, filter, filtered, offset, imu_configured, calls>>

StopEnds ==
    /\ terminate /\ at[imu] = "rest"
    /\ imu_configured' = FALSE /\ terminate' = FALSE
    /\ UNCHANGED <<i2c, filter, filtered, offset, calls>>

\* imu_start: its i2c_start does not take the mutex; the count and the sum of
\* a filter are variables of the thread
Start ==
    /\ ~imu_configured /\ (bus = "stop" => Overlaps)
    /\ imu_configured' = TRUE
    /\ bus' = IF bus = "stop" THEN "ready" ELSE bus
    /\ filter' = [s \in Sensors |-> [filter[s] EXCEPT !.samples = 0, !.sum = NoSum]]
    /\ UNCHANGED <<owner, at, left, filtered, offset, terminate, calls>>

-----------------------------------------------------------------------------
\* mutant: the state is not reset
BeginKeepsState(c, k) ==
    /\ filter' = [filter EXCEPT ![k.sensor].inProgress = TRUE,
                                ![k.sensor].calibration = k.calibrates \/ @]
    /\ pc' = [pc EXCEPT ![c] = "set"]
    /\ call' = [call EXCEPT ![c] = k]
    /\ raced' = raced \ {c} /\ missed' = missed \ {c}

\* get_acc_filtered begins: first the flag, then the axis, then the size
Begin(c, k) ==
    /\ filter' = [filter EXCEPT ![k.sensor].state = 0, ![k.sensor].inProgress = TRUE,
                                ![k.sensor].calibration = k.calibrates \/ @]
    /\ pc' = [pc EXCEPT ![c] = "set"]
    /\ call' = [call EXCEPT ![c] = k]
    /\ raced' = raced \ {c} /\ missed' = missed \ {c}

Asks(c) ==
    /\ pc[c] = "idle" /\ imu_configured
    /\ \E k \in Call : (k.calibrates => k.axis = 0 /\ k.size = CalSize) /\ Begin(c, k)
    /\ UNCHANGED <<i2c, filtered, offset, imu_configured, terminate>>

SetsAxis(c) ==
    /\ pc[c] = "set" /\ pc' = [pc EXCEPT ![c] = "size"]
    /\ filter' = [filter EXCEPT ![call[c].sensor].axis = call[c].axis]
    /\ UNCHANGED <<i2c, filtered, offset, imu_configured, terminate, call, raced, missed>>

SetsSize(c) ==
    /\ pc[c] = "size" /\ pc' = [pc EXCEPT ![c] = "poll"]
    /\ filter' = [filter EXCEPT ![call[c].sensor].size = call[c].size]
    /\ UNCHANGED <<i2c, filtered, offset, imu_configured, terminate, call, raced, missed>>

\* a calibration goes on with the next axis, if the IMU still runs
Returns(c) ==
    /\ pc[c] = "poll" /\ ~filter[call[c].sensor].inProgress
    /\ LET k == call[c]
       IN  IF k.calibrates /\ k.axis # LastAxis /\ imu_configured
           THEN Begin(c, [k EXCEPT !.axis = @ + 1])
           ELSE /\ pc' = [pc EXCEPT ![c] = "idle"]
                /\ filter' = [filter EXCEPT ![k.sensor].calibration = @ /\ ~k.calibrates]
                /\ raced' = raced \ {c} /\ missed' = missed \ {c}
                /\ call' = [call EXCEPT ![c] = NoCall]
    /\ UNCHANGED <<i2c, filtered, offset, imu_configured, terminate>>

Caller(c) == Asks(c) \/ SetsAxis(c) \/ SetsSize(c) \/ Returns(c)

ImuThread == ImuReads \/ BusStep(imu) \/ ImuCycle
GroundThread == GroundCycle \/ BusStep(ground)

Next == ImuThread \/ GroundThread \/ StopBegins \/ StopEnds \/ Start \/ (\E c \in Callers : Caller(c))

Spec == Init /\ [][Next]_vars

\* the mutex of the bus is a queue: a thread that waits for it gets it
FairSpec ==
    /\ Spec
    /\ WF_vars(ImuReads) /\ SF_vars(BusStep(imu)) /\ WF_vars(ImuCycle)
    /\ WF_vars(GroundThread) /\ WF_vars(StopEnds)
    /\ \A c \in Callers : WF_vars(SetsAxis(c)) /\ WF_vars(SetsSize(c)) /\ WF_vars(Returns(c))

-----------------------------------------------------------------------------
(* The bus is never stopped where another thread may use it: a thread that *)
(* takes the mutex finds the driver ready, whatever failed before, and the *)
(* one in a transfer is the owner.                                         *)
BusReadyWhenFree ==
    /\ owner = NoUser <=> bus = "ready"
    /\ \A u \in Users : at[u] \in {"transfer", "restart"} <=> owner = u

ImuInv == TypeOK /\ BusReadyWhenFree

\* What a call has got for its axis: values of no other axis, no more of them
\* than it asked for, and all of those it asked for.
Got(c) == filtered[call[c].sensor][call[c].axis]
OfItsAxis(c) == Got(c).new <= call[c].size /\ Got(c).axes \subseteq {call[c].axis}
AllNew(c) == Got(c).new = call[c].size

ReturnsWith(c) == pc[c] = "poll" /\ pc'[c] # "poll" /\ call[c].size > 0

(* What a call returns is the average of values of its own axis that were  *)
(* read since it was made, and of as many as it asked for unless a read    *)
(* failed: the value from before is then counted again.  This is said of a *)
(* call in whose set-up the thread has not run (raced), and which asks for *)
(* some: a call for none counts Range of them, and divides by zero.        *)
ReturnsItsAverage ==
    [][\A c \in Callers \ raced : ReturnsWith(c) => OfItsAxis(c) /\ (c \notin missed => AllNew(c))]_vars

(* Does not hold (README).  imu.h:74: a call "Returns an average of the    *)
(* last 'filter_size' axis values read from the accelerometer", also where *)
(* a read fails.                                                           *)
ReturnsAllNew == [][\A c \in Callers \ raced : ReturnsWith(c) => AllNew(c)]_vars

(* Does not hold (README).  imu.h:74 again: the values are of the axis that *)
(* was asked for, also where the thread runs inside the set-up of the call. *)
ReturnsOwnAxis == [][\A c \in Callers : ReturnsWith(c) => OfItsAxis(c)]_vars

(* A call returns as long as the IMU runs, whatever fails on the bus.      *)
CallsReturn == \A c \in Callers : pc[c] = "poll" ~> pc[c] # "poll" \/ terminate \/ ~imu_configured

(* Does not hold (README).  imu.h:86: get_acc_offset "Returns the          *)
(* calibration value": it stays what the last calibration has set.         *)
CalibrationStays ==
    [][\A s \in Sensors, a \in Axes :
         offset[s][a] /\ ~offset'[s][a] => filter[s].calibration]_vars
=============================================================================
