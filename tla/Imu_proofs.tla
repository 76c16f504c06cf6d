------------------------------ MODULE Imu_proofs ------------------------------
(***************************************************************************)
(* The discipline of the I2C bus and the averages of the IMU, for any      *)
(* callers, sensors, axes, sizes of the filters and numbers of attempts,   *)
(* where imu_start does not meet a restart of the bus.                     *)
(***************************************************************************)
EXTENDS Imu, TLAPS

Points == {"rest", "take", "transfer", "restart", "got", "failed"}
OnBus == {"transfer", "restart"}

\* An access that holds the bus is in a transfer or starts the bus again.
BusInv ==
    /\ at \in [Users -> Points]
    /\ bus \in {"stop", "ready", "active"} /\ owner \in Users \union {NoUser}
    /\ BusReadyWhenFree
    /\ owner # NoUser => bus = IF at[owner] = "transfer" THEN "active" ELSE "stop"

LEMMA BusInit == Init => BusInv
BY NoUserAssumption DEF Init, I2cInit, BusInv, BusReadyWhenFree, Points

\* A thread that does not hold the bus and does not get it may go anywhere
\* else.
LEMMA Elsewhere ==
    ASSUME BusInv, NEW u \in Users, at[u] \notin OnBus,
           NEW to \in Points \ OnBus, at' = [at EXCEPT ![u] = to], UNCHANGED <<bus, owner>>
    PROVE  BusInv'
<1>1. owner # u
  BY DEF BusInv, BusReadyWhenFree, OnBus
<1>2. at' \in [Users -> Points] /\ \A w \in Users : at'[w] = IF w = u THEN to ELSE at[w]
  BY DEF BusInv
<1>3. BusReadyWhenFree'
  BY <1>1, <1>2 DEF BusInv, BusReadyWhenFree, OnBus
<1>4. owner' # NoUser => bus' = IF at'[owner'] = "transfer" THEN "active" ELSE "stop"
  BY <1>1, <1>2 DEF BusInv
<1> QED BY <1>2, <1>3, <1>4 DEF BusInv

\* The owner leaves the bus ready, and goes elsewhere.
LEMMA Releases ==
    ASSUME BusInv, NEW u \in Users, at[u] \in OnBus,
           NEW to \in Points \ OnBus, at' = [at EXCEPT ![u] = to],
           bus' = "ready", owner' = NoUser
    PROVE  BusInv'
<1>1. owner = u
  BY DEF BusInv, BusReadyWhenFree, OnBus
<1>2. at' \in [Users -> Points] /\ \A w \in Users : at'[w] = IF w = u THEN to ELSE at[w]
  BY DEF BusInv
<1>3. \A w \in Users : at'[w] \notin OnBus
  BY <1>1, <1>2 DEF BusInv, BusReadyWhenFree, OnBus
<1> QED BY <1>2, <1>3, NoUserAssumption DEF BusInv, BusReadyWhenFree, OnBus

\* The five steps of an access.
LEMMA AccessLemma ==
    ASSUME BusInv, NEW u \in Users, AccessStep(u)
    PROVE  BusInv'
<1> USE DEF Moves
<1>1. CASE Take(u)
  <2>1. CASE bus = "stop"
    BY <1>1, <2>1 DEF Take, BusInv, BusReadyWhenFree
  <2>2. CASE bus # "stop"
    <3>1. at' = [at EXCEPT ![u] = "transfer"] /\ bus' = "active" /\ owner' = u
      BY <1>1, <2>2 DEF Take
    <3>2. \A w \in Users : at[w] \notin OnBus
      BY <1>1, NoUserAssumption DEF Take, BusInv, BusReadyWhenFree, OnBus
    <3>3. at' \in [Users -> Points] /\ \A w \in Users : at'[w] = IF w = u THEN "transfer" ELSE at[w]
      BY <3>1 DEF BusInv, Points
    <3> QED BY <3>1, <3>2, <3>3, NoUserAssumption DEF BusInv, BusReadyWhenFree, OnBus
  <2> QED BY <2>1, <2>2
<1>2. CASE Transferred(u)
  BY <1>2, Releases DEF Transferred, OnBus, Points
<1>3. Fails(u) \in Points \ OnBus
  BY DEF Fails, Points, OnBus
<1>4. CASE NotAcknowledged(u)
  BY <1>3, <1>4, Releases DEF NotAcknowledged, OnBus
<1>5. CASE TimedOut(u)
  <2>1. owner = u /\ bus' = "stop" /\ owner' = u /\ at' = [at EXCEPT ![u] = "restart"]
    BY <1>5 DEF TimedOut, BusInv, BusReadyWhenFree
  <2>2. at' \in [Users -> Points] /\ \A w \in Users : at'[w] = IF w = u THEN "restart" ELSE at[w]
    BY <2>1 DEF BusInv, Points
  <2> QED BY <2>1, <2>2, NoUserAssumption DEF BusInv, BusReadyWhenFree
<1>6. CASE Restarted(u)
  BY <1>3, <1>6, Releases DEF Restarted, OnBus
<1> QED BY <1>1, <1>2, <1>4, <1>5, <1>6 DEF AccessStep

LEMMA BusNext ==
    ASSUME BusInv, ~Overlaps, [Next]_vars
    PROVE  BusInv'
<1> USE UsersAssumption DEF Moves
<1>1. ASSUME NEW u \in Users, Access(u) PROVE BusInv'
  BY <1>1, Elsewhere DEF Access, Points, OnBus
<1>2. ASSUME NEW u \in Users, at[u] \in {"got", "failed"}, at' = [at EXCEPT ![u] = "rest"],
             UNCHANGED <<bus, owner>>
      PROVE  BusInv'
  BY <1>2, Elsewhere DEF Points, OnBus
<1>3. CASE ImuThread
  BY <1>1, <1>2, <1>3, AccessLemma DEF ImuThread, ImuReads, BusStep, ImuCycle
<1>4. CASE GroundThread
  BY <1>1, <1>2, <1>4, AccessLemma DEF GroundThread, GroundCycle, BusStep
<1>5. ASSUME UNCHANGED <<bus, owner, at>> PROVE BusInv'
  BY <1>5 DEF BusInv, BusReadyWhenFree
<1>6. CASE StopBegins \/ StopEnds
  BY <1>5, <1>6 DEF StopBegins, StopEnds, i2c
<1>7. CASE Start
  BY <1>5, <1>7 DEF Start
<1>8. CASE \E c \in Callers : Caller(c)
  BY <1>5, <1>8 DEF Caller, Asks, SetsAxis, SetsSize, Returns, i2c
<1>9. CASE UNCHANGED vars
  BY <1>5, <1>9 DEF vars, i2c
<1> QED BY <1>3, <1>4, <1>6, <1>7, <1>8, <1>9 DEF Next

(* i2c_bus.c:61: a transfer that fails stops and starts the driver while   *)
(* it holds the mutex.  Whatever fails, and however often each thread      *)
(* tries again, whoever gets the mutex finds the driver ready, and a       *)
(* stopped driver has an owner that is starting it again.                  *)
THEOREM BusTheorem == ASSUME ~Overlaps PROVE Spec => []BusReadyWhenFree
<1>1. Init => BusInv
  BY BusInit
<1>2. BusInv /\ [Next]_vars => BusInv'
  BY BusNext
<1>3. BusInv => BusReadyWhenFree
  BY DEF BusInv
<1> QED BY <1>1, <1>2, <1>3, PTL DEF Spec

-----------------------------------------------------------------------------
(* The filters.                                                            *)
Filters ==
    [inProgress : BOOLEAN, state : {0, 1}, axis : Axes, size : 0..(Range - 1),
     calibration : BOOLEAN, samples : 0..(Range - 1), sum : Sums]

LEMMA CountLemma == NoSum \in Sums /\ Range \in Nat \ {0} /\ 0 \in Axes /\ 0 \in 0..(Range - 1)
<1>1. Range \in Nat \ {0}
  BY SMT, SensorsAssumption, SizesAssumption
<1>2. 0 \in Axes
  BY SMT, AxesAssumption
<1>3. NoSum \in Sums
  BY DEF NoSum, Sums
<1> QED BY SMT, <1>1, <1>2, <1>3

\* What a filter has counted is of the axis a, no more than its samples and
\* fewer than its size; all of it is new if no read has failed.
CountsOnly(f, a, fails) ==
    /\ f.sum.axes \subseteq {a} /\ f.sum.new <= f.samples
    /\ ~fails => f.sum.new = f.samples
    /\ f.size > 0 => f.samples < f.size

\* A cycle of the thread counts a sample, or sets the average.
LEMMA FilterLemma ==
    ASSUME NEW f \in Filters, NEW isNew \in BOOLEAN
    PROVE  /\ Filtered(f, isNew) \in Filters /\ Sum(f, isNew) \in Sums
           /\ Filtered(f, isNew).axis = f.axis /\ Filtered(f, isNew).size = f.size
           /\ f.inProgress /\ ~Filtered(f, isNew).inProgress => Completes(f)
           /\ Filtered(f, isNew).inProgress => f.inProgress
<1> DEFINE g == Filtered(f, isNew)
<1>1. Sum(f, isNew) \in Sums
  <2>1. f.sum.new \in Nat /\ f.sum.axes \in SUBSET Axes /\ f.axis \in Axes
    BY DEF Filters, Sums
  <2>2. f.sum.new + 1 \in Nat /\ f.sum.axes \union {f.axis} \in SUBSET Axes
    BY <2>1
  <2>3. isNew => Sum(f, isNew) = [new |-> f.sum.new + 1, axes |-> f.sum.axes \union {f.axis}]
    BY DEF Sum
  <2>4. ~isNew => Sum(f, isNew) = f.sum
    BY DEF Sum
  <2> QED BY <2>2, <2>3, <2>4 DEF Sums, Filters
<1>2. Samples(f) \in 0..(Range - 1)
  BY SMT, CountLemma DEF Samples, Filters
<1>3. CASE ~f.inProgress
  BY <1>1, <1>3 DEF Filtered
<1>4. CASE f.inProgress /\ f.state = 0
  <2>1. g = [f EXCEPT !.samples = 0, !.sum = NoSum, !.state = 1]
    BY <1>4 DEF Filtered
  <2> HIDE DEF g
  <2>2. g \in Filters /\ g.axis = f.axis /\ g.size = f.size /\ g.inProgress = f.inProgress
    BY <2>1, CountLemma DEF Filters
  <2> QED BY <1>1, <1>4, <2>2 DEF g
<1>5. CASE f.inProgress /\ f.state # 0
  <2>1. g = [f EXCEPT !.samples = Samples(f), !.sum = Sum(f, isNew),
                      !.inProgress = ~Completes(f), !.calibration = @ /\ ~Completes(f)]
    BY <1>5 DEF Filtered
  <2>2. Completes(f) \in BOOLEAN
    BY DEF Completes
  <2> HIDE DEF g
  <2>3. g \in Filters /\ g.axis = f.axis /\ g.size = f.size /\ g.inProgress = ~Completes(f)
    BY <1>1, <1>2, <2>1, <2>2 DEF Filters
  <2> QED BY <1>1, <1>5, <2>3 DEF g
<1> QED BY <1>3, <1>4, <1>5

\* The sum of a filter that counts for one axis goes on to do so, and is its
\* average when it completes.
LEMMA CountsLemma ==
    ASSUME NEW f \in Filters, NEW isNew \in BOOLEAN, NEW fails \in BOOLEAN, f.inProgress,
           f.state = 1 => CountsOnly(f, f.axis, fails)
    PROVE  /\ Filtered(f, isNew).inProgress => CountsOnly(Filtered(f, isNew), f.axis, fails \/ ~isNew)
           /\ Completes(f) /\ f.size > 0 =>
                 /\ Sum(f, isNew).axes \subseteq {f.axis} /\ Sum(f, isNew).new <= f.size
                 /\ ~fails /\ isNew => Sum(f, isNew).new = f.size
<1> DEFINE g == Filtered(f, isNew)
           n == Sum(f, isNew)
<1>0. /\ f.samples \in 0..(Range - 1) /\ f.size \in 0..(Range - 1) /\ f.state \in {0, 1}
      /\ f.sum.new \in Nat /\ f.sum.axes \subseteq Axes /\ f.axis \in Axes
  BY DEF Filters, Sums
<1>1. CASE f.state = 0
  <2>1. g = [f EXCEPT !.samples = 0, !.sum = NoSum, !.state = 1]
    BY <1>1 DEF Filtered
  <2> HIDE DEF g
  <2>2. g.samples = 0 /\ g.sum.new = 0 /\ g.sum.axes = {} /\ g.size = f.size
    BY <2>1 DEF Filters, NoSum
  <2>3. CountsOnly(g, f.axis, fails \/ ~isNew)
    BY <2>2, <1>0 DEF CountsOnly
  <2> QED BY <1>1, <2>3 DEF Completes, g
<1>2. CASE f.state = 1
  <2>1. CountsOnly(f, f.axis, fails)
    BY <1>2
  <2>2. n.new = (IF isNew THEN f.sum.new + 1 ELSE f.sum.new) /\ n.axes \subseteq {f.axis}
    <3>1. isNew => n = [new |-> f.sum.new + 1, axes |-> f.sum.axes \union {f.axis}]
      BY DEF Sum
    <3>2. ~isNew => n = f.sum
      BY DEF Sum
    <3> QED BY <3>1, <3>2, <2>1 DEF CountsOnly
  <2>3. Samples(f) = IF f.samples + 1 = Range THEN 0 ELSE f.samples + 1
    BY SMT, <1>0, CountLemma DEF Samples
  <2>4. g = [f EXCEPT !.samples = Samples(f), !.sum = n,
                      !.inProgress = ~Completes(f), !.calibration = @ /\ ~Completes(f)]
    BY <1>2 DEF Filtered
  <2>5. Completes(f) <=> Samples(f) = f.size
    BY <1>2 DEF Completes
  <2> HIDE DEF g, n
  <2>6. /\ g.samples = Samples(f) /\ g.sum.new = n.new /\ g.sum.axes = n.axes
        /\ g.size = f.size /\ (g.inProgress <=> ~Completes(f))
    BY <2>4 DEF Filters
  <2>7. /\ f.sum.new <= f.samples /\ (~fails => f.sum.new = f.samples)
        /\ (f.size > 0 => f.samples < f.size)
    BY <2>1 DEF CountsOnly
  <2>8. ~Completes(f) => Samples(f) = f.samples + 1
    BY SMT, <1>0, <2>3, <2>5, <2>7
  <2>9. ~Completes(f) /\ f.size > 0 => Samples(f) < f.size
    BY SMT, <1>0, <2>3, <2>5, <2>7
  <2>10. n.new \in Nat /\ n.new <= f.samples + 1 /\ (~fails /\ isNew => n.new = f.samples + 1)
    BY SMT, <1>0, <2>2, <2>7
  <2>11. g.inProgress => CountsOnly(g, f.axis, fails \/ ~isNew)
    BY <2>2, <2>6, <2>8, <2>9, <2>10 DEF CountsOnly
  <2>12. Completes(f) /\ f.size > 0 => f.samples + 1 = f.size
    BY SMT, <1>0, <2>3, <2>5, <2>7
  <2> QED BY <2>2, <2>10, <2>11, <2>12 DEF g, n
<1> QED BY <1>0, <1>1, <1>2

-----------------------------------------------------------------------------
(* The thread and its callers.                                             *)

\* An access that goes on has an attempt left.
LeftInv ==
    /\ left \in [Users -> Nat]
    /\ \A u \in Users : at[u] \in {"take"} \union OnBus => left[u] > 0

FilterInv == filter \in [Sensors -> Filters]

DataInv ==
    /\ filtered \in [Sensors -> [Axes -> Sums]] /\ offset \in [Sensors -> [Axes -> BOOLEAN]]
    /\ imu_configured \in BOOLEAN /\ terminate \in BOOLEAN
    /\ pc \in [Callers -> {"idle", "set", "size", "poll"}]
    /\ call \in [Callers -> Call]
    /\ raced \subseteq Callers /\ missed \subseteq Callers

Inv == BusInv /\ LeftInv /\ FilterInv /\ DataInv

LEMMA CallLemma == NoCall \in Call
<1>1. PICK s \in Sensors : TRUE
  BY SensorsAssumption
<1> DEFINE k == [sensor |-> s, axis |-> 0, size |-> CalSize, calibrates |-> TRUE]
<1>2. k \in Call
  BY CountLemma DEF Call
<1> QED BY <1>2 DEF NoCall

LEMMA InvInit == Init => Inv
<1> SUFFICES ASSUME Init PROVE Inv
  OBVIOUS
<1>1. LeftInv
  BY SMT DEF Init, I2cInit, LeftInv, OnBus
<1>2. FilterInv
  BY CountLemma DEF Init, FilterInv, Filters
<1>3. DataInv
  BY CallLemma, CountLemma DEF Init, DataInv
<1> QED BY <1>1, <1>2, <1>3, BusInit DEF Inv

\* One more attempt or one less.
LEMMA LeftNext ==
    ASSUME BusInv, LeftInv, [Next]_vars
    PROVE  LeftInv'
<1> USE UsersAssumption DEF Moves
<1>1. ASSUME NEW u \in Users, NEW to, at' = [at EXCEPT ![u] = to],
             NEW n \in Nat, left' = [left EXCEPT ![u] = n],
             to \in {"take"} \union OnBus => n > 0
      PROVE  LeftInv'
  <2>1. at \in [Users -> Points]
    BY DEF BusInv
  <2>2. \A w \in Users : at'[w] = (IF w = u THEN to ELSE at[w]) /\ left'[w] = IF w = u THEN n ELSE left[w]
    BY <1>1, <2>1 DEF LeftInv
  <2>3. left' \in [Users -> Nat]
    BY <1>1 DEF LeftInv
  <2> QED BY <1>1, <2>2, <2>3 DEF LeftInv
<1>2. ASSUME NEW u \in Users, NEW to, at' = [at EXCEPT ![u] = to], UNCHANGED left,
             to \in {"take"} \union OnBus => at[u] \in {"take"} \union OnBus
      PROVE  LeftInv'
  <2>1. left[u] \in Nat /\ left' = [left EXCEPT ![u] = left[u]]
    BY <1>2 DEF LeftInv
  <2>2. to \in {"take"} \union OnBus => left[u] > 0
    BY <1>2 DEF LeftInv
  <2> QED BY <1>1, <1>2, <2>1, <2>2
<1>3. ASSUME NEW u \in Users, Access(u) PROVE LeftInv'
  <2>1. Attempts[u] \in Nat /\ Attempts[u] > 0
    BY SMT, AttemptsAssumption
  <2> QED BY <1>1, <1>3, <2>1 DEF Access
<1>4. ASSUME NEW u \in Users, AccessStep(u) PROVE LeftInv'
  <2>1. CASE Take(u) \/ TimedOut(u)
    BY <1>2, <2>1 DEF Take, TimedOut, OnBus
  <2>3. CASE Transferred(u)
    <3>1. at' = [at EXCEPT ![u] = "got"] /\ left' = [left EXCEPT ![u] = 0]
      BY <2>3 DEF Transferred
    <3>2. "got" \notin {"take"} \union OnBus /\ 0 \in Nat
      BY DEF OnBus
    <3> QED BY <1>1, <3>1, <3>2
  <2>2. CASE NotAcknowledged(u) \/ Restarted(u)
    <3>1. at[u] \in OnBus /\ at' = [at EXCEPT ![u] = Fails(u)] /\ left' = [left EXCEPT ![u] = left[u] - 1]
      BY <2>2 DEF NotAcknowledged, Restarted, OnBus
    <3>2. left[u] \in Nat /\ left[u] > 0
      BY <3>1 DEF LeftInv
    <3>3. left[u] - 1 \in Nat /\ (Fails(u) \in {"take"} \union OnBus => left[u] - 1 > 0)
      BY SMT, <3>2 DEF Fails, OnBus
    <3> QED BY <1>1, <3>1, <3>3
  <2> QED BY <1>4, <2>1, <2>2, <2>3 DEF AccessStep
<1>5. CASE ImuThread
  BY <1>2, <1>3, <1>4, <1>5 DEF ImuThread, ImuReads, BusStep, ImuCycle, OnBus
<1>6. CASE GroundThread
  BY <1>2, <1>3, <1>4, <1>6 DEF GroundThread, GroundCycle, BusStep, OnBus
<1>7. ASSUME UNCHANGED <<at, left>> PROVE LeftInv'
  BY <1>7 DEF LeftInv
<1>8. CASE StopBegins \/ StopEnds \/ Start
  BY <1>7, <1>8 DEF StopBegins, StopEnds, Start, i2c
<1>9. CASE \E c \in Callers : Caller(c)
  BY <1>7, <1>9 DEF Caller, Asks, SetsAxis, SetsSize, Returns, i2c
<1>10. CASE UNCHANGED vars
  BY <1>7, <1>10 DEF vars, i2c
<1> QED BY <1>5, <1>6, <1>8, <1>9, <1>10 DEF Next

\* A call begins: the filter of its sensor starts anew.
LEMMA BeginLemma ==
    ASSUME FilterInv, DataInv, NEW c \in Callers, NEW k \in Call, Begin(c, k)
    PROVE  /\ FilterInv'
           /\ pc' = [pc EXCEPT ![c] = "set"] /\ call' = [call EXCEPT ![c] = k]
           /\ pc' \in [Callers -> {"idle", "set", "size", "poll"}] /\ call' \in [Callers -> Call]
           /\ raced' \subseteq Callers /\ missed' \subseteq Callers
           /\ filter'[k.sensor].inProgress /\ filter'[k.sensor].state = 0
<1>1. k.sensor \in Sensors /\ k.calibrates \in BOOLEAN
  BY DEF Call
<1> DEFINE f == filter[k.sensor]
           g == [f EXCEPT !.state = 0, !.inProgress = TRUE, !.calibration = k.calibrates \/ @]
<1>2. f \in Filters
  BY <1>1 DEF FilterInv
<1>3. filter' = [filter EXCEPT ![k.sensor] = g]
  BY <1>1 DEF Begin, FilterInv, Filters
<1>4. g \in Filters /\ g.state = 0 /\ g.inProgress
  BY <1>1, <1>2 DEF Filters
<1> HIDE DEF g
<1>5. filter' \in [Sensors -> Filters] /\ filter'[k.sensor] = g
  BY <1>1, <1>3, <1>4 DEF FilterInv
<1>6. /\ pc' = [pc EXCEPT ![c] = "set"] /\ call' = [call EXCEPT ![c] = k]
      /\ raced' = raced \ {c} /\ missed' = missed \ {c}
  BY DEF Begin
<1>7. /\ pc' \in [Callers -> {"idle", "set", "size", "poll"}] /\ call' \in [Callers -> Call]
      /\ raced' \subseteq Callers /\ missed' \subseteq Callers
  BY <1>6 DEF DataInv
<1> QED BY <1>4, <1>5, <1>6, <1>7 DEF FilterInv

\* A cycle of the thread: each filter counts its sample or completes.
LEMMA CycleLemma ==
    ASSUME FilterInv, DataInv, ImuCycle
    PROVE  FilterInv' /\ DataInv'
<1> DEFINE isNew == at[imu] = "got"
<1>0. \A s \in Sensors : filter[s] \in Filters
  BY DEF FilterInv
<1>1. FilterInv'
  <2>1. filter' = [s \in Sensors |-> Filtered(filter[s], isNew)]
    BY DEF ImuCycle
  <2> QED BY <1>0, <2>1, FilterLemma DEF FilterInv
<1>2. \A s \in Sensors : Sum(filter[s], isNew) \in Sums
  BY <1>0, FilterLemma
<1>3. filtered' \in [Sensors -> [Axes -> Sums]]
  <2>1. filtered' = [s \in Sensors |-> IF Completes(filter[s])
                                       THEN [filtered[s] EXCEPT ![filter[s].axis] = Sum(filter[s], isNew)]
                                       ELSE filtered[s]]
    BY DEF ImuCycle
  <2> QED BY <1>2, <2>1 DEF DataInv
<1>4. offset' \in [Sensors -> [Axes -> BOOLEAN]]
  <2>1. offset' = [s \in Sensors |->
            IF filter[s].inProgress /\ filter[s].state = 0
            THEN [offset[s] EXCEPT ![filter[s].axis] = FALSE]
            ELSE IF Completes(filter[s]) /\ filter[s].calibration
                 THEN [offset[s] EXCEPT ![filter[s].axis] = TRUE]
                 ELSE offset[s]]
    BY DEF ImuCycle
  <2> QED BY <2>1 DEF DataInv
<1>5. raced' \subseteq Callers /\ missed' \subseteq Callers
  BY DEF ImuCycle, DataInv, Calling, SettingUp
<1>6. UNCHANGED <<imu_configured, terminate, pc, call>>
  BY DEF ImuCycle
<1> QED BY <1>1, <1>3, <1>4, <1>5, <1>6 DEF DataInv

\* A call sets its axis, and then its size.
LEMMA SetsLemma ==
    ASSUME FilterInv, DataInv, NEW c \in Callers, SetsAxis(c) \/ SetsSize(c)
    PROVE  /\ FilterInv' /\ DataInv' /\ UNCHANGED <<filtered, call, raced, missed>>
           /\ \A s \in Sensors \ {call[c].sensor} : filter'[s] = filter[s]
           /\ LET f == filter[call[c].sensor]  g == filter'[call[c].sensor]
              IN  /\ g.inProgress = f.inProgress /\ g.state = f.state
                  /\ g.samples = f.samples /\ g.sum = f.sum
                  /\ g.axis = (IF SetsAxis(c) THEN call[c].axis ELSE f.axis)
                  /\ SetsSize(c) => g.size = call[c].size
<1> DEFINE k == call[c]
           f == filter[k.sensor]
           g == IF SetsAxis(c) THEN [f EXCEPT !.axis = k.axis] ELSE [f EXCEPT !.size = k.size]
<1>1. k \in Call /\ k.sensor \in Sensors /\ k.axis \in Axes /\ k.size \in 0..(Range - 1)
  BY SizesAssumption DEF DataInv, Call
<1>2. f \in Filters
  BY <1>1 DEF FilterInv
<1>0. ~(SetsAxis(c) /\ SetsSize(c))
  BY DEF SetsAxis, SetsSize
<1>3. filter' = [filter EXCEPT ![k.sensor] = g]
  <2>1. CASE SetsAxis(c)
    BY <1>1, <2>1 DEF SetsAxis
  <2>2. CASE SetsSize(c)
    BY <1>0, <1>1, <2>2 DEF SetsSize
  <2> QED BY <2>1, <2>2
<1>4. /\ g \in Filters /\ g.inProgress = f.inProgress /\ g.state = f.state
      /\ g.samples = f.samples /\ g.sum = f.sum
      /\ g.axis = (IF SetsAxis(c) THEN k.axis ELSE f.axis)
      /\ SetsSize(c) => g.size = k.size
  BY <1>0, <1>1, <1>2 DEF Filters
<1> HIDE DEF g
<1>5. FilterInv' /\ filter'[k.sensor] = g /\ \A s \in Sensors \ {k.sensor} : filter'[s] = filter[s]
  BY <1>1, <1>3, <1>4 DEF FilterInv
<1>6. DataInv' /\ UNCHANGED <<filtered, call, raced, missed>>
  BY DEF SetsAxis, SetsSize, DataInv
<1> QED BY <1>4, <1>5, <1>6

\* A calibration goes on with the next axis or a call returns.
LEMMA ReturnsLemma ==
    ASSUME FilterInv, DataInv, NEW c \in Callers, Returns(c)
    PROVE  /\ FilterInv' /\ DataInv'
           /\ \/ pc' = [pc EXCEPT ![c] = "idle"]
              \/ \E k \in Call : Begin(c, k)
<1> DEFINE k == call[c]
<1>1. k \in Call /\ k.sensor \in Sensors /\ k.axis \in Axes /\ k.calibrates \in BOOLEAN
  BY DEF DataInv, Call
<1>2. UNCHANGED <<filtered, offset, imu_configured, terminate>>
  BY DEF Returns
<1>3. CASE k.calibrates /\ k.axis # LastAxis /\ imu_configured
  <2> DEFINE n == [k EXCEPT !.axis = @ + 1]
  <2>1. Begin(c, n)
    BY <1>3 DEF Returns
  <2>2. k.axis + 1 \in Axes
    BY SMT, <1>1, <1>3, AxesAssumption
  <2>3. n \in Call
    BY <1>1, <2>2 DEF Call
  <2> QED BY <1>2, <2>1, <2>3, BeginLemma DEF DataInv
<1>4. CASE ~(k.calibrates /\ k.axis # LastAxis /\ imu_configured)
  <2>1. /\ pc' = [pc EXCEPT ![c] = "idle"] /\ call' = [call EXCEPT ![c] = NoCall]
        /\ filter' = [filter EXCEPT ![k.sensor].calibration = @ /\ ~k.calibrates]
        /\ raced' = raced \ {c} /\ missed' = missed \ {c}
    BY <1>4 DEF Returns
  <2>2. filter[k.sensor] \in Filters
    BY <1>1 DEF FilterInv
  <2>3. [filter[k.sensor] EXCEPT !.calibration = @ /\ ~k.calibrates] \in Filters
    BY <1>1, <2>2 DEF Filters
  <2>4. FilterInv'
    BY <1>1, <2>1, <2>3 DEF FilterInv
  <2>5. DataInv'
    BY <1>2, <2>1, CallLemma DEF DataInv
  <2> QED BY <2>1, <2>4, <2>5
<1> QED BY <1>3, <1>4

\* imu_start: the count starts anew.
LEMMA StartLemma ==
    ASSUME FilterInv, DataInv, Start
    PROVE  /\ FilterInv' /\ DataInv'
           /\ \A s \in Sensors : /\ filter'[s].axis = filter[s].axis /\ filter'[s].size = filter[s].size
                                 /\ filter'[s].inProgress = filter[s].inProgress
                                 /\ filter'[s].state = filter[s].state
                                 /\ filter'[s].samples = 0 /\ filter'[s].sum = NoSum
<1> DEFINE Again(f) == [f EXCEPT !.samples = 0, !.sum = NoSum]
<1>1. \A f \in Filters : /\ Again(f) \in Filters /\ Again(f).state = f.state
                         /\ Again(f).axis = f.axis /\ Again(f).size = f.size
                         /\ Again(f).inProgress = f.inProgress
                         /\ Again(f).samples = 0 /\ Again(f).sum = NoSum
  BY CountLemma DEF Filters
<1>2. /\ filter' = [s \in Sensors |-> Again(filter[s])]
      /\ imu_configured' = TRUE /\ UNCHANGED <<filtered, offset, terminate, pc, call, raced, missed>>
  BY DEF Start, calls
<1> HIDE DEF Again
<1>3. \A s \in Sensors : filter'[s] = Again(filter[s]) /\ filter[s] \in Filters
  BY <1>2 DEF FilterInv
<1>4. FilterInv'
  BY <1>1, <1>2, <1>3 DEF FilterInv
<1>5. DataInv'
  BY <1>2 DEF DataInv
<1> QED BY <1>1, <1>3, <1>4, <1>5

LEMMA InvNext ==
    ASSUME Inv, ~Overlaps, [Next]_vars
    PROVE  Inv'
<1> USE DEF calls
<1>1. BusInv' /\ LeftInv'
  BY BusNext, LeftNext DEF Inv
<1> SUFFICES FilterInv' /\ DataInv'
  BY <1>1 DEF Inv
<1>2. ASSUME UNCHANGED <<filter, filtered, offset, imu_configured, terminate, pc, call, raced, missed>>
      PROVE  FilterInv' /\ DataInv'
  BY <1>2 DEF Inv, FilterInv, DataInv
<1>3. CASE ImuThread \/ GroundThread
  BY <1>2, <1>3, CycleLemma DEF ImuThread, ImuReads, GroundThread, GroundCycle, BusStep, Inv
<1>4. CASE StopBegins \/ StopEnds
  BY <1>4 DEF StopBegins, StopEnds, Inv, FilterInv, DataInv
<1>5. CASE Start
  BY <1>5, StartLemma DEF Inv
<1>6. ASSUME NEW c \in Callers, Caller(c) PROVE FilterInv' /\ DataInv'
  <2>1. CASE Asks(c)
    <3>1. PICK k \in Call : Begin(c, k)
      BY <2>1 DEF Asks
    <3> QED BY <2>1, <3>1, BeginLemma DEF Asks, Inv, DataInv
  <2> QED BY <1>6, <2>1, SetsLemma, ReturnsLemma DEF Caller, Inv
<1>7. CASE UNCHANGED vars
  BY <1>2, <1>7 DEF vars
<1> QED BY <1>3, <1>4, <1>5, <1>6, <1>7 DEF Next

(* imu.c and ground.c: the bus keeps its discipline, the filters and the   *)
(* averages their types and the count of samples its uint8_t, for any      *)
(* number of callers that share the filters and wherever the thread runs   *)
(* while they set one up.                                                  *)
THEOREM ImuTheorem == ASSUME ~Overlaps PROVE Spec => []ImuInv
<1>1. Init => Inv
  BY InvInit
<1>2. Inv /\ [Next]_vars => Inv'
  BY InvNext
<1>3. Inv => ImuInv
  BY DEF Inv, BusInv, LeftInv, FilterInv, DataInv, ImuInv, TypeOK, I2cTypeOK, Points, Filters
<1> QED BY <1>1, <1>2, <1>3, PTL DEF Spec

-----------------------------------------------------------------------------
(* The average that one caller gets.                                       *)

\* What is true of a call that was not raced: nothing is counted until its
\* filter is set to it, and then only what it asked for.
PollInv ==
    \A c \in Callers \ raced :
        LET k == call[c]  f == filter[k.sensor]
        IN  /\ pc[c] \in {"set", "size"} => f.inProgress /\ f.state = 0
            /\ pc[c] = "size" => f.axis = k.axis
            /\ pc[c] = "poll" =>
                  /\ f.axis = k.axis /\ f.size = k.size
                  /\ f.inProgress /\ f.state = 1 => CountsOnly(f, k.axis, c \in missed)
                  /\ ~f.inProgress /\ k.size > 0 => OfItsAxis(c) /\ (c \notin missed => AllNew(c))

LEMMA PollNext ==
    ASSUME Inv, PollInv, ~Overlaps, \A c, d \in Callers : c = d, [Next]_vars
    PROVE  PollInv'
<1> USE DEF calls
<1>0. \A c \in Callers : call[c].sensor \in Sensors /\ call[c].axis \in Axes
  BY DEF Inv, DataInv, Call
<1>1. ASSUME UNCHANGED <<filter, filtered, pc, call, raced, missed>> PROVE PollInv'
  BY <1>1 DEF PollInv, OfItsAxis, AllNew, Got
<1>2. CASE ImuCycle
  <2> DEFINE isNew == at[imu] = "got"
  <2>1. UNCHANGED <<pc, call>> /\ raced' = raced \union SettingUp
        /\ missed' = (IF isNew THEN missed ELSE missed \union Calling) \ (raced \union SettingUp)
    BY <1>2 DEF ImuCycle
  <2> SUFFICES ASSUME NEW c \in Callers \ raced', pc[c] = "poll"
               PROVE  LET k == call[c]  g == filter'[k.sensor]
                      IN  /\ g.axis = k.axis /\ g.size = k.size
                          /\ g.inProgress /\ g.state = 1 => CountsOnly(g, k.axis, c \in missed')
                          /\ ~g.inProgress /\ k.size > 0 =>
                                OfItsAxis(c)' /\ (c \notin missed' => AllNew(c)')
    BY <2>1 DEF PollInv, SettingUp
  <2> DEFINE k == call[c]
             f == filter[k.sensor]
             g == filter'[k.sensor]
  <2>2. c \notin raced /\ (c \in missed' <=> c \in missed \/ ~isNew)
    BY <2>1 DEF SettingUp, Calling
  <2>3. f \in Filters /\ g = Filtered(f, isNew) /\ isNew \in BOOLEAN
    BY <1>0, <1>2 DEF ImuCycle, Inv, FilterInv
  <2>4. filtered'[k.sensor] = IF Completes(f) THEN [filtered[k.sensor] EXCEPT ![f.axis] = Sum(f, isNew)]
                              ELSE filtered[k.sensor]
    BY <1>0, <1>2 DEF ImuCycle
  <2>5. /\ f.axis = k.axis /\ f.size = k.size
        /\ f.inProgress /\ f.state = 1 => CountsOnly(f, f.axis, c \in missed)
        /\ ~f.inProgress /\ k.size > 0 => OfItsAxis(c) /\ (c \notin missed => AllNew(c))
    BY <2>2 DEF PollInv
  <2>6. filtered[k.sensor] \in [Axes -> Sums] /\ k.axis \in Axes
    BY <1>0 DEF Inv, DataInv
  <2>8. call' = call
    BY <2>1
  <2> HIDE DEF f, g, k, isNew
  <2>7. /\ g.axis = f.axis /\ g.size = f.size /\ (g.inProgress => f.inProgress)
        /\ f.inProgress /\ ~g.inProgress => Completes(f)
    BY <2>3, FilterLemma
  <2>9. CASE ~f.inProgress
    <3>1. ~Completes(f) /\ ~g.inProgress /\ filtered'[k.sensor] = filtered[k.sensor]
      BY <2>4, <2>7, <2>9 DEF Completes
    <3>2. Got(c)' = Got(c)
      BY <2>8, <3>1 DEF Got, k
    <3>3. k.size > 0 => OfItsAxis(c)' /\ (c \notin missed' => AllNew(c)')
      BY <2>2, <2>5, <2>8, <2>9, <3>2 DEF OfItsAxis, AllNew
    <3> QED BY <2>5, <2>7, <3>1, <3>3 DEF g, k
  <2>10. CASE f.inProgress
    <3>1. /\ g.inProgress => CountsOnly(g, f.axis, c \in missed \/ ~isNew)
          /\ Completes(f) /\ f.size > 0 =>
                /\ Sum(f, isNew).axes \subseteq {f.axis} /\ Sum(f, isNew).new <= f.size
                /\ (c \notin missed /\ isNew => Sum(f, isNew).new = f.size)
      <4> DEFINE fails == c \in missed
      <4>1. fails \in BOOLEAN
        OBVIOUS
      <4> HIDE DEF fails
      <4>2. f.state = 1 => CountsOnly(f, f.axis, fails)
        BY <2>5, <2>10 DEF fails
      <4>3. /\ g.inProgress => CountsOnly(g, f.axis, fails \/ ~isNew)
            /\ Completes(f) /\ f.size > 0 =>
                  /\ Sum(f, isNew).axes \subseteq {f.axis} /\ Sum(f, isNew).new <= f.size
                  /\ ~fails /\ isNew => Sum(f, isNew).new = f.size
        BY <2>3, <2>10, <4>1, <4>2, CountsLemma
      <4> QED BY <4>3 DEF fails
    <3>2. ~g.inProgress => Got(c)' = Sum(f, isNew)
      BY <2>4, <2>5, <2>6, <2>7, <2>8, <2>10 DEF Got, k
    <3>3. ~g.inProgress /\ k.size > 0 => OfItsAxis(c)' /\ (c \notin missed' => AllNew(c)')
      BY <2>2, <2>5, <2>7, <2>8, <2>10, <3>1, <3>2 DEF OfItsAxis, AllNew, k
    <3>4. g.inProgress => CountsOnly(g, k.axis, c \in missed')
      BY <2>2, <2>5, <3>1 DEF CountsOnly
    <3> QED BY <2>5, <2>7, <3>3, <3>4 DEF g, k
  <2> QED BY <2>9, <2>10, <2>3 DEF Filters
<1>3. CASE ImuThread \/ GroundThread
  BY <1>1, <1>2, <1>3 DEF ImuThread, ImuReads, GroundThread, GroundCycle, BusStep
<1>4. CASE StopBegins \/ StopEnds
  BY <1>1, <1>4 DEF StopBegins, StopEnds
<1>5. CASE Start
  <2>1. UNCHANGED <<filtered, pc, call, raced, missed>>
    BY <1>5 DEF Start
  <2>2. \A s \in Sensors : /\ filter'[s].axis = filter[s].axis /\ filter'[s].size = filter[s].size
                           /\ filter'[s].inProgress = filter[s].inProgress
                           /\ filter'[s].state = filter[s].state
                           /\ filter'[s].samples = 0 /\ filter'[s].sum = NoSum
                           /\ filter[s].size \in 0..(Range - 1)
    BY <1>5, StartLemma DEF Inv, FilterInv, Filters
  <2>3. \A s \in Sensors, a \in Axes, fails \in BOOLEAN : CountsOnly(filter'[s], a, fails)
    BY <2>2 DEF CountsOnly, NoSum
  <2>4. ASSUME NEW c \in Callers \ raced
        PROVE  LET k == call[c]  g == filter'[k.sensor]
               IN  /\ pc[c] \in {"set", "size"} => g.inProgress /\ g.state = 0
                   /\ pc[c] = "size" => g.axis = k.axis
                   /\ pc[c] = "poll" =>
                         /\ g.axis = k.axis /\ g.size = k.size
                         /\ g.inProgress /\ g.state = 1 => CountsOnly(g, k.axis, c \in missed)
                         /\ ~g.inProgress /\ k.size > 0 => OfItsAxis(c) /\ (c \notin missed => AllNew(c))
    <3>1. call[c].sensor \in Sensors /\ call[c].axis \in Axes /\ (c \in missed) \in BOOLEAN
      BY <1>0
    <3> QED BY <2>2, <2>3, <3>1 DEF PollInv
  <2>5. \A c \in Callers : (OfItsAxis(c)' <=> OfItsAxis(c)) /\ (AllNew(c)' <=> AllNew(c))
    BY <2>1 DEF OfItsAxis, AllNew, Got
  <2> QED BY <2>1, <2>4, <2>5 DEF PollInv
<1>6. ASSUME NEW c \in Callers, NEW k \in Call, Begin(c, k) PROVE PollInv'
  <2>1. pc'[c] = "set" /\ call'[c] = k /\ filter'[k.sensor].inProgress /\ filter'[k.sensor].state = 0
    BY <1>6, BeginLemma DEF Inv, DataInv
  <2> QED BY <2>1 DEF PollInv
<1>7. ASSUME NEW c \in Callers, SetsAxis(c) \/ SetsSize(c) PROVE PollInv'
  <2> SUFFICES ASSUME c \notin raced
               PROVE  LET k == call[c]  g == filter'[k.sensor]
                      IN  /\ pc'[c] \in {"size", "poll"} /\ g.inProgress /\ g.state = 0 /\ g.axis = k.axis
                          /\ pc'[c] = "poll" => g.size = k.size
    BY <1>7, SetsLemma DEF PollInv, Inv
  <2>1. filter[call[c].sensor].inProgress /\ filter[call[c].sensor].state = 0
        /\ (SetsSize(c) => filter[call[c].sensor].axis = call[c].axis)
    BY <1>7 DEF PollInv, SetsAxis, SetsSize
  <2>2. pc'[c] = IF SetsAxis(c) THEN "size" ELSE "poll"
    BY <1>7 DEF SetsAxis, SetsSize, Inv, DataInv
  <2> QED BY <1>7, <2>1, <2>2, SetsLemma DEF Inv
<1>8. ASSUME NEW c \in Callers, pc' = [pc EXCEPT ![c] = "idle"] PROVE PollInv'
  BY <1>8 DEF PollInv, Inv, DataInv
<1>9. CASE \E c \in Callers : Caller(c)
  BY <1>6, <1>7, <1>8, <1>9, ReturnsLemma DEF Caller, Asks, Inv
<1>10. CASE UNCHANGED vars
  BY <1>1, <1>10 DEF vars
<1> QED BY <1>3, <1>4, <1>5, <1>9, <1>10 DEF Next

LEMMA ReturnsStep ==
    ASSUME Inv, PollInv, [Next]_vars
    PROVE  [\A c \in Callers \ raced :
               ReturnsWith(c) => OfItsAxis(c) /\ (c \notin missed => AllNew(c))]_vars
<1> USE DEF calls
<1> SUFFICES ASSUME NEW c \in Callers \ raced, ReturnsWith(c)
             PROVE  OfItsAxis(c) /\ (c \notin missed => AllNew(c))
  OBVIOUS
<1>0. pc[c] = "poll" /\ pc'[c] # "poll" /\ call[c].size > 0
  BY DEF ReturnsWith
<1>1. PICK d \in Callers : Caller(d)
  BY <1>0 DEF Next, ImuThread, ImuReads, BusStep, ImuCycle, GroundThread, GroundCycle, StopBegins, StopEnds,
         Start, vars
<1>2. d = c
  BY <1>0, <1>1 DEF Caller, Asks, SetsAxis, SetsSize, Returns, Begin, Inv, DataInv
<1>3. Returns(c)
  BY <1>0, <1>1, <1>2 DEF Caller, Asks, SetsAxis, SetsSize
<1> QED BY <1>0, <1>3 DEF Returns, PollInv

(* imu.c, get_acc_filtered: what a call returns is the average of values   *)
(* of its own axis, read since it was made, and of as many as it asked for *)
(* unless a read failed, whatever the bus does and whenever the IMU is     *)
(* stopped and started, for any sizes.  It is said of a call in whose      *)
(* set-up the thread did not run, and of one caller, since a second one    *)
(* takes the filter away from the first.                                   *)
THEOREM AverageTheorem ==
    ASSUME ~Overlaps, \A c, d \in Callers : c = d
    PROVE  Spec => ReturnsItsAverage
<1>1. Init => Inv /\ PollInv
  BY InvInit DEF Init, PollInv
<1>2. Inv /\ PollInv /\ [Next]_vars => (Inv /\ PollInv)'
  BY InvNext, PollNext
<1>3. Inv /\ PollInv /\ [Next]_vars =>
         [\A c \in Callers \ raced :
             ReturnsWith(c) => OfItsAxis(c) /\ (c \notin missed => AllNew(c))]_vars
  BY ReturnsStep
<1> QED BY <1>1, <1>2, <1>3, PTL DEF Spec, ReturnsItsAverage
===============================================================================
