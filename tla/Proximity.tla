------------------------------ MODULE Proximity ------------------------------
(***************************************************************************)
(* The proximity sensors (sensors/proximity.c): the timer that lights the  *)
(* emitters and triggers the ADC, the interrupt at the end of a sequence   *)
(* of samples, the thread that publishes the measures and calibrates them. *)
(*                                                                         *)
(* A sequence has two samples for each couple of sensors, one in the dark  *)
(* and one by its own light.  A measure is "right" when all its samples    *)
(* were taken so.                                                          *)
(***************************************************************************)
EXTENDS Integers, FiniteSets

CONSTANTS Couples,      \* 4 couples of sensors
          CalSamples,   \* 100 measures make a calibration
          Modes,        \* of FAST_UPDATE and SLOW_UPDATE, the ones that are asked for
          CalibratesStopped     \* calibrate_ir is called when the sensors are stopped, too

ASSUME CouplesAssumption == Couples \in Nat \ {0}
ASSUME CalSamplesAssumption == CalSamples \in Nat \ {0}
ASSUME ModesAssumption == Modes \subseteq {"fast", "slow"} /\ CalibratesStopped \in BOOLEAN

VARIABLES adc,          \* ADCD1.state
          timer,        \* PWMD2: what comes next in its period
          pulseSeqState, lit,
          position,     \* where the ADC is in its sequence
          right,        \* the samples so far are right
          values, adc2_ready,
          rounds,       \* sequences that ended since the start, up to 2
          thread, terminate,
          delta,        \* what was published last
          calibration,
          mode, period, \* the mode of the last start, and pwmcfg_proximity.period
          main          \* where the program is in a call

pulses == <<timer, pulseSeqState, lit>>
sampling == <<position, right, values, adc2_ready, rounds>>
config == <<mode, period>>
vars == <<adc, pulses, sampling, thread, terminate, delta, calibration, config, main>>

Measures == {"none", "wrong", "right"}

TypeOK ==
    /\ adc \in {"stop", "active"}
    /\ timer \in {"stop", "reset", "sample", "channel1"}
    /\ pulseSeqState \in 0..(2 * Couples) /\ lit \subseteq 1..Couples
    /\ position \in 0..(2 * Couples - 1) /\ right \in BOOLEAN
    /\ values \in Measures /\ adc2_ready \in BOOLEAN /\ rounds \in 0..2
    /\ thread \in {"none", "loop", "wait", "publish"} /\ terminate \in BOOLEAN
    /\ delta \in Measures
    /\ calibration \in [inProgress : BOOLEAN, state : {0, 1}, samples : 0..CalSamples]
    /\ {mode, period} \subseteq {"fast", "slow"}
    /\ main \in {"idle", "stop", "calibrate", "poll"}

Init ==
    /\ adc = "stop" /\ timer = "stop" /\ pulseSeqState = 0 /\ lit = {}
    /\ position = 0 /\ right = TRUE /\ values = "none" /\ adc2_ready = FALSE /\ rounds = 0
    /\ thread = "none" /\ terminate = FALSE /\ delta = "none"
    /\ calibration = [inProgress |-> FALSE, state |-> 0, samples |-> 0]
    /\ mode = "fast" /\ period = "fast" /\ main = "idle"

-----------------------------------------------------------------------------
NextPulse == IF pulseSeqState = 0 THEN 0 ELSE (pulseSeqState % (2 * Couples)) + 1

\* pwm_reset_cb
Reset ==
    /\ timer = "reset" /\ timer' = "sample"
    /\ pulseSeqState' = NextPulse
    /\ lit' = IF pulseSeqState > 0 /\ pulseSeqState % 2 = 0
              THEN lit \union {pulseSeqState \div 2} ELSE lit
    /\ UNCHANGED <<adc, sampling, thread, terminate, delta, calibration, config, main>>

\* What is to be lit for the sample at the position of the ADC
Own == IF position % 2 = 0 THEN {} ELSE {(position + 1) \div 2}

Rights == right /\ lit = Own

\* mutant: the pulses are not brought in step with the ADC
SampleWithoutSync ==
    /\ timer = "sample" /\ timer' = "channel1"
    /\ position' = (position + 1) % (2 * Couples)
    /\ IF position' = 0
       THEN /\ values' = (IF Rights THEN "right" ELSE "wrong")
            /\ adc2_ready' = TRUE /\ right' = TRUE
            /\ pulseSeqState' = IF pulseSeqState = 0 THEN 1 ELSE pulseSeqState
            /\ rounds' = IF rounds = 2 THEN 2 ELSE rounds + 1
       ELSE right' = Rights /\ UNCHANGED <<values, adc2_ready, pulseSeqState, rounds>>
    /\ UNCHANGED <<adc, lit, thread, terminate, delta, calibration, config, main>>

\* The timer triggers the ADC; adc_cb after the last sample of the sequence
Sample ==
    /\ timer = "sample" /\ timer' = "channel1"
    /\ position' = (position + 1) % (2 * Couples)
    /\ IF position' = 0
       THEN /\ values' = (IF Rights THEN "right" ELSE "wrong")
            /\ adc2_ready' = TRUE /\ right' = TRUE /\ pulseSeqState' = 1
            /\ rounds' = IF rounds = 2 THEN 2 ELSE rounds + 1
       ELSE right' = Rights /\ UNCHANGED <<values, adc2_ready, pulseSeqState, rounds>>
    /\ UNCHANGED <<adc, lit, thread, terminate, delta, calibration, config, main>>

\* pwm_ch1_cb
Channel1 ==
    /\ timer = "channel1" /\ timer' = "reset"
    /\ lit' = {}
    /\ UNCHANGED <<adc, pulseSeqState, sampling, thread, terminate, delta, calibration, config, main>>

Timer == Reset \/ Sample \/ Channel1

-----------------------------------------------------------------------------
\* mutant: the request to end is not looked at
LoopGoesOn ==
    /\ thread = "loop" /\ thread' = "wait"
    /\ UNCHANGED <<adc, pulses, sampling, terminate, delta, calibration, config, main>>

\* the thread
Loop ==
    /\ thread = "loop"
    /\ thread' = IF terminate THEN "none" ELSE "wait"
    /\ UNCHANGED <<adc, pulses, sampling, terminate, delta, calibration, config, main>>

Wait ==
    /\ thread = "wait" /\ adc2_ready
    /\ thread' = "publish" /\ adc2_ready' = FALSE
    /\ UNCHANGED <<adc, pulses, position, right, values, rounds, terminate, delta, calibration, config, main>>

Calibrated(c) ==
    IF ~c.inProgress THEN c
    ELSE IF c.state = 0 THEN [c EXCEPT !.samples = 0, !.state = 1]
    ELSE IF c.samples + 1 = CalSamples
    THEN [inProgress |-> FALSE, state |-> 1, samples |-> CalSamples]
    ELSE [c EXCEPT !.samples = @ + 1]

Publish ==
    /\ thread = "publish" /\ thread' = "loop"
    /\ delta' = values
    /\ calibration' = Calibrated(calibration)
    /\ UNCHANGED <<adc, pulses, sampling, terminate, config, main>>

Thread == Loop \/ Wait \/ Publish

-----------------------------------------------------------------------------
\* proximity_start; the static configuration keeps the period of a slow start
ProximityStart ==
    /\ main = "idle" /\ adc = "stop"
    /\ mode' \in Modes /\ period' = IF mode' = "slow" THEN "slow" ELSE period
    /\ adc' = "active" /\ timer' = "reset" /\ thread' = "loop"
    /\ position' = 0 /\ right' = TRUE /\ rounds' = 0
    /\ UNCHANGED <<pulseSeqState, lit, values, adc2_ready, terminate, delta, calibration, main>>

\* proximity_stop: chThdTerminate, and after chThdWait the peripherals
StopBegins ==
    /\ main = "idle" /\ adc # "stop"
    /\ terminate' = TRUE /\ main' = "stop"
    /\ UNCHANGED <<adc, pulses, sampling, thread, delta, calibration, config>>

\* mutant: the emitters are left as they are
StopEndsLit ==
    /\ main = "stop" /\ thread = "none"
    /\ terminate' = FALSE /\ timer' = "stop" /\ adc' = "stop"
    /\ main' = "idle"
    /\ UNCHANGED <<pulseSeqState, lit, sampling, thread, delta, calibration, config>>

StopEnds ==
    /\ main = "stop" /\ thread = "none"
    /\ terminate' = FALSE /\ timer' = "stop" /\ adc' = "stop" /\ lit' = {}
    /\ main' = "idle"
    /\ UNCHANGED <<pulseSeqState, sampling, thread, delta, calibration, config>>

\* calibrate_ir
Calibrates(from, to) ==
    /\ main = from /\ main' = to
    /\ UNCHANGED <<adc, pulses, sampling, thread, terminate, delta, config>>

CalibrationState ==
    /\ (adc = "stop" => CalibratesStopped) /\ Calibrates("idle", "calibrate")
    /\ calibration' = [calibration EXCEPT !.state = 0]

CalibrationBegins ==
    /\ Calibrates("calibrate", "poll")
    /\ calibration' = [calibration EXCEPT !.inProgress = TRUE]

CalibrationEnds ==
    /\ Calibrates("poll", "idle") /\ ~calibration.inProgress
    /\ UNCHANGED calibration

Calls == StopEnds \/ CalibrationBegins \/ CalibrationEnds

Next == Timer \/ Thread \/ ProximityStart \/ StopBegins \/ CalibrationState \/ Calls

Spec == Init /\ [][Next]_vars

\* the timer runs, and the threads run in turn
FairSpec == Spec /\ WF_vars(Timer) /\ WF_vars(Thread) /\ WF_vars(Calls)

-----------------------------------------------------------------------------
(* From the second sequence after a start on, every measure that is        *)
(* published has its ambient samples taken in the dark and its reflected   *)
(* ones by their own emitter, whatever the state of the pulses was.        *)
MeasuresAreRight == [][thread = "publish" /\ thread' = "loop" /\ rounds = 2 => delta' = "right"]_vars

(* No two emitters are lit at once, none is lit beyond the end of its      *)
(* period and none stays lit when the measures are stopped.                *)
OneEmitter == Cardinality(lit) <= 1 /\ (timer \in {"stop", "reset"} => lit = {})

\* From the end of the first sequence on, the pulses are in step with the ADC.
InStep ==
    /\ rounds > 0 /\ timer \in {"reset", "channel1"} => pulseSeqState = position + 1
    /\ rounds > 0 /\ timer = "sample" =>
           lit = Own /\ pulseSeqState = ((position + 1) % (2 * Couples)) + 1
    /\ rounds > 0 /\ timer # "stop" => right
    /\ rounds = 2 => values = "right"

CallsAgree ==
    /\ adc = "stop" <=> timer = "stop"
    /\ adc = "stop" => thread = "none"
    /\ main # "poll" => ~calibration.inProgress
    /\ main = "calibrate" => calibration.state = 0
    /\ calibration.inProgress /\ calibration.state = 1 => calibration.samples < CalSamples

(* The inductive invariant of the proofs.                                  *)
ProximityInv == TypeOK /\ OneEmitter /\ InStep /\ CallsAgree

(* Every call comes to its end: a stop waits for the thread, which waits   *)
(* for the ADC, and a calibration for as many measures as it takes.        *)
CallsEnd == main # "idle" ~> main = "idle"

(* Does not hold (README).  proximity.h:11: "FAST_UPDATE 0 Proximity       *)
(* sensors updated at 100 Hz".                                             *)
UpdatedAsAsked == adc # "stop" => period = mode
=============================================================================
