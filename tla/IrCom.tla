-------------------------------- MODULE IrCom --------------------------------
(***************************************************************************)
(* The infrared link of ircom/: one set of eight sensors and four emitters *)
(* that is shared in time by the measure of proximity, the reception and   *)
(* the sending of words.  Three parties touch its state:                   *)
(*   - a thread, which calls ircomListen, ircomStopListening, ircomSend... *)
(*     at any time, in the middle of a word too (the transceiver listens   *)
(*     continuously, pops a message, sends a word, waits for its end and   *)
(*     sleeps; ircom.h offers the calls to any program);                   *)
(*   - the interrupt of timer 14 (priority 7), which runs the state        *)
(*     machine of the link;                                                *)
(*   - the interrupt of the ADC (priority 6), which fills the windows of   *)
(*     samples or, five times a second, measures the proximity.            *)
(* The thread runs only between two interrupts of the timer, and the ADC   *)
(* interrupt comes between any two steps of the others.                    *)
(*                                                                         *)
(* What the demodulation makes of a window of samples (nothing, a start    *)
(* bit, a bit, no bit) is chosen where it is called.  Of the delays that   *)
(* proximity_interrupt counts, 26 or 4 conversions, it is kept that they   *)
(* are more than one.  The messages themselves are in IrcomMessages; here  *)
(* only their number is kept.                                              *)
(***************************************************************************)
EXTENDS Integers, FiniteSets

CONSTANTS
    Window,         \* IRCOM_SAMPLING_WINDOW
    WordSize,       \* IRCOM_WORDSIZE
    Pulses,         \* number of emitters, and of pairs of sensors
    Emits,          \* the emitters a word is sent with: all, or one
    Capacity,       \* IRCOM_MESSAGES_MAX
    MarkCount, SpaceCount   \* switches of the emitters for a bit

ASSUME SizeAssumption == /\ Window \in Nat /\ Window > 1
                         /\ WordSize \in Nat \ {0}
                         /\ Pulses \in Nat \ {0}
                         /\ Capacity \in Nat \ {0}
ASSUME EmitsAssumption == Emits \subseteq 0..(Pulses - 1)
ASSUME CountAssumption == MarkCount \in Nat \ {0} /\ SpaceCount \in Nat \ {0}

VARIABLES
    fsm, paused,                            \* ircomData
    receiving, rbit, continuous,            \* ircomReceiveData
    sdone, sbit, left, pulse, interrupted,  \* ircomSendData
    queued,                                 \* messagesCount
    scanId, skip, filled,                   \* windows of samples
    adc,                                    \* the ADC: on, in its last
                                            \* conversion, or off
    mode, phase, index, delay, enabled,     \* adc_mode and prox_*; delay:
                                            \* prox_counter has to count
    lit,                                    \* emitters that are on
    cpc, tpc,                               \* the thread, the timer interrupt
    listens,                                \* history: the thread asked to
                                            \* listen, and nothing ended it
    cut                                     \* history: what a call made in the
                                            \* middle of a word left undone

linkVars == <<fsm, paused, listens, cut>>
receiveVars == <<receiving, rbit, continuous>>
sendVars == <<sdone, sbit, left, pulse, interrupted>>
scanVars == <<scanId, skip, filled>>
proxVars == <<mode, phase, index, delay>>
vars == <<linkVars, receiveVars, sendVars, queued, scanVars, adc, proxVars, enabled,
          lit, cpc, tpc>>

Emitters == 0..(Pulses - 1)

TypeOK ==
    /\ fsm \in {"idle", "receive", "send"}
    /\ {paused, receiving, continuous, sdone, pulse, interrupted, filled,
        enabled, delay, listens} \subseteq BOOLEAN
    /\ rbit \in 0..(WordSize + 2)
    /\ sbit \in 0..(WordSize + 4)
    /\ left \in Nat
    /\ queued \in 0..Capacity
    /\ scanId \in 0..(Window - 1)
    /\ skip \in 0..(2 * Window)
    /\ adc \in {"on", "last", "off"}
    /\ mode \in {0, 1} /\ phase \in {0, 1} /\ index \in 0..Pulses
    /\ lit \subseteq Emitters
    /\ cut \subseteq {"adc", "prox", "listen"}
    /\ cpc \in {"idle", "stop", "adcOff", "begin", "unpause", "enable", "toIdle"}
    /\ tpc \in {"idle", "empty", "full"}

\* after ircomStart
Init ==
    /\ fsm = "idle" /\ paused = FALSE /\ listens = FALSE /\ cut = {}
    /\ receiving = FALSE /\ rbit = 0 /\ continuous = FALSE
    /\ sdone = TRUE /\ sbit = 0 /\ left = 0 /\ pulse = FALSE /\ interrupted = FALSE
    /\ queued = 0
    /\ scanId = 0 /\ skip = 0 /\ filled = FALSE
    /\ adc = "on" /\ mode = 0 /\ enabled = TRUE
    /\ phase = 0 /\ index = 0 /\ delay = FALSE
    /\ lit = {}
    /\ cpc = "idle" /\ tpc = "idle"

-----------------------------------------------------------------------------
(* The thread.  It never touches the windows, the measures, the emitters.  *)
ClientGoto(from, to) ==
    /\ tpc = "idle"
    /\ cpc = from /\ cpc' = to
    /\ UNCHANGED <<scanVars, proxVars, lit, tpc>>

\* a word is on its way, and with it the measures of proximity are disabled
InWord == fsm = "send" \/ (fsm = "receive" /\ receiving)

SetContinuous ==
    /\ ClientGoto("idle", "idle")
    /\ continuous' = TRUE
    /\ UNCHANGED <<linkVars, receiving, rbit, sendVars, queued, adc, enabled>>

Listening ==
    /\ fsm' = "receive" /\ paused' = FALSE
    /\ receiving' = FALSE

\* ircomListen; the state machine is paused meanwhile.  A word on its way is
\* dropped: nothing enables the measures again, or switches the ADC on
Listen ==
    /\ ClientGoto("idle", "idle")
    /\ Listening
    /\ listens' = TRUE
    /\ cut' = (cut \ {"listen"}) \union (IF fsm = "send" THEN {"adc"} ELSE {})
                                 \union (IF InWord THEN {"prox"} ELSE {})
    /\ UNCHANGED <<rbit, continuous, sendVars, queued, adc, enabled>>

Pop ==
    /\ ClientGoto("idle", "idle")
    /\ queued > 0
    /\ queued' = queued - 1
    /\ UNCHANGED <<linkVars, receiveVars, sendVars, adc, enabled>>

\* ircomStopListening: the timer interrupt may come between its assignments
StopListening ==
    /\ ClientGoto("idle", "enable")
    /\ receiving' = FALSE
    /\ listens' = FALSE
    /\ UNCHANGED <<fsm, paused, cut, rbit, continuous, sendVars, queued, adc, enabled>>

StopEnables ==
    /\ ClientGoto("enable", "toIdle")
    /\ enabled' = TRUE
    /\ cut' = cut \ {"prox"}
    /\ UNCHANGED <<fsm, paused, listens, receiveVars, sendVars, queued, adc>>

\* a word that is being sent is dropped
StopIdles ==
    /\ ClientGoto("toIdle", "idle")
    /\ fsm' = "idle"
    /\ cut' = cut \union (IF fsm = "send" THEN {"adc"} ELSE {})
    /\ UNCHANGED <<paused, listens, receiveVars, sendVars, queued, adc, enabled>>

\* ircomSend
Send ==
    /\ ClientGoto("idle", "stop")
    /\ paused' = TRUE
    /\ UNCHANGED <<fsm, listens, cut, receiveVars, sendVars, queued, adc, enabled>>

\* the state machine is paused, so this call of ircomStopListening is one step;
\* a word sent in the middle of another forgets that this one was to be
\* followed by listening
SendStopsWith(interrupts) ==
    /\ ClientGoto("stop", "adcOff")
    /\ IF fsm = "receive"
       THEN /\ receiving' = FALSE /\ enabled' = TRUE
            /\ fsm' = "idle"
            /\ interrupted' = interrupts
            /\ cut' = cut \ {"prox"}
       ELSE /\ interrupted' = FALSE
            /\ cut' = cut \union (IF fsm = "send" THEN {"listen"} ELSE {})
            /\ UNCHANGED <<receiving, enabled, fsm>>
    /\ UNCHANGED <<paused, listens, rbit, continuous, sdone, sbit, left, pulse,
                   queued, adc>>

\* mutant: it is not recorded that the reception was interrupted
SendStopsForgets == SendStopsWith(FALSE)
SendStops == SendStopsWith(TRUE)

\* the conversion under way, if any, still ends with an interrupt
AdcOff ==
    /\ ClientGoto("adcOff", "begin")
    /\ adc' \in IF adc = "on" THEN {"last", "off"} ELSE {adc}
    /\ UNCHANGED <<linkVars, receiveVars, sendVars, queued, enabled>>

\* the first bits of a word are marks
BitCount(i) == IF i < 2 THEN {MarkCount} ELSE {MarkCount, SpaceCount}

SendBegins ==
    /\ ClientGoto("begin", "unpause")
    /\ enabled' = FALSE
    /\ sdone' = FALSE /\ pulse' = FALSE
    /\ sbit' = 1 /\ left' \in BitCount(0)
    /\ fsm' = "send"
    /\ cut' = cut \ {"adc", "prox"}
    /\ UNCHANGED <<paused, listens, receiveVars, interrupted, queued, adc>>

SendUnpauses ==
    /\ ClientGoto("unpause", "idle")
    /\ paused' = FALSE
    /\ UNCHANGED <<fsm, listens, cut, receiveVars, sendVars, queued, adc, enabled>>

ClientStep == StopEnables \/ StopIdles \/ SendStops \/ AdcOff \/ SendBegins
                  \/ SendUnpauses

Client == SetContinuous \/ Listen \/ Pop \/ StopListening \/ Send
              \/ ClientStep

-----------------------------------------------------------------------------
(* The interrupt of the timer: sending.  The conversion under way when the *)
(* ADC is switched off is over before the first switch of the emitters.    *)
Runs(state) == ~paused /\ tpc = "idle" /\ fsm = state

Switches ==
    /\ Runs("send") /\ adc # "last"
    /\ pulse' = ~pulse
    /\ UNCHANGED <<continuous, rbit, interrupted, listens, cut, queued, skip,
                   proxVars, cpc, tpc>>

Toggled == IF pulse THEN lit \ Emits ELSE lit \union Emits

SendToggles ==
    /\ Switches
    /\ left > 1
    /\ left' = left - 1
    /\ lit' = Toggled
    /\ UNCHANGED <<fsm, paused, receiving, sdone, sbit, scanId, filled, adc,
                   enabled>>

\* mutant: the same bit is sent again and again
SendNextBitStuck ==
    /\ Switches
    /\ left <= 1 /\ sbit < WordSize + 4
    /\ left' \in BitCount(sbit)
    /\ lit' = Toggled
    /\ UNCHANGED <<fsm, paused, receiving, sdone, sbit, scanId, filled, adc,
                   enabled>>

\* ircomSendNextBit, a bit is left
SendNextBit ==
    /\ Switches
    /\ left <= 1 /\ sbit < WordSize + 4
    /\ sbit' = sbit + 1
    /\ left' \in BitCount(sbit)
    /\ lit' = Toggled
    /\ UNCHANGED <<fsm, paused, receiving, sdone, scanId, filled, adc, enabled>>

\* ircomSendNextBit, the word is sent
SendEndsWith(lights, proximity, converter) ==
    /\ Switches
    /\ left <= 1 /\ sbit >= WordSize + 4
    /\ lit' = lights
    /\ sdone' = TRUE
    /\ enabled' = proximity
    /\ IF interrupted THEN Listening
                      ELSE fsm' = "idle" /\ UNCHANGED <<receiving, paused>>
    /\ scanId' = 0 /\ filled' = FALSE
    /\ adc' = converter
    /\ UNCHANGED <<sbit, left>>

\* mutants: the emitters are left as they are, the proximity is not enabled
\* again, the ADC is not switched on again
SendEndsLit == SendEndsWith(Toggled, TRUE, "on")
SendEndsDisabled == SendEndsWith({}, enabled, "on")
SendEndsAdcOff == SendEndsWith({}, TRUE, adc)
SendEnds == SendEndsWith({}, TRUE, "on")

-----------------------------------------------------------------------------
(* The interrupt of the timer: receiving.                                  *)

\* ircom_is_array_filled reads the flag ...
Poll ==
    /\ Runs("receive")
    /\ tpc' = IF filled THEN "full" ELSE "empty"
    /\ UNCHANGED <<linkVars, receiveVars, sendVars, queued, scanVars, adc, proxVars,
                   enabled, lit, cpc>>

\* ... and resets it
Reset(poll) ==
    /\ tpc = poll /\ tpc' = "idle"
    /\ filled' = FALSE
    /\ UNCHANGED <<continuous, sendVars, adc, proxVars, lit, cpc>>

PollEmpty ==
    /\ Reset("empty")
    /\ UNCHANGED <<linkVars, receiving, rbit, queued, scanId, skip, enabled>>

\* ircomReceiveListen, nothing in the window
ListenNothing ==
    /\ Reset("full")
    /\ ~receiving
    /\ UNCHANGED <<linkVars, receiving, rbit, queued, scanId, skip, enabled>>

\* ircomReceiveListen, a start bit: shift is where its modulation begins.  In the
\* middle of ircomStopListening the word is dropped, the measures are enabled
\* before that
ListenStarts ==
    /\ Reset("full")
    /\ ~receiving
    /\ \E shift \in 1..(Window - 1) : skip' = Window - scanId + shift
    /\ scanId' = 0
    /\ enabled' = FALSE
    /\ receiving' = TRUE /\ rbit' = 0
    /\ cut' = cut \union (IF cpc = "toIdle" THEN {"prox"} ELSE {})
    /\ UNCHANGED <<fsm, paused, listens, queued>>

\* ircomReceiveWord: a bit, either of the two, or none that is recognised
WordBit ==
    /\ Reset("full")
    /\ receiving /\ rbit + 1 < WordSize + 2
    /\ rbit' = rbit + 1
    /\ UNCHANGED <<linkVars, receiving, queued, scanId, skip, enabled>>

WordOver ==
    /\ IF continuous
       THEN Listening /\ UNCHANGED listens
       ELSE /\ fsm' = "idle" /\ receiving' = FALSE
            /\ listens' = FALSE
            /\ UNCHANGED paused
    /\ cut' = cut \ {"prox"}
    /\ UNCHANGED <<scanId, skip>>

\* mutant: a bit that is not recognised is waited for again
WordErrorStays ==
    /\ Reset("full")
    /\ receiving
    /\ UNCHANGED <<linkVars, receiving, rbit, queued, scanId, skip, enabled>>

WordError ==
    /\ Reset("full")
    /\ receiving
    /\ enabled' = TRUE
    /\ WordOver
    /\ UNCHANGED <<rbit, queued>>

\* mutant: a full queue grows
WordEndsOverfills ==
    /\ Reset("full")
    /\ receiving /\ rbit + 1 >= WordSize + 2
    /\ rbit' = rbit + 1
    /\ queued' = queued + 1
    /\ enabled' = TRUE
    /\ WordOver

\* the last bit of the checksum: the message is pushed, right or wrong
WordEnds ==
    /\ Reset("full")
    /\ receiving /\ rbit + 1 >= WordSize + 2
    /\ rbit' = rbit + 1
    /\ queued' = IF queued = Capacity THEN queued ELSE queued + 1
    /\ enabled' = TRUE
    /\ WordOver

TimerInterrupt == SendToggles \/ SendNextBit \/ SendEnds \/ Poll \/ PollEmpty
    \/ ListenNothing \/ ListenStarts \/ WordBit \/ WordError \/ WordEnds

-----------------------------------------------------------------------------
(* The interrupt of the ADC, adc_cb.                                       *)
Converts ==
    /\ adc # "off"
    /\ adc' = IF adc = "last" THEN "off" ELSE adc
    /\ UNCHANGED <<linkVars, receiveVars, sendVars, queued, enabled, cpc, tpc>>

\* prox_trigger reached its limit; a measure is shorter than the period, so
\* it does not happen during one
ProxTrigger ==
    /\ Converts
    /\ enabled /\ mode = 0
    /\ mode' = 1 /\ phase' = 0 /\ index' = 0 /\ delay' = TRUE
    /\ lit' = {}
    /\ UNCHANGED scanVars

ProxCounts ==
    /\ Converts
    /\ mode = 1 /\ delay
    /\ delay' = FALSE
    /\ UNCHANGED <<scanVars, mode, phase, index, lit>>

Measures == Converts /\ mode = 1 /\ ~delay

ProxAmbient ==
    /\ Measures
    /\ index < Pulses /\ phase = 0
    /\ phase' = 1 /\ delay' = TRUE
    /\ lit' = lit \union {index}
    /\ UNCHANGED <<scanVars, mode, index>>

\* mutant: the emitter is left on
ProxReflectedLit ==
    /\ Measures
    /\ index < Pulses /\ phase = 1
    /\ phase' = 0 /\ index' = index + 1 /\ delay' = TRUE
    /\ UNCHANGED <<scanVars, mode, lit>>

ProxReflected ==
    /\ Measures
    /\ index < Pulses /\ phase = 1
    /\ phase' = 0 /\ index' = index + 1 /\ delay' = TRUE
    /\ lit' = lit \ {index}
    /\ UNCHANGED <<scanVars, mode>>

ProxEnds ==
    /\ Measures
    /\ index >= Pulses
    /\ mode' = 0
    /\ scanId' = 0 /\ filled' = FALSE
    /\ UNCHANGED <<skip, phase, index, delay, lit>>

\* a tick of ircom_interrupt
Samples == Converts /\ mode = 0

SampleSkipped ==
    /\ Samples
    /\ skip > 0
    /\ skip' = skip - 1
    /\ UNCHANGED <<scanId, filled, proxVars, lit>>

SampleTaken ==
    /\ Samples
    /\ skip = 0 /\ scanId + 1 < Window
    /\ scanId' = scanId + 1
    /\ UNCHANGED <<skip, filled, proxVars, lit>>

WindowFilled ==
    /\ Samples
    /\ skip = 0 /\ scanId + 1 >= Window
    /\ scanId' = 0
    /\ filled' = TRUE
    /\ UNCHANGED <<skip, proxVars, lit>>

AdcInterrupt == ProxTrigger \/ ProxCounts \/ ProxAmbient \/ ProxReflected
                    \/ ProxEnds \/ SampleSkipped \/ SampleTaken \/ WindowFilled

-----------------------------------------------------------------------------
Next == Client \/ TimerInterrupt \/ AdcInterrupt

Spec == Init /\ [][Next]_vars

(* A call that began goes on between the interrupts of the timer; the      *)
(* timer ticks and the ADC converts.  A conversion that is not a measure   *)
(* of proximity happens again and again since measures are far apart, and  *)
(* not always in the two instructions between the test and the reset of    *)
(* ircom_is_array_filled.                                                  *)
FairSpec ==
    /\ Spec
    /\ SF_vars(ClientStep)
    /\ WF_vars(TimerInterrupt)
    /\ SF_vars(ProxCounts \/ ProxAmbient \/ ProxReflected \/ ProxEnds)
    /\ SF_vars(tpc = "idle" /\ (SampleSkipped \/ SampleTaken))
    /\ SF_vars(tpc = "idle" /\ WindowFilled)

-----------------------------------------------------------------------------
(* Nobody is in the middle of anything.                                    *)
Quiet == cpc = "idle" /\ tpc = "idle"

(* ircomReceive.c:69 and ircomSend.c:51, "prevent ad from triggering prox  *)
(* sampling": whatever is called, no measure of proximity starts in a word, *)
(* received or sent, and the measures go on otherwise, but after a word    *)
(* that ircomListen dropped, or that began to come in the middle of        *)
(* ircomStopListening, until the next word ends.                           *)
MeasuresBetweenWords == Quiet => (enabled <=> ~(InWord \/ "prox" \in cut))

(* Whatever is called, the ADC is off while a word is sent, and at another *)
(* time only if ircomListen or ircomStopListening was called while one was *)
(* sent: the robot is then deaf and blind until the next one is sent.      *)
DeafOnlyWhileSending == Quiet => (adc = "on" <=> ~(fsm = "send" \/ "adc" \in cut))

(* Do not hold (README): the same two, with no exception.                  *)
AlwaysMeasures == Quiet => (enabled <=> ~InWord)
AlwaysHears == Quiet => (adc = "on" <=> fsm # "send")

(* The windows the robot listens to hold none of its own light, of a word  *)
(* or of a measure of proximity, and neither has the ambient light that a  *)
(* measure of proximity starts with (ircom.c:172).                         *)
SamplesInTheDark ==
    [][\/ scanId' \notin {0, scanId}
       \/ filled' /\ ~filled
       \/ phase = 0 /\ phase' = 1
       => lit = {}]_vars

(* ircomSend.c:218: "restart listening immediately if previously           *)
(* interrupted": a robot that listens goes on listening after a word it    *)
(* has sent, if that word was not sent in the middle of another.           *)
ListeningResumes ==
    Quiet /\ listens /\ "listen" \notin cut /\ fsm # "send" => fsm = "receive"

(* Does not hold (README): the same after any word.                        *)
AlwaysResumes == Quiet /\ listens /\ fsm # "send" => fsm = "receive"

(* A word that is sent comes to its end, so that the transceiver leaves    *)
(* its busy wait on ircomSendDone, if no call drops it or sends another in *)
(* its middle.  The reception of one comes to its end, with a message or   *)
(* an error, or cut by a call, if the ADC was not left off.                *)
WordsEnd ==
    /\ ~sdone ~> (sdone \/ "adc" \in cut \/ "listen" \in cut)
    /\ (fsm = "receive" /\ receiving)
          ~> (~(fsm = "receive" /\ receiving) \/ "adc" \in cut)

(* Does not hold (README). ircom.c:22: a couple of sensors is sampled      *)
(* "with the pulse active to measure the reflected light".                 *)
ReflectedIsLit ==
    [][phase = 1 /\ index' = index + 1 => index \in lit]_vars
=============================================================================
