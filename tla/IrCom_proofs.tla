----------------------------- MODULE IrCom_proofs -----------------------------
(***************************************************************************)
(* Proofs about the infrared link, for any window, length of a word,       *)
(* number of emitters, capacity of the queue and lengths of the bits.      *)
(***************************************************************************)
EXTENDS IrCom, TLAPS

(* The parts of the type: flags, places, numbers.                          *)
FlagsOK ==
    {paused, receiving, continuous, sdone, pulse, interrupted, filled,
     enabled, delay, listens} \subseteq BOOLEAN

PlacesOK ==
    /\ fsm \in {"idle", "receive", "send"}
    /\ cut \subseteq {"adc", "prox", "listen"}
    /\ adc \in {"on", "last", "off"}
    /\ mode \in {0, 1} /\ phase \in {0, 1}
    /\ cpc \in {"idle", "stop", "adcOff", "begin", "unpause", "enable", "toIdle"}
    /\ tpc \in {"idle", "empty", "full"}

BitsOK ==
    /\ rbit \in 0..(WordSize + 2)
    /\ sbit \in 0..(WordSize + 4)
    /\ left \in Nat
    /\ queued \in 0..Capacity

ScansOK ==
    /\ scanId \in 0..(Window - 1)
    /\ skip \in 0..(2 * Window)

LightsOK ==
    /\ index \in 0..Pulses
    /\ lit \subseteq Emitters

LEMMA TypeParts == TypeOK <=> FlagsOK /\ PlacesOK /\ BitsOK /\ ScansOK /\ LightsOK
BY DEF TypeOK, FlagsOK, PlacesOK, BitsOK, ScansOK, LightsOK

(* A word that is received has bits to come.                               *)
WordInv == receiving => rbit < WordSize + 2

(* The state machine is paused exactly in ircomSend; the interrupt of the  *)
(* timer is in the middle of a poll only while it receives.                *)
PauseInv ==
    /\ paused <=> cpc \in {"stop", "adcOff", "begin", "unpause"}
    /\ tpc # "idle" => ~paused /\ fsm = "receive"

(* The ADC is off from the moment ircomSend switches it off, to the end of *)
(* the word, or of a word after it if a call has dropped this one.         *)
AdcInv ==
    /\ cpc \notin {"begin", "unpause"} => (adc = "on" <=> ~(fsm = "send" \/ "adc" \in cut))
    /\ fsm = "send" => "adc" \notin cut
    /\ cpc \in {"begin", "unpause"} => adc # "on"
    /\ cpc = "unpause" => fsm = "send"

(* An ADC that may convert finds no light but that of the emitter whose    *)
(* reflection is about to be measured.                                     *)
DarkInv ==
    /\ adc # "off" => lit \subseteq (IF mode = 1 /\ phase = 1 THEN {index} ELSE {})
    /\ phase = 1 => index < Pulses

Inv == TypeOK /\ WordInv /\ PauseInv /\ AdcInv /\ DarkInv

LEMMA InvInit == Init => Inv
<1> SUFFICES ASSUME Init PROVE Inv
  OBVIOUS
<1>1. TypeOK
  <2>1. FlagsOK
    BY DEF Init, FlagsOK
  <2>2. PlacesOK
    BY DEF Init, PlacesOK
  <2>3. BitsOK /\ ScansOK /\ LightsOK
    BY SMT, SizeAssumption DEF Init, BitsOK, ScansOK, LightsOK
  <2> QED BY <2>1, <2>2, <2>3, TypeParts
<1> QED BY <1>1 DEF Init, Inv, WordInv, PauseInv, AdcInv, DarkInv

-----------------------------------------------------------------------------
(* The steps of the thread.                                                *)
LEMMA ClientInv ==
    ASSUME Inv, Client
    PROVE  Inv'
<1> USE DEF Client, ClientStep, SetContinuous, Listen, Pop, StopListening, Send,
            StopEnables, StopIdles, SendStops, SendStopsWith, AdcOff, SendBegins,
            SendUnpauses, Listening, ClientGoto,
            linkVars, receiveVars, sendVars, scanVars, proxVars
<1>0. BitCount(0) \subseteq Nat
  BY CountAssumption DEF BitCount
<1>1. TypeOK'
  <2>0. FlagsOK /\ PlacesOK /\ BitsOK /\ ScansOK /\ LightsOK
    BY TypeParts DEF Inv
  <2>1. FlagsOK'
    BY <2>0 DEF FlagsOK
  <2>2. PlacesOK'
    <3>1. cut' \subseteq cut \union {"adc", "prox", "listen"}
      OBVIOUS
    <3>2. fsm' \in {fsm, "idle", "receive", "send"} /\ adc' \in {adc, "last", "off"}
      OBVIOUS
    <3>3. mode' = mode /\ phase' = phase /\ tpc' = tpc
      OBVIOUS
    <3>4. cpc' \in {"idle", "stop", "adcOff", "begin", "unpause", "enable", "toIdle"}
      OBVIOUS
    <3> HIDE DEF Client
    <3> QED BY <2>0, <3>1, <3>2, <3>3, <3>4 DEF PlacesOK
  <2>3. BitsOK'
    BY SMT, <2>0, <1>0, SizeAssumption DEF Inv, WordInv, BitsOK
  <2>4. ScansOK'
    BY SMT, <2>0, SizeAssumption DEF ScansOK
  <2>5. LightsOK'
    BY <2>0 DEF LightsOK
  <2> QED BY <2>1, <2>2, <2>3, <2>4, <2>5
          DEF TypeOK, FlagsOK, PlacesOK, BitsOK, ScansOK, LightsOK
<1>2. WordInv'
  BY DEF Inv, TypeOK, WordInv
<1>3. PauseInv'
  BY DEF Inv, TypeOK, PauseInv
<1>4. AdcInv'
  BY DEF Inv, TypeOK, PauseInv, AdcInv
<1>5. DarkInv'
  BY DEF Inv, TypeOK, DarkInv
<1> QED BY <1>1, <1>2, <1>3, <1>4, <1>5 DEF Inv

(* The steps of the interrupt of the timer.                                *)
LEMMA TimerInv ==
    ASSUME Inv, TimerInterrupt
    PROVE  Inv'
<1> USE DEF TimerInterrupt, SendToggles, SendNextBit, SendEnds, SendEndsWith,
            Poll, PollEmpty, ListenNothing, ListenStarts, WordBit, WordError,
            WordEnds, WordOver, Switches, Toggled, Reset, Runs, Listening,
            linkVars, receiveVars, sendVars, scanVars, proxVars
<1>0. \A i : BitCount(i) \subseteq Nat
  BY CountAssumption DEF BitCount
<1>1. TypeOK'
  <2>0. FlagsOK /\ PlacesOK /\ BitsOK /\ ScansOK /\ LightsOK
    BY TypeParts DEF Inv
  <2>1. FlagsOK'
    BY <2>0 DEF FlagsOK
  <2>2. PlacesOK'
    <3>1. cut' \subseteq cut \union {"prox"}
      OBVIOUS
    <3>2. cut' \subseteq {"adc", "prox", "listen"}
      BY <2>0, <3>1 DEF PlacesOK
    <3>3. /\ fsm' \in {"idle", "receive", "send"} /\ adc' \in {"on", "last", "off"}
          /\ mode' \in {0, 1} /\ phase' \in {0, 1}
      BY <2>0 DEF PlacesOK
    <3>4. cpc' = cpc /\ tpc' \in {"idle", "empty", "full"}
      BY <2>0 DEF PlacesOK
    <3> QED BY <2>0, <3>2, <3>3, <3>4 DEF PlacesOK
  <2>3. BitsOK'
    BY SMT, <2>0, <1>0, SizeAssumption DEF Inv, WordInv, BitsOK
  <2>4. ScansOK'
    BY SMT, <2>0, SizeAssumption DEF ScansOK
  <2>5. LightsOK'
    BY <2>0, EmitsAssumption DEF LightsOK, Emitters
  <2> QED BY <2>1, <2>2, <2>3, <2>4, <2>5
          DEF TypeOK, FlagsOK, PlacesOK, BitsOK, ScansOK, LightsOK
<1>2. WordInv'
  <2>1. rbit \in Nat /\ WordSize \in Nat
    BY SMT, SizeAssumption DEF Inv, TypeOK
  <2>2. CASE ListenStarts
    BY SMT, <2>1, <2>2, SizeAssumption DEF WordInv
  <2>3. CASE WordBit
    BY SMT, <2>1, <2>3 DEF WordInv
  <2>4. CASE ~ListenStarts /\ ~WordBit
    <3>1. receiving' => receiving /\ rbit' = rbit
      BY <2>4
    <3> QED BY <3>1 DEF Inv, WordInv
  <2> QED BY <2>2, <2>3, <2>4
<1>3. PauseInv'
  BY DEF Inv, TypeOK, PauseInv
<1>4. AdcInv'
  BY DEF Inv, TypeOK, PauseInv, AdcInv
<1>5. DarkInv'
  BY DEF Inv, TypeOK, PauseInv, AdcInv, DarkInv
<1> QED BY <1>1, <1>2, <1>3, <1>4, <1>5 DEF Inv

(* The steps of the interrupt of the ADC.                                  *)
LEMMA AdcInterruptInv ==
    ASSUME Inv, AdcInterrupt
    PROVE  Inv'
<1> USE DEF AdcInterrupt, ProxTrigger, ProxCounts, ProxAmbient, ProxReflected,
            ProxEnds, SampleSkipped, SampleTaken, WindowFilled, Converts, Measures,
            Samples, linkVars, receiveVars, sendVars, scanVars, proxVars
<1>1. TypeOK'
  <2>0. FlagsOK /\ PlacesOK /\ BitsOK /\ ScansOK /\ LightsOK
    BY TypeParts DEF Inv
  <2>1. FlagsOK'
    BY <2>0 DEF FlagsOK
  <2>2. PlacesOK'
    <3>1. cut' = cut /\ fsm' = fsm /\ cpc' = cpc /\ tpc' = tpc
      OBVIOUS
    <3>2. adc' \in {adc, "off"}
      OBVIOUS
    <3>3. mode' \in {mode, 0, 1} /\ phase' \in {phase, 0, 1}
      OBVIOUS
    <3> HIDE DEF AdcInterrupt
    <3> QED BY <2>0, <3>1, <3>2, <3>3 DEF PlacesOK
  <2>3. BitsOK'
    BY SMT, <2>0, SizeAssumption DEF Inv, WordInv, BitsOK
  <2>4. ScansOK'
    BY SMT, <2>0, SizeAssumption DEF ScansOK
  <2>5. LightsOK'
    <3>1. index' \in 0..Pulses
      BY SMT, <2>0, SizeAssumption DEF LightsOK
    <3>2. \A i \in 0..Pulses : i < Pulses => i \in Emitters
      BY SMT, SizeAssumption DEF Emitters
    <3>3. lit' \subseteq Emitters
      BY <2>0, <3>2 DEF LightsOK
    <3> QED BY <3>1, <3>3 DEF LightsOK
  <2> QED BY <2>1, <2>2, <2>3, <2>4, <2>5
          DEF TypeOK, FlagsOK, PlacesOK, BitsOK, ScansOK, LightsOK
<1>2. WordInv'
  BY DEF Inv, TypeOK, WordInv
<1>3. PauseInv'
  BY DEF Inv, TypeOK, PauseInv
<1>4. AdcInv'
  BY DEF Inv, TypeOK, AdcInv
<1>5. DarkInv'
  BY SMT, SizeAssumption DEF Inv, TypeOK, DarkInv
<1> QED BY <1>1, <1>2, <1>3, <1>4, <1>5 DEF Inv

LEMMA InvNext == Inv /\ [Next]_vars => Inv'
<1> SUFFICES ASSUME Inv, [Next]_vars PROVE Inv'
  OBVIOUS
<1>1. CASE UNCHANGED vars
  BY <1>1 DEF vars, linkVars, receiveVars, sendVars, scanVars, proxVars,
              Inv, TypeOK, WordInv, PauseInv, AdcInv, DarkInv
<1> QED BY <1>1, ClientInv, TimerInv, AdcInterruptInv DEF Next

LEMMA SpecInv == Spec => []Inv
BY InvInit, InvNext, PTL DEF Spec

(* Every variable keeps its type, whatever the thread calls: the counts of *)
(* bits and samples, which index the window and the word, stay in them.    *)
THEOREM LinkTypeOK == Spec => []TypeOK
<1>1. Inv => TypeOK
  BY DEF Inv
<1> QED BY SpecInv, <1>1, PTL

(* ircomSend.c:49 and 224: whatever the thread calls, and whenever, the    *)
(* ADC is off between two calls while a word is sent, and after a word     *)
(* that a call has dropped; at no other time is the robot deaf and blind.  *)
THEOREM DeafTheorem == Spec => []DeafOnlyWhileSending
<1>1. Inv => DeafOnlyWhileSending
  BY DEF Inv, AdcInv, DeafOnlyWhileSending, Quiet
<1> QED BY SpecInv, <1>1, PTL

(* What moves a window or a measure on is a conversion, and a conversion   *)
(* that does finds the ADC running and no measure of reflected light.      *)
LEMMA SampleLemma ==
    ASSUME Inv, [Next]_vars,
           \/ scanId' \notin {0, scanId}
           \/ filled' /\ ~filled
           \/ phase = 0 /\ phase' = 1
    PROVE  adc # "off" /\ ~(mode = 1 /\ phase = 1)
<1> USE DEF linkVars, receiveVars, sendVars, scanVars, proxVars
<1>1. ASSUME UNCHANGED <<scanVars, proxVars>> PROVE FALSE
  BY <1>1
<1>2. CASE UNCHANGED vars
  BY <1>1, <1>2 DEF vars
<1>3. CASE Client
  BY <1>1, <1>3 DEF Client, ClientStep, SetContinuous, Listen, Pop, StopListening, Send,
        StopEnables, StopIdles, SendStops, SendStopsWith, AdcOff, SendBegins,
        SendUnpauses, ClientGoto
<1>4. CASE TimerInterrupt
  BY <1>4 DEF TimerInterrupt, SendToggles, SendNextBit, SendEnds, SendEndsWith,
        Poll, PollEmpty, ListenNothing, ListenStarts, WordBit, WordError,
        WordEnds, WordOver, Switches, Reset
<1>5. CASE AdcInterrupt
  BY <1>5 DEF AdcInterrupt, ProxTrigger, ProxCounts, ProxAmbient, ProxReflected,
        ProxEnds, SampleSkipped, SampleTaken, WindowFilled, Converts, Measures, Samples
<1> QED BY <1>2, <1>3, <1>4, <1>5 DEF Next

(* ircomSend.c:49, ircom.c:172: no window holds light of the robot itself, *)
(* nor does the ambient light of a measure, whenever the ADC was switched  *)
(* off: in the middle of a window, of a measure or of its own conversion.  *)
THEOREM DarkTheorem == Spec => SamplesInTheDark
<1> DEFINE Sampled == \/ scanId' \notin {0, scanId}
                      \/ filled' /\ ~filled
                      \/ phase = 0 /\ phase' = 1
<1>1. Inv /\ [Next]_vars => [Sampled => lit = {}]_vars
  <2> SUFFICES ASSUME Inv, [Next]_vars, Sampled PROVE lit = {}
    OBVIOUS
  <2>1. adc # "off" /\ ~(mode = 1 /\ phase = 1)
    BY SampleLemma
  <2> QED BY <2>1 DEF Inv, DarkInv
<1>2. SamplesInTheDark <=> [][Sampled => lit = {}]_vars
  BY PTL DEF SamplesInTheDark
<1> HIDE DEF Sampled
<1> QED BY SpecInv, <1>1, <1>2, PTL DEF Spec

-----------------------------------------------------------------------------
(* The measures are enabled but in a word, or where ircomListen or         *)
(* ircomStopListening left them disabled.                                  *)
MeasureInv ==
    /\ cpc \in {"adcOff", "begin"} => fsm # "receive"
    /\ fsm = "send" => "prox" \notin cut
    /\ cpc \notin {"enable", "toIdle"} => (enabled <=> ~(InWord \/ "prox" \in cut))
    /\ cpc = "toIdle" => (enabled <=> "prox" \notin cut)

(* The reception goes on, or is to be taken up again, if no word is sent   *)
(* while a word is sent.                                                   *)
ListenInv ==
    /\ cpc \in {"adcOff", "begin"} => fsm # "receive"
    /\ cpc \in {"enable", "toIdle"} => ~listens
    /\ listens /\ "listen" \notin cut =>
          \/ fsm = "receive"
          \/ interrupted /\ (fsm = "send" \/ cpc \in {"adcOff", "begin"})

LEMMA ClientLink ==
    ASSUME Inv, Client
    PROVE  /\ MeasureInv => MeasureInv'
           /\ ListenInv => ListenInv'
<1> USE DEF Client, ClientStep, SetContinuous, Listen, Pop, StopListening, Send,
            StopEnables, StopIdles, SendStops, SendStopsWith, AdcOff, SendBegins,
            SendUnpauses, Listening, ClientGoto, linkVars, receiveVars, sendVars
<1>1. MeasureInv => MeasureInv'
  BY DEF Inv, TypeOK, PauseInv, MeasureInv, InWord
<1>2. ListenInv => ListenInv'
  BY DEF Inv, TypeOK, PauseInv, ListenInv
<1> QED BY <1>1, <1>2

LEMMA TimerLink ==
    ASSUME Inv, TimerInterrupt
    PROVE  /\ MeasureInv => MeasureInv'
           /\ ListenInv => ListenInv'
<1> USE DEF TimerInterrupt, SendToggles, SendNextBit, SendEnds, SendEndsWith,
            Poll, PollEmpty, ListenNothing, ListenStarts, WordBit, WordError,
            WordEnds, WordOver, Switches, Reset, Runs, Listening,
            linkVars, receiveVars, sendVars
<1>1. MeasureInv => MeasureInv'
  BY DEF Inv, TypeOK, PauseInv, MeasureInv, InWord
<1>2. ListenInv => ListenInv'
  BY DEF Inv, TypeOK, PauseInv, ListenInv
<1> QED BY <1>1, <1>2

LEMMA AdcLink ==
    ASSUME AdcInterrupt \/ UNCHANGED vars
    PROVE  /\ MeasureInv => MeasureInv'
           /\ ListenInv => ListenInv'
BY DEF AdcInterrupt, ProxTrigger, ProxCounts, ProxAmbient, ProxReflected, ProxEnds,
       SampleSkipped, SampleTaken, WindowFilled, Converts, Measures, Samples,
       vars, linkVars, receiveVars, sendVars, MeasureInv, ListenInv, InWord

(* ircomReceive.c:69, ircomSend.c:51: whatever is called, and whenever, no *)
(* measure of proximity is triggered in a word, and none is kept from      *)
(* being triggered after it, whether the word ends well, badly or is cut   *)
(* by a sending; but for the word that ircomListen drops and the word that *)
(* begins in ircomStopListening, whose measures stay disabled.             *)
THEOREM MeasuresTheorem == Spec => []MeasuresBetweenWords
<1>1. Init => MeasureInv
  BY DEF Init, MeasureInv, InWord
<1>2. Inv /\ MeasureInv /\ [Next]_vars => MeasureInv'
  BY ClientLink, TimerLink, AdcLink DEF Next
<1>3. MeasureInv => MeasuresBetweenWords
  BY DEF MeasureInv, MeasuresBetweenWords, Quiet
<1> QED BY SpecInv, <1>1, <1>2, <1>3, PTL DEF Spec

(* ircomSend.c:218: a robot that listens does so again after every word it *)
(* has sent, if it was not sent in the middle of another.                  *)
THEOREM ResumesTheorem == Spec => []ListeningResumes
<1>1. Init => ListenInv
  BY DEF Init, ListenInv
<1>2. Inv /\ ListenInv /\ [Next]_vars => ListenInv'
  BY ClientLink, TimerLink, AdcLink DEF Next
<1>3. ListenInv => ListeningResumes
  BY DEF ListenInv, ListeningResumes, Quiet
<1> QED BY SpecInv, <1>1, <1>2, <1>3, PTL DEF Spec
=============================================================================
