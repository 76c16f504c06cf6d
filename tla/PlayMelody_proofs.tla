-------------------------- MODULE PlayMelody_proofs --------------------------
(***************************************************************************)
(* Proofs about the melody player, for any number of callers and any       *)
(* melodies.                                                               *)
(***************************************************************************)
EXTENDS PlayMelody, TLAPS

(* What a caller is doing agrees with the call it makes; in particular a   *)
(* caller that is about to resume the player has a track for it.           *)
OrderInv ==
    \A c \in Callers :
       /\ pc[c] = "idle" <=> order[c] = NoCall
       /\ pc[c] = "stop" => order[c].option \in {"force", "stop"}
       /\ pc[c] \in {"test", "lock", "park", "parked", "relock", "unlock"}
             => order[c].option \in {"force", "wait", "await"}
       /\ pc[c] \in {"check", "arm", "resume"} => order[c].option \in PlayOption

(* The speaker sounds only during a note.                                  *)
SilentInv == dac = "playing" => ppc = "note"

Inv == TypeOK /\ OrderInv /\ Handover /\ MutexDiscipline /\ SilentInv

-----------------------------------------------------------------------------
(* The shape of the calls.                                                 *)
LEMMA CallLemma ==
    /\ \A o \in Call : o.option \in Option /\ o # NoCall
    /\ \A o \in Call : o.option \in PlayOption => o.track \in Tracks
    /\ \A o \in Call \union {NoCall} : o.track \in Tracks \union {NoTrack}
    /\ NoCall.option = "none" /\ NoCall.track = NoTrack
BY DEF Call, NoCall, Option, PlayOption

(* The lengths of the melodies are numbers.                                *)
LEMMA LengthLemma == \A t \in Tracks : Length[t] \in Nat
BY SMT, NotesAssumption DEF Length

LEMMA InitInv == Init => Inv
<1> SUFFICES ASSUME Init PROVE Inv
  OBVIOUS
<1>0. /\ ref = FALSE /\ play = TRUE
      /\ mail = NoTrack /\ waiting = {} /\ lock = NoCaller
      /\ pc = [c \in Callers |-> "idle"]
      /\ order = [c \in Callers |-> NoCall]
      /\ ppc = "unstarted" /\ song = NoTrack /\ thisNote = 0 /\ dac = "stopped"
  BY DEF Init, CallInit
<1>1. TypeOK
  <2>1. pc \in [Callers -> CallerPC] /\ order \in [Callers -> Call \union {NoCall}]
    BY <1>0 DEF CallerPC
  <2> QED BY <1>0, <2>1 DEF TypeOK, CallTypeOK, PlayerPC
<1>2. OrderInv
  <2>1. \A c \in Callers : pc[c] = "idle" /\ order[c] = NoCall
    BY <1>0
  <2> QED BY <2>1 DEF OrderInv
<1>3. Handover
  BY <1>0, NoTrackAssumption DEF Handover
<1>4. MutexDiscipline
  BY <1>0, NoCallerAssumption DEF MutexDiscipline
<1>5. SilentInv
  BY <1>0 DEF SilentInv
<1> QED BY <1>1, <1>2, <1>3, <1>4, <1>5 DEF Inv

-----------------------------------------------------------------------------
(* One lemma for the entry of a call, one for the steps of a caller, one   *)
(* for the steps of the player.                                            *)
LEMMA EnterInv ==
    ASSUME Inv, NEW c \in Callers, NEW call \in Call, CallEnter(c, call)
    PROVE  Inv'
<1> USE CallLemma, NoTrackAssumption, NoCallerAssumption
    DEF Inv, CallEnter, Enter, playerVars
<1>0. call.option \in Option /\ pc[c] = "idle"
  OBVIOUS
<1>1. TypeOK'
  BY SMT, <1>0 DEF TypeOK, CallTypeOK, CallerPC, Option, PlayOption
<1>2. OrderInv'
  BY SMT, <1>0 DEF OrderInv, TypeOK, CallTypeOK, Option, PlayOption
<1>3. Handover'
  BY SMT DEF Handover
<1>4. MutexDiscipline'
  BY SMT, <1>0 DEF MutexDiscipline, TypeOK, CallTypeOK, Option, PlayOption
<1>5. SilentInv'
  BY DEF SilentInv
<1> QED BY <1>1, <1>2, <1>3, <1>4, <1>5

(* Moving a caller changes nothing of the others.                          *)
Moved(c, from, to) ==
    /\ pc' \in [Callers -> CallerPC]
    /\ order' \in [Callers -> Call \union {NoCall}]
    /\ pc[c] = from /\ pc'[c] = to
    /\ order'[c] = IF to = "idle" THEN NoCall ELSE order[c]
    /\ \A d \in Callers \ {c} : pc'[d] = pc[d] /\ order'[d] = order[d]

LEMMA GotoLemma ==
    ASSUME TypeOK, NEW c \in Callers, NEW from, NEW to \in CallerPC, Goto(c, from, to)
    PROVE  Moved(c, from, to)
BY SMT DEF Goto, Moved, TypeOK, CallTypeOK

(* Every step of a caller moves it, and each move keeps the invariant.     *)
LEMMA CallerInv ==
    ASSUME Inv, NEW c \in Callers, CallStep(c)
    PROVE  Inv'
<1>0. /\ ppc' = ppc /\ song' = song /\ thisNote' = thisNote /\ dac' = dac
      /\ TypeOK /\ OrderInv /\ Handover /\ MutexDiscipline /\ SilentInv
  BY DEF CallStep, playerVars, Inv
<1> USE NoTrackAssumption, NoCallerAssumption
<1>1. ASSUME CheckRef(c) PROVE Inv'
  <2>0. /\ ref' = ref /\ play' = play /\ mail' = mail /\ lock' = lock
      /\ waiting' = waiting
    BY <1>1 DEF CheckRef
  <2>1. PICK to \in {"arm", "idle"} : Goto(c, "check", to)
    BY <1>1 DEF CheckRef
  <2>2. to \in CallerPC /\ Moved(c, "check", to)
    BY <1>0, <2>1, GotoLemma DEF CallerPC
  <2>5. TypeOK'
    BY <1>0, <2>0, <2>2 DEF Moved, TypeOK, CallTypeOK
  <2>6. OrderInv'
    BY <1>0, <2>1, <2>2 DEF Moved, OrderInv, PlayOption
  <2>7. Handover'
    BY <1>0, <2>0 DEF Handover
  <2>8. MutexDiscipline'
    BY <1>0, <2>0, <2>1, <2>2 DEF Moved, MutexDiscipline, TypeOK, CallTypeOK
  <2> QED BY <1>0, <2>5, <2>6, <2>7, <2>8 DEF Inv, SilentInv
<1>2. ASSUME StopCurrent(c) PROVE Inv'
  <2>0. /\ ref' = ref /\ play' = FALSE /\ mail' = mail /\ lock' = lock
      /\ waiting' = waiting
    BY <1>2 DEF StopCurrent
  <2>1. PICK to \in {"idle", "test"} :
            /\ Goto(c, "stop", to)
            /\ to = "test" => order[c].option # "stop"
    BY <1>2 DEF StopCurrent
  <2>2. to \in CallerPC /\ Moved(c, "stop", to)
    BY <1>0, <2>1, GotoLemma DEF CallerPC
  <2>5. TypeOK'
    BY <1>0, <2>0, <2>2 DEF Moved, TypeOK, CallTypeOK
  <2>6. OrderInv'
    BY <1>0, <2>1, <2>2 DEF Moved, OrderInv, PlayOption
  <2>7. Handover'
    BY <1>0, <2>0 DEF Handover
  <2>8. MutexDiscipline'
    BY <1>0, <2>0, <2>1, <2>2 DEF Moved, MutexDiscipline, TypeOK, CallTypeOK
  <2> QED BY <1>0, <2>5, <2>6, <2>7, <2>8 DEF Inv, SilentInv
<1>3. ASSUME TestRef(c) PROVE Inv'
  <2>0. /\ ref' = ref /\ play' = play /\ mail' = mail /\ lock' = lock
      /\ waiting' = waiting
    BY <1>3 DEF TestRef
  <2>1. PICK to \in {"idle", "arm", "lock"} :
            /\ Goto(c, "test", to)
            /\ to = "arm" => order[c].option # "await"
    BY <1>3 DEF TestRef, AfterWait
  <2>2. to \in CallerPC /\ Moved(c, "test", to)
    BY <1>0, <2>1, GotoLemma DEF CallerPC
  <2>5. TypeOK'
    BY <1>0, <2>0, <2>2 DEF Moved, TypeOK, CallTypeOK
  <2>6. OrderInv'
    BY <1>0, <2>1, <2>2 DEF Moved, OrderInv, PlayOption
  <2>7. Handover'
    BY <1>0, <2>0 DEF Handover
  <2>8. MutexDiscipline'
    BY <1>0, <2>0, <2>1, <2>2 DEF Moved, MutexDiscipline, TypeOK, CallTypeOK
  <2> QED BY <1>0, <2>5, <2>6, <2>7, <2>8 DEF Inv, SilentInv
<1>4. ASSUME MtxLock(c) PROVE Inv'
  <2>0. /\ ref' = ref /\ play' = play /\ mail' = mail /\ lock = NoCaller
      /\ lock' = c /\ waiting' = waiting
    BY <1>4 DEF MtxLock
  <2>1. PICK from \in {"lock", "relock"}, to \in {"park", "unlock"} :
            /\ Goto(c, from, to)
            /\ from = "lock" <=> to = "park"
    BY <1>4 DEF MtxLock
  <2>2. to \in CallerPC /\ Moved(c, from, to)
    BY <1>0, <2>1, GotoLemma DEF CallerPC
  <2>5. TypeOK'
    BY <1>0, <2>0, <2>2 DEF Moved, TypeOK, CallTypeOK
  <2>6. OrderInv'
    BY <1>0, <2>1, <2>2 DEF Moved, OrderInv, PlayOption
  <2>7. Handover'
    BY <1>0, <2>0 DEF Handover
  <2>8. MutexDiscipline'
    BY <1>0, <2>0, <2>1, <2>2 DEF Moved, MutexDiscipline, TypeOK, CallTypeOK
  <2> QED BY <1>0, <2>5, <2>6, <2>7, <2>8 DEF Inv, SilentInv
<1>5. ASSUME CondWait(c) PROVE Inv'
  <2>0. /\ ref' = ref /\ play' = play /\ mail' = mail /\ lock' = NoCaller
      /\ waiting' = waiting \union {c}
    BY <1>5 DEF CondWait
  <2>1. PICK to \in {"parked"} : Goto(c, "park", to)
    BY <1>5 DEF CondWait
  <2>2. to \in CallerPC /\ Moved(c, "park", to)
    BY <1>0, <2>1, GotoLemma DEF CallerPC
  <2>5. TypeOK'
    BY <1>0, <2>0, <2>2 DEF Moved, TypeOK, CallTypeOK
  <2>6. OrderInv'
    BY <1>0, <2>1, <2>2 DEF Moved, OrderInv, PlayOption
  <2>7. Handover'
    BY <1>0, <2>0 DEF Handover
  <2>8. MutexDiscipline'
    BY <1>0, <2>0, <2>1, <2>2 DEF Moved, MutexDiscipline, TypeOK, CallTypeOK
  <2> QED BY <1>0, <2>5, <2>6, <2>7, <2>8 DEF Inv, SilentInv
<1>6. ASSUME MtxUnlock(c) PROVE Inv'
  <2>0. /\ ref' = ref /\ play' = play /\ mail' = mail /\ lock' = NoCaller
      /\ waiting' = waiting
    BY <1>6 DEF MtxUnlock
  <2>1. PICK to \in {"idle", "arm"} :
            /\ Goto(c, "unlock", to)
            /\ to = "arm" => order[c].option # "await"
    BY <1>6 DEF MtxUnlock, AfterWait
  <2>2. to \in CallerPC /\ Moved(c, "unlock", to)
    BY <1>0, <2>1, GotoLemma DEF CallerPC
  <2>5. TypeOK'
    BY <1>0, <2>0, <2>2 DEF Moved, TypeOK, CallTypeOK
  <2>6. OrderInv'
    BY <1>0, <2>1, <2>2 DEF Moved, OrderInv, PlayOption
  <2>7. Handover'
    BY <1>0, <2>0 DEF Handover
  <2>8. MutexDiscipline'
    BY <1>0, <2>0, <2>1, <2>2 DEF Moved, MutexDiscipline, TypeOK, CallTypeOK
  <2> QED BY <1>0, <2>5, <2>6, <2>7, <2>8 DEF Inv, SilentInv
<1>7. ASSUME Arm(c) PROVE Inv'
  <2>0. /\ ref' = ref /\ play' = TRUE /\ mail' = mail /\ lock' = lock
      /\ waiting' = waiting
    BY <1>7 DEF Arm
  <2>1. PICK to \in {"resume"} : Goto(c, "arm", to)
    BY <1>7 DEF Arm
  <2>2. to \in CallerPC /\ Moved(c, "arm", to)
    BY <1>0, <2>1, GotoLemma DEF CallerPC
  <2>5. TypeOK'
    BY <1>0, <2>0, <2>2 DEF Moved, TypeOK, CallTypeOK
  <2>6. OrderInv'
    BY <1>0, <2>1, <2>2 DEF Moved, OrderInv, PlayOption
  <2>7. Handover'
    BY <1>0, <2>0 DEF Handover
  <2>8. MutexDiscipline'
    BY <1>0, <2>0, <2>1, <2>2 DEF Moved, MutexDiscipline, TypeOK, CallTypeOK
  <2> QED BY <1>0, <2>5, <2>6, <2>7, <2>8 DEF Inv, SilentInv
<1>8. ASSUME ThdResume(c) PROVE Inv'
  <2>0. /\ play' = play /\ lock' = lock /\ waiting' = waiting
    BY <1>8 DEF ThdResume
  <2>1. PICK to \in {"idle"} : Goto(c, "resume", to)
    BY <1>8 DEF ThdResume
  <2>2. to \in CallerPC /\ Moved(c, "resume", to)
    BY <1>0, <2>1, GotoLemma DEF CallerPC
  <2>3. order[c].track \in Tracks
    BY <1>0, <2>2, CallLemma DEF Moved, OrderInv, TypeOK, CallTypeOK, PlayOption, NoCall
  <2>4. /\ ref' \in BOOLEAN /\ mail' \in Tracks \union {NoTrack}
        /\ ref' <=> ppc = "suspended" /\ mail' = NoTrack
        /\ mail' # NoTrack => ppc = "suspended"
    BY <1>0, <1>8, <2>3 DEF ThdResume, TypeOK, CallTypeOK, Handover
  <2>5. TypeOK'
    BY <1>0, <2>0, <2>4, <2>2 DEF Moved, TypeOK, CallTypeOK
  <2>6. OrderInv'
    BY <1>0, <2>1, <2>2 DEF Moved, OrderInv, PlayOption
  <2>7. Handover'
    BY <1>0, <2>0, <2>4 DEF Handover
  <2>8. MutexDiscipline'
    BY <1>0, <2>0, <2>1, <2>2 DEF Moved, MutexDiscipline, TypeOK, CallTypeOK
  <2> QED BY <1>0, <2>5, <2>6, <2>7, <2>8 DEF Inv, SilentInv
<1> QED BY <1>1, <1>2, <1>3, <1>4, <1>5, <1>6, <1>7, <1>8 DEF CallStep, CallerStep
-----------------------------------------------------------------------------
(* Nothing the player does disturbs the callers, but the broadcast, which  *)
(* sends the sleepers back to the mutex.                                   *)
LEMMA PlayerInv ==
    ASSUME Inv, Start \/ PlayerStep
    PROVE  Inv'
<1>0. /\ TypeOK /\ OrderInv /\ Handover /\ MutexDiscipline /\ SilentInv
      /\ order' = order /\ lock' = lock
  BY DEF Inv, Start, PlayerStep, Suspend, Awake, PlayNote, EndNote, LeaveLoop, Clear,
         Broadcast, ThdSuspend, ThdAwake, ClearPlay, CondBroadcast, callVars
<1> USE NoTrackAssumption DEF PlayerGoto
<1> DEFINE Same == pc' = pc /\ waiting' = waiting
<1>a. ASSUME Same PROVE OrderInv' /\ MutexDiscipline'
  BY <1>0, <1>a DEF OrderInv, MutexDiscipline
<1>b. ppc' \in PlayerPC
  BY DEF Start, PlayerStep, Suspend, Awake, PlayNote, EndNote, LeaveLoop, Clear,
         Broadcast, PlayerPC
<1>1. ASSUME Start PROVE Inv'
  <2>1. TypeOK'
    BY <1>0, <1>b, <1>1 DEF Start, callVars, TypeOK, CallTypeOK
  <2>2. Handover' /\ SilentInv'
    BY <1>0, <1>1 DEF Start, callVars, Handover, SilentInv
  <2> QED BY <1>1, <1>a, <2>1, <2>2 DEF Start, callVars, Inv
<1>2. ASSUME Suspend PROVE Inv'
  <2>1. TypeOK'
    BY <1>0, <1>b, <1>2 DEF Suspend, ThdSuspend, TypeOK, CallTypeOK
  <2>2. Handover' /\ SilentInv'
    BY <1>0, <1>2 DEF Suspend, ThdSuspend, Handover, SilentInv
  <2> QED BY <1>2, <1>a, <2>1, <2>2 DEF Suspend, ThdSuspend, Inv
<1>3. ASSUME Awake PROVE Inv'
  <2>1. song' \in Tracks /\ thisNote' = 0 /\ Length[song'] \in Nat
    BY <1>0, <1>3, LengthLemma DEF Awake, ThdAwake, TypeOK, CallTypeOK
  <2>2. TypeOK'
    BY <1>0, <1>b, <1>3, <2>1 DEF Awake, ThdAwake, TypeOK, CallTypeOK
  <2>3. Handover' /\ SilentInv'
    BY <1>0, <1>3, <2>1 DEF Awake, ThdAwake, Handover, SilentInv
  <2> QED BY <1>3, <1>a, <2>2, <2>3 DEF Awake, ThdAwake, Inv
<1>4. ASSUME PlayNote PROVE Inv'
  <2>1. TypeOK'
    BY <1>0, <1>b, <1>4 DEF PlayNote, callVars, TypeOK, CallTypeOK
  <2>2. Handover' /\ SilentInv'
    BY <1>0, <1>4 DEF PlayNote, callVars, Handover, SilentInv
  <2> QED BY <1>4, <1>a, <2>1, <2>2 DEF PlayNote, callVars, Inv
<1>5. ASSUME EndNote PROVE Inv'
  <2>1. song \in Tracks /\ thisNote < Length[song] /\ thisNote \in Nat
    BY <1>0, <1>5 DEF EndNote, Handover, TypeOK
  <2>2. thisNote' \in Nat /\ thisNote' <= Length[song]
    BY <1>5, <2>1, LengthLemma DEF EndNote
  <2>3. TypeOK'
    BY <1>0, <1>b, <1>5, <2>2 DEF EndNote, callVars, TypeOK, CallTypeOK
  <2>4. Handover' /\ SilentInv'
    BY <1>0, <1>5, <2>1, <2>2 DEF EndNote, callVars, Handover, SilentInv
  <2> QED BY <1>5, <1>a, <2>3, <2>4 DEF EndNote, callVars, Inv
<1>6. ASSUME LeaveLoop PROVE Inv'
  <2>1. TypeOK'
    BY <1>0, <1>b, <1>6 DEF LeaveLoop, callVars, TypeOK, CallTypeOK
  <2>2. Handover' /\ SilentInv'
    BY <1>0, <1>6 DEF LeaveLoop, callVars, Handover, SilentInv
  <2> QED BY <1>6, <1>a, <2>1, <2>2 DEF LeaveLoop, callVars, Inv
<1>7. ASSUME Clear PROVE Inv'
  <2>1. TypeOK'
    BY <1>0, <1>b, <1>7 DEF Clear, ClearPlay, TypeOK, CallTypeOK
  <2>2. Handover' /\ SilentInv'
    BY <1>0, <1>7 DEF Clear, ClearPlay, Handover, SilentInv
  <2> QED BY <1>7, <1>a, <2>1, <2>2 DEF Clear, ClearPlay, Inv
<1>8. ASSUME Broadcast PROVE Inv'
  <2>1. /\ pc' = [c \in Callers |-> IF c \in waiting THEN "relock" ELSE pc[c]]
        /\ waiting' = {} /\ lock' = lock /\ order' = order
    BY <1>8 DEF Broadcast, CondBroadcast
  <2>2. TypeOK'
    <3>1. pc' \in [Callers -> CallerPC]
      BY <1>0, <2>1 DEF TypeOK, CallTypeOK, CallerPC
    <3> QED BY <1>0, <1>b, <1>8, <2>1, <3>1
            DEF Broadcast, CondBroadcast, TypeOK, CallTypeOK
  <2>3. Handover' /\ SilentInv'
    BY <1>0, <1>8 DEF Broadcast, CondBroadcast, Handover, SilentInv
  <2>4. OrderInv'
    BY <1>0, <2>1 DEF OrderInv, MutexDiscipline
  <2>5. MutexDiscipline'
    BY <1>0, <2>1 DEF MutexDiscipline
  <2> QED BY <2>2, <2>3, <2>4, <2>5 DEF Inv
<1> QED BY <1>1, <1>2, <1>3, <1>4, <1>5, <1>6, <1>7, <1>8 DEF PlayerStep

LEMMA NextInv == Inv /\ [Next]_vars => Inv'
<1> SUFFICES ASSUME Inv, [Next]_vars PROVE Inv'
  OBVIOUS
<1>1. CASE UNCHANGED vars
  BY <1>1 DEF vars, Inv, TypeOK, CallTypeOK, OrderInv, Handover, MutexDiscipline, SilentInv
<1>2. CASE Next
  BY <1>2, EnterInv, CallerInv, PlayerInv DEF Next
<1> QED BY <1>1, <1>2

LEMMA SpecInv == Spec => []Inv
BY InitInv, NextInv, PTL DEF Spec

-----------------------------------------------------------------------------
(* Every variable keeps its type; the index stays a number.                *)
THEOREM TypeCorrect == Spec => []TypeOK
<1>1. Inv => TypeOK
  BY DEF Inv
<1> QED BY SpecInv, <1>1, PTL

(* A track is handed over only to a player that sleeps, is never           *)
(* overwritten, and the loop only runs within the tables of a melody.      *)
THEOREM HandoverTheorem == Spec => []Handover
<1>1. Inv => Handover
  BY DEF Inv
<1> QED BY SpecInv, <1>1, PTL

(* The mutex of the wait is held by one caller at a time, never asleep.    *)
THEOREM MutexTheorem == Spec => []MutexDiscipline
<1>1. Inv => MutexDiscipline
  BY DEF Inv
<1> QED BY SpecInv, <1>1, PTL

(* A caller leaves its wait in one step, by seeing the reference or by     *)
(* being woken, and neither happens while the player sounds a note.        *)
LEMMA WaitLemma ==
    ASSUME Inv, Next, NEW c \in Callers, dac # "stopped"
    PROVE  /\ ~(pc[c] = "test" /\ pc'[c] = AfterWait(c))
           /\ ~(pc[c] = "parked" /\ pc'[c] # "parked")
<1>0. TypeOK /\ Handover /\ SilentInv
  BY DEF Inv
<1>1. ppc = "note" /\ ref = FALSE
  BY <1>0 DEF TypeOK, CallTypeOK, SilentInv, Handover
<1>2. AfterWait(c) \in {"idle", "arm"} /\ pc \in [Callers -> CallerPC]
  BY <1>0 DEF AfterWait, TypeOK, CallTypeOK
<1>3. ASSUME NEW d \in Callers, NEW call \in Call, CallEnter(d, call)
      PROVE  pc[c] \in {"test", "parked"} => pc'[c] = pc[c]
  BY <1>2, <1>3 DEF CallEnter, Enter
<1>4. ASSUME NEW d \in Callers, CallStep(d)
      PROVE  /\ pc[c] = "test" => pc'[c] \in {"test", "lock"}
             /\ pc[c] = "parked" => pc'[c] = "parked"
  BY <1>1, <1>2, <1>4 DEF CallStep, CallerStep, CheckRef, StopCurrent, TestRef,
        MtxLock, CondWait, MtxUnlock, Arm, ThdResume, Goto
<1>5. ASSUME Start \/ PlayerStep PROVE pc' = pc
  BY <1>1, <1>5 DEF Start, PlayerStep, Suspend, Awake, PlayNote, EndNote, LeaveLoop,
        Clear, Broadcast, PlayerGoto, callVars
<1>6. CASE \E d \in Callers : \E call \in Call : CallEnter(d, call)
  BY <1>2, <1>3, <1>6
<1>7. CASE \E d \in Callers : CallStep(d)
  BY <1>2, <1>4, <1>7
<1>8. CASE Start \/ PlayerStep
  BY <1>2, <1>5, <1>8
<1> QED BY <1>6, <1>7, <1>8 DEF Next

(* A wait that ends, ends in silence.                                      *)
THEOREM SilentTheorem == Spec => SilentWhenWaitEnds
<1> DEFINE Ends(c) == \/ pc[c] = "test" /\ pc'[c] = AfterWait(c)
                      \/ pc[c] = "parked" /\ pc'[c] # "parked"
           Silent == \A c \in Callers : Ends(c) => dac = "stopped"
<1>1. Inv /\ [Next]_vars => [Silent]_vars
  BY WaitLemma
<1>2. SilentWhenWaitEnds <=> [][Silent]_vars
  BY PTL DEF SilentWhenWaitEnds
<1> HIDE DEF Silent
<1> QED BY SpecInv, <1>1, <1>2, PTL DEF Spec

-----------------------------------------------------------------------------
(* The refinement: each step of a call or of the thread is a step of the   *)
(* service or changes nothing a caller of the service can see.             *)
LEMMA EnterSimulation ==
    ASSUME Inv, NEW c \in Callers, NEW call \in Call, CallEnter(c, call)
    PROVE  [Service!Next]_(Service!vars)
<1>1. /\ playingBar' = playingBar /\ playedBar' = playedBar /\ play' = play
      /\ pc[c] = "idle" /\ order' = [order EXCEPT ![c] = call]
  BY DEF CallEnter, Enter, playerVars, playingBar, playedBar, Plays
<1>2. order[c] = NoCall /\ order \in [Callers -> Call \union {NoCall}]
  BY <1>1 DEF Inv, TypeOK, CallTypeOK, OrderInv
<1>3. pendingBar[c] = NoTrack /\ pendingBar' = [pendingBar EXCEPT ![c] = call.track]
  BY <1>1, <1>2, CallLemma DEF pendingBar
<1>4. CASE call.track \in Tracks
  <2>1. Service!Ask(c, call.track)
    BY <1>1, <1>3 DEF Service!Ask
  <2> QED BY <1>4, <2>1 DEF Service!Next
<1>5. CASE call.track = NoTrack
  <2>1. pendingBar' = pendingBar
    BY <1>3, <1>5 DEF pendingBar
  <2> QED BY <1>1, <2>1 DEF Service!vars
<1> QED BY <1>4, <1>5, CallLemma

\* a call that returns is an order taken or ignored; until then it is pending
LEMMA ReturnLemma ==
    ASSUME Inv, NEW c \in Callers, NEW from, NEW to \in CallerPC, Goto(c, from, to)
    PROVE  IF to = "idle" THEN pendingBar' = [pendingBar EXCEPT ![c] = NoTrack]
                          ELSE pendingBar' = pendingBar
<1>1. order \in [Callers -> Call \union {NoCall}]
  BY DEF Inv, TypeOK, CallTypeOK
<1>2. CASE to = "idle"
  <2>1. order' = [order EXCEPT ![c] = NoCall]
    BY <1>2 DEF Goto
  <2> QED BY <1>1, <1>2, <2>1, CallLemma DEF pendingBar
<1>3. CASE to # "idle"
  BY <1>3 DEF Goto, pendingBar
<1> QED BY <1>2, <1>3

\* a call that returns without a resume is one the service ignores
LEMMA IgnoreSimulation ==
    ASSUME Inv, NEW c \in Callers, NEW from, NEW to \in CallerPC, Goto(c, from, to),
           mail' = mail, play' = play, UNCHANGED playerVars
    PROVE  [Service!Next]_(Service!vars)
<1>1. playingBar' = playingBar /\ playedBar' = playedBar
  BY DEF playerVars, playingBar, playedBar, Plays
<1>2. CASE to = "idle" /\ pendingBar[c] # NoTrack
  <2>1. Service!Ignore(c)
    BY <1>1, <1>2, ReturnLemma DEF Service!Ignore
  <2> QED BY <2>1 DEF Service!Next
<1>3. CASE ~(to = "idle" /\ pendingBar[c] # NoTrack)
  <2>1. pendingBar' = pendingBar
    BY <1>3, ReturnLemma DEF pendingBar
  <2> QED BY <1>1, <2>1 DEF Service!vars
<1> QED BY <1>2, <1>3

LEMMA CallerSimulation ==
    ASSUME Inv, NEW c \in Callers, CallStep(c)
    PROVE  [Service!Next]_(Service!vars)
<1>0. /\ UNCHANGED playerVars
      /\ TypeOK /\ OrderInv /\ Handover
  BY DEF CallStep, Inv
<1>1. CASE CheckRef(c)
  <2>1. PICK to \in CallerPC : Goto(c, "check", to)
    BY <1>1 DEF CheckRef, CallerPC
  <2> QED BY <1>0, <1>1, <2>1, IgnoreSimulation DEF CheckRef
<1>2. CASE StopCurrent(c)
  <2>1. PICK to \in {"idle", "test"} :
            /\ Goto(c, "stop", to)
            /\ to = "idle" => order[c].option = "stop"
    BY <1>2 DEF StopCurrent
  <2>2. to = "idle" => order[c].track = NoTrack
    BY <1>0, <2>1 DEF TypeOK, CallTypeOK, Call, NoCall, PlayOption
  <2>3. pendingBar' = pendingBar
    BY <2>1, <2>2, ReturnLemma DEF pendingBar, CallerPC
  <2>4. Service!Cut
    BY <1>0, <1>2, <2>3
       DEF StopCurrent, Service!Cut, playerVars, playingBar, playedBar, Plays
  <2> QED BY <2>4 DEF Service!Next
<1>3. CASE TestRef(c)
  <2>1. PICK to \in CallerPC : Goto(c, "test", to)
    BY <1>3 DEF TestRef, AfterWait, CallerPC
  <2> QED BY <1>0, <1>3, <2>1, IgnoreSimulation DEF TestRef
<1>4. CASE MtxLock(c)
  <2>1. PICK from \in {"lock", "relock"}, to \in CallerPC : Goto(c, from, to)
    BY <1>4 DEF MtxLock, CallerPC
  <2> QED BY <1>0, <1>4, <2>1, IgnoreSimulation DEF MtxLock
<1>5. CASE CondWait(c)
  <2>1. PICK to \in CallerPC : Goto(c, "park", to)
    BY <1>5 DEF CondWait, CallerPC
  <2> QED BY <1>0, <1>5, <2>1, IgnoreSimulation DEF CondWait
<1>6. CASE MtxUnlock(c)
  <2>1. PICK to \in CallerPC : Goto(c, "unlock", to)
    BY <1>6 DEF MtxUnlock, AfterWait, CallerPC
  <2> QED BY <1>0, <1>6, <2>1, IgnoreSimulation DEF MtxUnlock
<1>7. CASE Arm(c)
  <2>1. Goto(c, "arm", "resume") /\ play' = TRUE /\ mail' = mail /\ pc[c] = "arm"
    BY <1>7 DEF Arm, Goto
  <2>2. pendingBar' = pendingBar /\ pendingBar[c] # NoTrack
    <3>1. order[c].track \in Tracks
      BY <1>0, <2>1, CallLemma DEF OrderInv, TypeOK, CallTypeOK, PlayOption, NoCall
    <3> QED BY <2>1, <3>1, ReturnLemma, NoTrackAssumption DEF pendingBar, CallerPC
  <2>3. Service!Uncut(c)
    BY <1>0, <2>1, <2>2 DEF Service!Uncut, playerVars, playingBar, playedBar, Plays
  <2> QED BY <2>3 DEF Service!Next
<1>8. CASE ThdResume(c)
  <2>1. Goto(c, "resume", "idle") /\ play' = play /\ pc[c] = "resume"
    BY <1>8 DEF ThdResume, Goto
  <2>2. CASE ref
    <3>1. ppc = "suspended" /\ mail = NoTrack /\ mail' = order[c].track
      BY <1>0, <1>8, <2>2 DEF ThdResume, Handover
    <3>2. order[c].track \in Tracks
      BY <1>0, <2>1, CallLemma DEF OrderInv, TypeOK, CallTypeOK, PlayOption, NoCall
    <3>3. pendingBar' = [pendingBar EXCEPT ![c] = NoTrack] /\ pendingBar[c] = mail'
      BY <2>1, <3>1, ReturnLemma DEF pendingBar, CallerPC
    <3>4. /\ playingBar = NoTrack /\ playingBar' = mail'
          /\ playedBar = 0 /\ playedBar' = 0
      BY <1>0, <3>1 DEF playerVars, playingBar, playedBar, Plays
    <3>5. Service!Begin(c)
      BY <2>1, <3>1, <3>2, <3>3, <3>4, NoTrackAssumption DEF Service!Begin
    <3> QED BY <3>5 DEF Service!Next
  <2>3. CASE ~ref
    BY <1>0, <1>8, <2>1, <2>3, IgnoreSimulation DEF ThdResume, CallerPC
  <2> QED BY <2>2, <2>3
<1> QED BY <1>1, <1>2, <1>3, <1>4, <1>5, <1>6, <1>7, <1>8 DEF CallStep, CallerStep

LEMMA PlayerSimulation ==
    ASSUME Inv, Start \/ PlayerStep
    PROVE  [Service!Next]_(Service!vars)
<1>0. TypeOK /\ Handover /\ pendingBar' = pendingBar
  BY DEF Inv, Start, PlayerStep, Suspend, Awake, PlayNote, EndNote, LeaveLoop, Clear,
         Broadcast, ThdSuspend, ThdAwake, ClearPlay, CondBroadcast, callVars, pendingBar
<1> USE DEF PlayerGoto
<1>1. CASE Start \/ Suspend \/ Broadcast
  <2>1. ~Plays /\ ~Plays' /\ mail' = mail /\ play' = play
    BY <1>1 DEF Start, Suspend, Broadcast, ThdSuspend, CondBroadcast, callVars, Plays
  <2> QED BY <1>0, <2>1 DEF Service!vars, playingBar, playedBar
<1>2. CASE Awake
  <2>1. ~Plays /\ Plays' /\ song' = mail /\ thisNote' = 0 /\ play' = play
    BY <1>2 DEF Awake, ThdAwake, Plays
  <2> QED BY <1>0, <2>1 DEF Service!vars, playingBar, playedBar
<1>3. CASE PlayNote
  <2>1. Plays /\ Plays' /\ song' = song /\ thisNote' = thisNote /\ play' = play
    BY <1>3 DEF PlayNote, callVars, Plays
  <2> QED BY <1>0, <2>1 DEF Service!vars, playingBar, playedBar
<1>4. CASE EndNote
  <2>1. /\ Plays /\ Plays' /\ song' = song /\ play' = play
        /\ thisNote' = thisNote + 1
        /\ song \in Tracks /\ thisNote < Length[song]
    BY <1>0, <1>4 DEF EndNote, callVars, Plays, Handover
  <2>2. Service!Note
    BY <1>0, <2>1, NoTrackAssumption DEF Service!Note, playingBar, playedBar
  <2> QED BY <2>2 DEF Service!Next
<1>5. CASE LeaveLoop
  <2>1. /\ Plays /\ ~Plays' /\ mail' = mail /\ play' = play
        /\ thisNote >= Length[song] \/ ~play
        /\ mail = NoTrack /\ song \in Tracks /\ thisNote <= Length[song]
    BY <1>0, <1>5 DEF LeaveLoop, callVars, Plays, Handover
  <2>2. ~play \/ thisNote = Length[song]
    BY <1>0, <2>1, LengthLemma DEF TypeOK
  <2>3. Service!End
    BY <1>0, <2>1, <2>2, NoTrackAssumption DEF Service!End, playingBar, playedBar
  <2> QED BY <2>3 DEF Service!Next
<1>6. CASE Clear
  <2>1. ~Plays /\ ~Plays' /\ mail' = mail /\ play' = FALSE
    BY <1>6 DEF Clear, ClearPlay, Plays
  <2>2. Service!Cut
    BY <1>0, <2>1 DEF Service!Cut, playingBar, playedBar
  <2> QED BY <2>2 DEF Service!Next
<1> QED BY <1>1, <1>2, <1>3, <1>4, <1>5, <1>6 DEF PlayerStep

(* For any number of callers: one melody plays at a time, each was asked   *)
(* for by a call in progress and begins at most once for it, and its notes *)
(* are played in order, each once, to the last unless it is stopped.       *)
THEOREM ServiceTheorem == Spec => ImplementsService
<1>1. Init => Service!Init
  <2> SUFFICES ASSUME Init PROVE Service!Init
    OBVIOUS
  <2>1. /\ playingBar = NoTrack /\ playedBar = 0 /\ play = TRUE
        /\ order = [c \in Callers |-> NoCall]
    BY DEF Init, CallInit, playingBar, playedBar, Plays
  <2>2. pendingBar = [c \in Callers |-> NoTrack]
    BY <2>1, CallLemma DEF pendingBar
  <2> QED BY <2>1, <2>2 DEF Service!Init
<1>2. Inv /\ [Next]_vars => [Service!Next]_(Service!vars)
  <2> SUFFICES ASSUME Inv, [Next]_vars PROVE [Service!Next]_(Service!vars)
    OBVIOUS
  <2>1. CASE UNCHANGED vars
    BY <2>1 DEF vars, Service!vars, playingBar, playedBar, pendingBar, Plays
  <2>2. CASE Next
    BY <2>2, EnterSimulation, CallerSimulation, PlayerSimulation DEF Next
  <2> QED BY <2>1, <2>2
<1> QED BY SpecInv, <1>1, <1>2, PTL DEF Spec, ImplementsService, Service!Spec
=============================================================================
