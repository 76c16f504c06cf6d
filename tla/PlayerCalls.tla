----------------------------- MODULE PlayerCalls -----------------------------
(***************************************************************************)
(* The calling side of the two background players of the firmware, the     *)
(* melody player (audio/play_melody.c) and the WAV player                  *)
(* (audio/play_sound_file.c).  Both files hold the same protocol: a player *)
(* thread rests in chThdSuspendS on a thread reference, callers hand it a  *)
(* track with chThdResume, and callers that have to wait for the end of    *)
(* the current track sleep on a condition variable.                        *)
(*                                                                         *)
(* Every caller and the player have priority NORMALPRIO and the kernel     *)
(* rotates equal priorities every CH_CFG_TIME_QUANTUM ticks, so a step is  *)
(* one access to the shared variables and any order of steps is possible.  *)
(* The kernel services (mutex, condition variable, thread reference) are   *)
(* atomic; they are modelled from their use here.                          *)
(***************************************************************************)
EXTENDS Naturals

CONSTANTS Callers,    \* threads that use the player
          Tracks,     \* melodies, or paths of sound files
          NoTrack,    \* no track
          NoCaller    \* the mutex is free

ASSUME NoTrackAssumption == NoTrack \notin Tracks
ASSUME NoCallerAssumption == NoCaller \notin Callers

VARIABLES ref,      \* the thread reference is not NULL: the player rests
          play,     \* the flag the player polls
          mail,     \* track handed over by chThdResume, not yet picked up
          pc,       \* where each caller is
          order,    \* the call each caller is making
          lock,     \* owner of the mutex
          waiting   \* threads asleep on the condition variable

callVars == <<ref, play, mail, pc, order, lock, waiting>>

\* SIMPLE_PLAY, WAIT_AND_CHANGE, FORCE_CHANGE, and the calls that only wait
\* for the end or only stop
PlayOption == {"simple", "wait", "force"}
Option == PlayOption \union {"await", "stop"}
Call == [option : PlayOption, track : Tracks]
        \union [option : Option \ PlayOption, track : {NoTrack}]
NoCall == [option |-> "none", track |-> NoTrack]

CallerPC == {"idle", "check", "stop", "test", "lock", "park", "parked",
             "relock", "unlock", "arm", "resume"}

CallTypeOK ==
    /\ ref \in BOOLEAN
    /\ play \in BOOLEAN
    /\ mail \in Tracks \union {NoTrack}
    /\ pc \in [Callers -> CallerPC]
    /\ order \in [Callers -> Call \union {NoCall}]
    /\ lock \in Callers \union {NoCaller}
    /\ waiting \subseteq Callers

CallInit ==
    /\ ref = FALSE
    /\ play \in BOOLEAN
    /\ mail = NoTrack
    /\ pc = [c \in Callers |-> "idle"]
    /\ order = [c \in Callers |-> NoCall]
    /\ lock = NoCaller
    /\ waiting = {}

\* The arguments of a call live until it returns
Goto(c, from, to) ==
    /\ pc[c] = from
    /\ pc' = [pc EXCEPT ![c] = to]
    /\ order' = IF to = "idle" THEN [order EXCEPT ![c] = NoCall] ELSE order

\* Where a caller goes when waitMelodyHasFinished returns
AfterWait(c) == IF order[c].option = "await" THEN "idle" ELSE "arm"

-----------------------------------------------------------------------------
(* A caller enters playMelody, waitMelodyHasFinished or stopCurrentMelody. *)
(* Tracks are valid: a call with no melody or no path returns at once. The *)
(* number NB_SONGS is neither valid nor refused (play_melody.c:786 tests   *)
(* against EXTERNAL_SONG, which is one more) and is left out.              *)
Enter(c, call) ==
    /\ pc[c] = "idle"
    /\ pc' = [pc EXCEPT ![c] =
                  CASE call.option = "simple"            -> "check"
                    [] call.option \in {"wait", "await"} -> "test"
                    [] call.option \in {"force", "stop"} -> "stop"]
    /\ order' = [order EXCEPT ![c] = call]
    /\ UNCHANGED <<ref, play, mail, lock, waiting>>

\* SIMPLE_PLAY: ignored when the player is already running
CheckRef(c) ==
    /\ Goto(c, "check", IF ref THEN "arm" ELSE "idle")
    /\ UNCHANGED <<ref, play, mail, lock, waiting>>

StopCurrent(c) ==
    /\ Goto(c, "stop", IF order[c].option = "stop" THEN "idle" ELSE "test")
    /\ play' = FALSE
    /\ UNCHANGED <<ref, mail, lock, waiting>>

\* waitMelodyHasFinished reads the reference without a lock ...
TestRef(c) ==
    /\ Goto(c, "test", IF ref THEN AfterWait(c) ELSE "lock")
    /\ UNCHANGED <<ref, play, mail, lock, waiting>>

\* ... and only then takes the mutex
MtxLock(c) ==
    /\ lock = NoCaller
    /\ lock' = c
    /\ \/ Goto(c, "lock", "park")
       \/ Goto(c, "relock", "unlock")
    /\ UNCHANGED <<ref, play, mail, waiting>>

\* mutant: the thread sleeps with the mutex
CondWaitKeepsMutex(c) ==
    /\ Goto(c, "park", "parked")
    /\ waiting' = waiting \union {c}
    /\ UNCHANGED <<ref, play, mail, lock>>

\* chCondWait releases the mutex and sleeps in one step
CondWait(c) ==
    /\ Goto(c, "park", "parked")
    /\ lock' = NoCaller
    /\ waiting' = waiting \union {c}
    /\ UNCHANGED <<ref, play, mail>>

\* mutant: the mutex is not released after the wait
MtxUnlockForgotten(c) ==
    /\ Goto(c, "unlock", AfterWait(c))
    /\ UNCHANGED <<ref, play, mail, lock, waiting>>

MtxUnlock(c) ==
    /\ Goto(c, "unlock", AfterWait(c))
    /\ lock' = NoCaller
    /\ UNCHANGED <<ref, play, mail, waiting>>

Arm(c) ==
    /\ Goto(c, "arm", "resume")
    /\ play' = TRUE
    /\ UNCHANGED <<ref, mail, lock, waiting>>

\* mutant: the reference is not cleared by the thread that resumes
ThdResumeKeepsRef(c) ==
    /\ Goto(c, "resume", "idle")
    /\ mail' = IF ref THEN order[c].track ELSE mail
    /\ UNCHANGED <<ref, play, lock, waiting>>

\* chThdResume does nothing when the reference is NULL
ThdResume(c) ==
    /\ Goto(c, "resume", "idle")
    /\ IF ref THEN ref' = FALSE /\ mail' = order[c].track
              ELSE UNCHANGED <<ref, mail>>
    /\ UNCHANGED <<play, lock, waiting>>

CallerStep(c) ==
    \/ CheckRef(c)
    \/ StopCurrent(c)
    \/ TestRef(c)
    \/ MtxLock(c)
    \/ CondWait(c)
    \/ MtxUnlock(c)
    \/ Arm(c)
    \/ ThdResume(c)

-----------------------------------------------------------------------------
(* What the player thread does with the shared variables.                  *)

\* chThdSuspendS: the reference is set, the thread sleeps
ThdSuspend ==
    /\ ref' = TRUE
    /\ UNCHANGED <<play, mail, pc, order, lock, waiting>>

\* chThdSuspendS returns the track
ThdAwake ==
    /\ mail # NoTrack
    /\ mail' = NoTrack
    /\ UNCHANGED <<ref, play, pc, order, lock, waiting>>

ClearPlay ==
    /\ play' = FALSE
    /\ UNCHANGED <<ref, mail, pc, order, lock, waiting>>

\* chCondBroadcast, called without the mutex: every sleeper has to take the
\* mutex again before its wait returns
CondBroadcast ==
    /\ pc' = [c \in Callers |-> IF c \in waiting THEN "relock" ELSE pc[c]]
    /\ waiting' = {}
    /\ UNCHANGED <<ref, play, mail, order, lock>>
=============================================================================
