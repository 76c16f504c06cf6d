----------------------------- MODULE PlayMelody -----------------------------
(***************************************************************************)
(* The melody player of audio/play_melody.c: the thread PlayMelodyThd, its *)
(* callers (module PlayerCalls) and the speaker it drives.                 *)
(***************************************************************************)
EXTENDS PlayerCalls, Sequences

CONSTANTS Notes         \* the notes of each melody, 0 is a rest

ASSUME NotesAssumption == Notes \in [Tracks -> Seq(Nat)]

VARIABLES ppc,          \* where the player thread is
          song, thisNote,
          dac           \* dac_state: the speaker sounds a note

playerVars == <<ppc, song, thisNote, dac>>
vars == <<ref, play, mail, pc, order, lock, waiting, ppc, song, thisNote, dac>>

\* melody_t.length
Length == [t \in Tracks |-> Len(Notes[t])]

PlayerPC == {"unstarted", "suspend", "suspended", "loop", "note", "clear",
             "broadcast"}

TypeOK ==
    /\ CallTypeOK
    /\ ppc \in PlayerPC
    /\ song \in Tracks \union {NoTrack}
    /\ thisNote \in Nat
    /\ dac \in {"stopped", "playing"}

Init ==
    /\ CallInit
    /\ play = TRUE
    /\ ppc = "unstarted"
    /\ song = NoTrack
    /\ thisNote = 0
    /\ dac = "stopped"

PlayerGoto(from, to) == ppc = from /\ ppc' = to

\* playMelodyStart creates the thread
Start ==
    /\ PlayerGoto("unstarted", "suspend")
    /\ UNCHANGED <<callVars, song, thisNote, dac>>

Suspend ==
    /\ PlayerGoto("suspend", "suspended")
    /\ ThdSuspend
    /\ UNCHANGED <<song, thisNote, dac>>

\* mutants: the index is not reset, or starts before the first note
AwakeNoReset ==
    /\ PlayerGoto("suspended", "loop")
    /\ ThdAwake
    /\ song' = mail
    /\ UNCHANGED <<thisNote, dac>>

AwakeOffByOne ==
    /\ PlayerGoto("suspended", "loop")
    /\ ThdAwake
    /\ song' = mail
    /\ thisNote' = 0 - 1
    /\ UNCHANGED dac

Awake ==
    /\ PlayerGoto("suspended", "loop")
    /\ ThdAwake
    /\ song' = mail
    /\ thisNote' = 0
    /\ UNCHANGED dac

\* the test of the for loop, the test of play, and playNote up to its sleep
PlayNote ==
    /\ PlayerGoto("loop", "note")
    /\ thisNote < Length[song]
    /\ play
    /\ dac' = IF Notes[song][thisNote + 1] # 0 THEN "playing" ELSE dac
    /\ UNCHANGED <<callVars, song, thisNote>>

\* mutants: the sound is left on, or the loop does not advance
EndNoteSounds ==
    /\ PlayerGoto("note", "loop")
    /\ thisNote' = thisNote + 1
    /\ UNCHANGED <<callVars, song, dac>>

EndNoteStuck ==
    /\ PlayerGoto("note", "loop")
    /\ dac' = "stopped"
    /\ UNCHANGED <<callVars, song, thisNote>>

\* the rest of playNote, the pause and the increment
EndNote ==
    /\ PlayerGoto("note", "loop")
    /\ dac' = "stopped"
    /\ thisNote' = thisNote + 1
    /\ UNCHANGED <<callVars, song>>

LeaveLoop ==
    /\ PlayerGoto("loop", "clear")
    /\ thisNote >= Length[song] \/ ~play
    /\ UNCHANGED <<callVars, song, thisNote, dac>>

Clear ==
    /\ PlayerGoto("clear", "broadcast")
    /\ ClearPlay
    /\ UNCHANGED <<song, thisNote, dac>>

Broadcast ==
    /\ PlayerGoto("broadcast", "suspend")
    /\ CondBroadcast
    /\ UNCHANGED <<song, thisNote, dac>>

PlayerStep == Suspend \/ Awake \/ PlayNote \/ EndNote \/ LeaveLoop \/ Clear
                  \/ Broadcast

CallEnter(c, call) == Enter(c, call) /\ UNCHANGED playerVars

CallStep(c) == CallerStep(c) /\ UNCHANGED playerVars

Next ==
    \/ \E c \in Callers :
          \/ \E call \in Call : CallEnter(c, call)
          \/ CallStep(c)
    \/ Start
    \/ PlayerStep

Spec == Init /\ [][Next]_vars

(* Round robin among equal priorities lets every thread that is ready run, *)
(* and a mutex is handed to its waiters in turn.                           *)
Fairness == WF_vars(PlayerStep) /\ \A c \in Callers : SF_vars(CallStep(c))

FairSpec == Spec /\ Fairness

-----------------------------------------------------------------------------
(* The thread reference and the thread agree: the reference is set only    *)
(* while the player sleeps with nothing handed over, so a resume wakes a   *)
(* thread that is really asleep and no track handed over is overwritten;   *)
(* and whenever the loop runs it has a track (song is never dereferenced   *)
(* as NULL, its index stays within the tables of notes and tempos).        *)
Handover ==
    /\ ref <=> ppc = "suspended" /\ mail = NoTrack
    /\ mail # NoTrack => ppc = "suspended"
    /\ ppc \in {"loop", "note"} => song \in Tracks /\ thisNote <= Length[song]
    /\ ppc = "note" => thisNote < Length[song]

(* play_melody.h:173 "Use waitMelodyHasFinished() to be sure the sound has *)
(* stopped": a wait that ends, because the player rests or because of the  *)
(* broadcast, ends while the speaker is silent.                            *)
SilentWhenWaitEnds ==
    [][\A c \in Callers :
          \/ pc[c] = "test" /\ pc'[c] = AfterWait(c)
          \/ pc[c] = "parked" /\ pc'[c] # "parked"
          => dac = "stopped"]_vars

(* The mutex protects nothing but the sleep: its owner is in the short     *)
(* section around chCondWait, never asleep, and two callers never hold it. *)
MutexDiscipline ==
    /\ \A c \in Callers : lock = c <=> pc[c] \in {"park", "unlock"}
    /\ \A c \in Callers : c \in waiting <=> pc[c] = "parked"

(* Whatever the callers do, a track that was started comes to its end and  *)
(* the player is ready for the next one.                                   *)
PlayerRests == \A t \in Tracks : (mail = t) ~> ref

(* And a caller that the broadcast woke gets out of its wait: the mutex it *)
(* has to take again is always released.                                   *)
MelodyEnds ==
    PlayerRests /\ \A c \in Callers : pc[c] = "relock" ~> pc[c] \notin {"relock", "unlock"}

-----------------------------------------------------------------------------
(* The player implements MelodyService.                                    *)
Plays == ppc \in {"loop", "note"}

playingBar == IF Plays THEN song ELSE mail
playedBar == IF Plays THEN thisNote ELSE 0
pendingBar == [c \in Callers |-> order[c].track]

Service == INSTANCE MelodyService
               WITH playing <- playingBar, played <- playedBar,
                    pending <- pendingBar, cut <- ~play

(* One track at a time, each asked for by a call in progress, its notes    *)
(* played in order and once, to the last unless a stop cuts it.            *)
ImplementsService == Service!Spec

-----------------------------------------------------------------------------
(* Does not hold (README). play_melody.h:137: FORCE_CHANGE "stops the      *)
(* current playing melody if any and play the new one", and :136 says the  *)
(* same of WAIT_AND_CHANGE: when such a call hands over its melody, the    *)
(* player takes it.                                                        *)
ChangeIsPlayed ==
    [][\A c \in Callers :
          pc[c] = "resume" /\ pc'[c] = "idle" /\ order[c].option # "simple"
          => mail' = order[c].track]_vars

(* Does not hold (README). play_melody.h:165: waitMelodyHasFinished "waits *)
(* until the melody playing has finished": a caller that went to sleep     *)
(* while a melody was playing wakes when it ends.                          *)
WaitEnds == \A c \in Callers : pc[c] = "parked" ~> pc[c] # "parked"

(* Does not hold (README). play_melody.h:153: playMelody "does nothing if  *)
(* the module has not been started with playMelodyStart()", and does not   *)
(* block the caller.                                                       *)
NotStartedDoesNothing == ppc = "unstarted" => waiting = {}

(* Does not hold (README). play_melody.h:135: a SIMPLE_PLAY made while a   *)
(* melody is playing "is ignored": it does not undo the stop of the melody *)
(* that plays.                                                             *)
IgnoredOrderKeepsStop ==
    [][\A c \in Callers :
          Plays /\ order[c].option = "simple" /\ pc'[c] = "resume"
          => play' = play]_vars
=============================================================================
