---------------------------- MODULE PlaySoundFile ----------------------------
(***************************************************************************)
(* The WAV player: the thread of audio/play_sound_file.c, which fills two  *)
(* buffers from the SD card, the interrupt end_cb, which makes the DAC     *)
(* read them in turn, and the DAC functions of audio/audio_thread.c they   *)
(* call.  The callers are those of PlayerCalls; what playSoundFile adds to *)
(* them is that it records the sampling frequency first.                   *)
(*                                                                         *)
(* Each track stands for a file together with the frequency it is asked to *)
(* be played at, so sampFreq and dacFreq hold tracks.                      *)
(***************************************************************************)
EXTENDS PlayerCalls

CONSTANTS
    Size,           \* SIZE_SOUND_BUFFER_16bits
    Samples,        \* number of samples of each file
    Options,        \* the calls that are made
    CardFails,      \* f_open and f_read may fail
    CardSlow        \* a buffer may be played before the next one is filled

ASSUME SizeAssumption == Size \in Nat \ {0} /\ Size % 2 = 0
ASSUME SamplesAssumption == Samples \in [Tracks -> Nat \ {0}]
ASSUME OptionsAssumption == Options \subseteq Option
ASSUME CardAssumption == CardFails \in BOOLEAN /\ CardSlow \in BOOLEAN

VARIABLES
    ppc, path, pos, fill,     \* the thread; pos counts the reads of the file
    sampFreq,
    bufferToRead, sizeToRead, \* shared by the thread and end_cb
    changeBuffer, dacStopped, \* the two binary semaphores
    holds,                    \* the block of the file each buffer holds
    dac, dacBuf, dacSize, dacFreq \* state of the DAC, which buffer it reads,
                              \* how many samples of it, and how fast

fileVars == <<path, pos, fill>>
dacVars == <<dac, dacBuf, dacSize, dacFreq>>
semVars == <<changeBuffer, dacStopped>>
readVars == <<bufferToRead, sizeToRead>>
vars == <<callVars, ppc, fileVars, sampFreq, readVars, semVars, holds, dacVars>>

Buffers == {1, 2}
Other(b) == 3 - b

\* samples the k-th f_read of the data returns, and the blocks of a file
Read(t, k) == IF Samples[t] >= k * Size THEN Size
              ELSE IF Samples[t] > (k - 1) * Size THEN Samples[t] - (k - 1) * Size
              ELSE 0
Blocks(t) == (Samples[t] + Size - 1) \div Size

PlayerPC == {"unstarted", "suspend", "suspended", "open", "scan", "test", "read",
             "convert", "first", "short", "wait", "swap", "waitStopped",
             "clear", "broadcast"}

TypeOK ==
    /\ CallTypeOK
    /\ ppc \in PlayerPC
    /\ path \in Tracks \union {NoTrack}
    /\ pos \in Nat
    /\ fill \in Buffers
    /\ sampFreq \in Tracks \union {NoTrack}
    /\ bufferToRead \in Buffers
    /\ sizeToRead \in 0..Size
    /\ changeBuffer \in BOOLEAN /\ dacStopped \in BOOLEAN
    /\ holds \in [Buffers -> Nat]
    /\ dac \in {"stopped", "playing"}
    /\ dacBuf \in Buffers
    /\ dacSize \in 0..Size
    /\ dacFreq \in Tracks \union {NoTrack}

Init ==
    /\ CallInit
    /\ play = FALSE
    /\ ppc = "unstarted"
    /\ path = NoTrack /\ pos = 0 /\ fill = 1
    /\ sampFreq = NoTrack
    /\ bufferToRead = 1 /\ sizeToRead = 0
    /\ changeBuffer = FALSE /\ dacStopped = FALSE
    /\ holds = [b \in Buffers |-> 0]
    /\ dac = "stopped" /\ dacBuf = 1 /\ dacSize = 0 /\ dacFreq = NoTrack

-----------------------------------------------------------------------------
(* The callers.                                                            *)
PlayerVars == <<ppc, fileVars, readVars, semVars, holds, dacVars>>

\* playSoundFile sets samp_freq before it looks whether the player is free
CallEnter(c, call) ==
    /\ call.option \in Options
    /\ Enter(c, call)
    /\ sampFreq' = IF call.option \in PlayOption THEN call.track ELSE sampFreq
    /\ UNCHANGED PlayerVars

CallStep(c) == CallerStep(c) /\ UNCHANGED <<sampFreq, PlayerVars>>

-----------------------------------------------------------------------------
(* The thread PlaySoundFileThd and playWAVFile.                            *)
PlayerGoto(from, to) == ppc = from /\ ppc' = to

Start ==
    /\ PlayerGoto("unstarted", "suspend")
    /\ UNCHANGED <<callVars, fileVars, sampFreq, readVars, semVars, holds, dacVars>>

Suspend ==
    /\ PlayerGoto("suspend", "suspended")
    /\ ThdSuspend
    /\ UNCHANGED <<fileVars, sampFreq, readVars, semVars, holds, dacVars>>

Awake ==
    /\ PlayerGoto("suspended", "open")
    /\ ThdAwake
    /\ path' = mail
    /\ UNCHANGED <<pos, fill, sampFreq, readVars, semVars, holds, dacVars>>

\* the card is mounted and the file opened; what follows reads through
\* sound_buffer1, the header first
Open ==
    /\ PlayerGoto("open", "scan")
    /\ pos' = 0 /\ fill' = 1
    /\ bufferToRead' = 1
    /\ holds' = [holds EXCEPT ![1] = 0]
    /\ UNCHANGED <<callVars, path, sampFreq, sizeToRead, semVars, dacVars>>

\* no card, or no such file
OpenFails ==
    /\ CardFails
    /\ PlayerGoto("open", "clear")
    /\ UNCHANGED <<callVars, fileVars, sampFreq, readVars, semVars, holds, dacVars>>

\* one more f_read in search of the largest sample; after the last one the
\* data is read from its beginning
Scan ==
    /\ ppc = "scan"
    /\ sizeToRead' = Read(path, pos + 1)
    /\ ppc' = IF sizeToRead' >= Size THEN "scan" ELSE "test"
    /\ pos' = IF sizeToRead' >= Size THEN pos + 1 ELSE 0
    /\ UNCHANGED <<callVars, path, fill, sampFreq, bufferToRead, semVars, holds, dacVars>>

\* a read of the header or of the data fails after sound_buffer1 was written
ScanFails ==
    /\ CardFails
    /\ PlayerGoto("scan", "clear")
    /\ UNCHANGED <<callVars, fileVars, sampFreq, readVars, semVars, holds, dacVars>>

TestPlay ==
    /\ play
    /\ PlayerGoto("test", "read")
    /\ UNCHANGED <<callVars, fileVars, sampFreq, readVars, semVars, holds, dacVars>>

\* a stop: dac_stop, and playWAVFile still returns SF_OK
StopPlaying ==
    /\ ~play
    /\ PlayerGoto("test", "waitStopped")
    /\ dac' = "stopped"
    /\ UNCHANGED <<callVars, fileVars, sampFreq, readVars, semVars, holds, dacBuf, dacSize, dacFreq>>

\* f_read fills the buffer and the number of samples is published
ReadDone ==
    /\ PlayerGoto("read", "convert")
    /\ pos' = pos + 1
    /\ sizeToRead' = Read(path, pos')
    /\ holds' = IF sizeToRead' > 0 THEN [holds EXCEPT ![fill] = pos'] ELSE holds
    /\ UNCHANGED <<callVars, path, fill, sampFreq, bufferToRead, semVars, dacVars>>

\* the file is closed, the DAC is left as it is
ReadFails ==
    /\ CardFails
    /\ PlayerGoto("read", "clear")
    /\ UNCHANGED <<callVars, fileVars, sampFreq, readVars, semVars, holds, dacVars>>

\* the samples are scaled in place; pos = 1 is the code's first_time
Convert ==
    /\ PlayerGoto("convert", IF pos = 1 THEN "first" ELSE "wait")
    /\ UNCHANGED <<callVars, fileVars, sampFreq, readVars, semVars, holds, dacVars>>

\* mutant: the DAC is given a whole buffer
PlayBufferWhole ==
    /\ PlayerGoto("first", "short")
    /\ dacBuf' = IF dac = "stopped" THEN bufferToRead ELSE dacBuf
    /\ dacSize' = IF dac = "stopped" THEN Size ELSE dacSize
    /\ dac' = "playing"
    /\ dacFreq' = sampFreq
    /\ UNCHANGED <<callVars, fileVars, sampFreq, readVars, semVars, holds>>

\* dac_play_buffer, with the number of samples as it was read, odd or not; a
\* DAC that already plays only gets the new frequency
PlayBuffer ==
    /\ PlayerGoto("first", "short")
    /\ dacBuf' = IF dac = "stopped" THEN bufferToRead ELSE dacBuf
    /\ dacSize' = IF dac = "stopped" THEN sizeToRead ELSE dacSize
    /\ dac' = "playing"
    /\ dacFreq' = sampFreq
    /\ UNCHANGED <<callVars, fileVars, sampFreq, readVars, semVars, holds>>

Short ==
    /\ PlayerGoto("short", "swap")
    /\ sizeToRead' = IF sizeToRead < Size THEN 0 ELSE sizeToRead
    /\ UNCHANGED <<callVars, fileVars, sampFreq, bufferToRead, semVars, holds, dacVars>>

\* mutant: the thread does not wait for the DAC to leave the buffer
WaitChangeSkipped ==
    /\ PlayerGoto("wait", "swap")
    /\ UNCHANGED <<callVars, fileVars, sampFreq, readVars, semVars, holds, dacVars>>

WaitChange ==
    /\ changeBuffer
    /\ PlayerGoto("wait", "swap")
    /\ changeBuffer' = FALSE
    /\ UNCHANGED <<callVars, fileVars, sampFreq, readVars, dacStopped, holds, dacVars>>

\* mutant: the next buffer is the one after, not the other one
SwapFillNext ==
    /\ PlayerGoto("swap", IF sizeToRead >= Size THEN "test" ELSE "waitStopped")
    /\ fill' = fill + 1
    /\ UNCHANGED <<callVars, path, pos, sampFreq, readVars, semVars, holds, dacVars>>

\* the buffers to fill are swapped and the loop goes on after a full read
SwapFill ==
    /\ PlayerGoto("swap", IF sizeToRead >= Size THEN "test" ELSE "waitStopped")
    /\ fill' = Other(fill)
    /\ UNCHANGED <<callVars, path, pos, sampFreq, readVars, semVars, holds, dacVars>>

WaitStopped ==
    /\ dacStopped
    /\ PlayerGoto("waitStopped", "clear")
    /\ dacStopped' = FALSE
    /\ UNCHANGED <<callVars, fileVars, sampFreq, readVars, changeBuffer, holds, dacVars>>

Clear ==
    /\ PlayerGoto("clear", "broadcast")
    /\ ClearPlay
    /\ UNCHANGED <<fileVars, sampFreq, readVars, semVars, holds, dacVars>>

Broadcast ==
    /\ PlayerGoto("broadcast", "suspend")
    /\ CondBroadcast
    /\ UNCHANGED <<fileVars, sampFreq, readVars, semVars, holds, dacVars>>

PlayerStep == Suspend \/ Awake \/ Open \/ OpenFails \/ Scan \/ ScanFails
                  \/ TestPlay \/ StopPlaying
                  \/ ReadDone \/ ReadFails \/ Convert \/ PlayBuffer \/ Short
                  \/ WaitChange \/ SwapFill \/ WaitStopped \/ Clear \/ Broadcast

-----------------------------------------------------------------------------
(* The interrupt at the end of a buffer.  A card that is not slow has the  *)
(* next buffer ready, so the thread is asleep when the interrupt comes.    *)
Working ==
    \/ ppc \in {"open", "scan", "test", "read", "convert", "first", "short", "swap"}
    \/ ppc = "wait" /\ changeBuffer
    \/ ppc = "waitStopped" /\ dacStopped

DacReady == dac = "playing" /\ (CardSlow \/ ~Working)

\* an odd number of samples loses its last one
Even(n) == IF n > 1 /\ n % 2 = 1 THEN n - 1 ELSE n

\* mutants: the buffer is not changed, the last block is not detected
EndCbSameBuffer ==
    /\ DacReady
    /\ sizeToRead > 0
    /\ sizeToRead' = IF Even(sizeToRead) < Size THEN 0 ELSE sizeToRead
    /\ changeBuffer' = TRUE
    /\ dacFreq' = sampFreq
    /\ UNCHANGED <<callVars, ppc, fileVars, sampFreq, bufferToRead, dacStopped, holds, dac, dacBuf, dacSize>>

EndCbNeverLast ==
    /\ DacReady
    /\ sizeToRead > 0
    /\ bufferToRead' = Other(bufferToRead)
    /\ dacBuf' = bufferToRead'
    /\ dacSize' = Even(sizeToRead)
    /\ changeBuffer' = TRUE
    /\ dacFreq' = sampFreq
    /\ UNCHANGED <<callVars, ppc, fileVars, sampFreq, sizeToRead, dacStopped, holds, dac>>

EndCbNext ==
    /\ DacReady
    /\ sizeToRead > 0
    /\ bufferToRead' = Other(bufferToRead)
    /\ dacBuf' = bufferToRead'
    /\ dacSize' = Even(sizeToRead)
    /\ sizeToRead' = IF Even(sizeToRead) < Size THEN 0 ELSE sizeToRead
    /\ changeBuffer' = TRUE
    /\ dacFreq' = sampFreq
    /\ UNCHANGED <<callVars, ppc, fileVars, sampFreq, dacStopped, holds, dac>>

\* mutant: the DAC is left playing at the end
EndCbNoStop ==
    /\ DacReady
    /\ sizeToRead = 0
    /\ bufferToRead' = Other(bufferToRead)
    /\ dacStopped' = TRUE
    /\ UNCHANGED <<callVars, ppc, fileVars, sampFreq, sizeToRead, changeBuffer, holds, dacVars>>

\* mutant: the change of buffer is signalled at the end too
EndCbStopSignals ==
    /\ DacReady
    /\ sizeToRead = 0
    /\ bufferToRead' = Other(bufferToRead)
    /\ dac' = "stopped"
    /\ dacStopped' = TRUE
    /\ changeBuffer' = TRUE
    /\ UNCHANGED <<callVars, ppc, fileVars, sampFreq, sizeToRead, holds, dacBuf, dacSize, dacFreq>>

EndCbStop ==
    /\ DacReady
    /\ sizeToRead = 0
    /\ bufferToRead' = Other(bufferToRead)
    /\ dac' = "stopped"
    /\ dacStopped' = TRUE
    /\ UNCHANGED <<callVars, ppc, fileVars, sampFreq, sizeToRead, changeBuffer, holds, dacBuf, dacSize, dacFreq>>

EndCb == EndCbNext \/ EndCbStop

Next ==
    \/ \E c \in Callers :
          \/ \E call \in Call : CallEnter(c, call)
          \/ CallStep(c)
    \/ Start
    \/ PlayerStep
    \/ EndCb

Spec == Init /\ [][Next]_vars

(* Threads that are ready run in turn, and a DAC that plays ends a buffer. *)
FairSpec ==
    /\ Spec
    /\ WF_vars(PlayerStep)
    /\ WF_vars(EndCb)
    /\ \A c \in Callers : SF_vars(CallStep(c))

-----------------------------------------------------------------------------
(* The comment at play_sound_file.c:183, "wait the reading of a buffer is  *)
(* complete before filling it": the thread does not begin to fill the      *)
(* buffer the DAC reads.                                                   *)
FillsTheOtherBuffer ==
    [][ppc' = "read" /\ dac = "playing" => fill # dacBuf]_vars

(* What comes out of the speaker is the file: the DAC begins with block 1  *)
(* as it was read (play_sound_file.c:187), goes from block k to block k + 1 *)
(* with no more than an odd last sample missing (line 81), and ends after  *)
(* the last block only.                                                    *)
PlaysWholeFile ==
    [][/\ PlayBuffer => holds[dacBuf'] = 1 /\ dacSize' = Read(path, 1)
       /\ EndCbNext => /\ holds[dacBuf'] = holds[dacBuf] + 1
                       /\ dacSize' = Even(Read(path, holds[dacBuf']))
       /\ EndCbStop => holds[dacBuf] = Blocks(path)]_vars

(* play_sound_file.c:78: "we need to be sure the number of sample is 1 or  *)
(* even. BUT NOT ODD !": said where a later block is handed to the DAC; the *)
(* first one (line 187) is handed to it as it was read.                    *)
NeverOdd == dac = "playing" => dacSize = 1 \/ dacSize % 2 = 0

(* play_sound_file.h:58: "Use waitSoundFileHasFinished() to be sure the    *)
(* sound has stopped": the speaker is silent when the player rests and     *)
(* when it wakes the callers that wait for it.                             *)
QuietAtRest == ppc \in {"suspend", "suspended", "broadcast"} => dac = "stopped"

(* And the binary semaphores are empty when the player rests: a token left by  *)
(* one file would let the thread run ahead of the DAC in the next one.     *)
AtRest == QuietAtRest /\ (ppc \in {"suspend", "suspended"} => ~changeBuffer /\ ~dacStopped)

(* The two places where the player can hang: it waits for the end of a DAC *)
(* that a stop has switched off (play_sound_file.c:230), or for a change   *)
(* of buffer after the last one (line 195).                                *)
Hangs ==
    /\ dac = "stopped"
    /\ \/ ppc = "waitStopped" /\ ~dacStopped
       \/ ppc = "wait" /\ ~changeBuffer /\ Samples[path] % Size = 0

(* play_sound_file.h:50: the caller "Waits until the sound file playing    *)
(* has finished".  Whatever the callers do, and on a card that fails or    *)
(* comes late, a file that was started brings the player back to rest, or  *)
(* to one of the two places above, and nowhere else: no lost token and no  *)
(* failed read makes it wait for ever.                                     *)
RestsOrHangs == \A t \in Tracks : (mail = t) ~> (ref \/ Hangs)

(* Does not hold (README): ... and never to one of those places.           *)
PlayerRests == \A t \in Tracks : (mail = t) ~> ref

(* Does not hold (README). play_sound_file.h:28: a SIMPLE_PLAY made while  *)
(* a file is playing "is ignored": the file that plays keeps the frequency *)
(* it was asked with.                                                      *)
KeepsItsFrequency ==
    [][dac = "playing" /\ dac' = "playing" => dacFreq' = dacFreq]_vars
=============================================================================
