------------------------- MODULE PlaySoundFile_proofs -------------------------
(***************************************************************************)
(* Proofs about the sound file player, for any callers, files and sizes of *)
(* its buffers: where the card does not fail and is not slow, what comes   *)
(* out of the speaker is the file.                                         *)
(***************************************************************************)
EXTENDS PlaySoundFile, Integers, TLAPS

Opening == {"open", "scan"}
InFile == {"test", "read", "convert", "first", "short", "wait", "swap", "waitStopped"}

FileTypeInv == TypeOK /\ (ppc \in InFile \union Opening => path \in Tracks)

\* The first block is read while the DAC is stopped.
StartsInv ==
    /\ ppc \in {"test", "read"} => pos = 0
    /\ ppc \in {"convert", "first"} => pos = 1 /\ holds[1] = 1 /\ sizeToRead = Read(path, 1)
    /\ ppc \in {"scan", "test", "read", "convert", "first"} => fill = 1 /\ bufferToRead = 1

\* The DAC has come to the block the thread filled last,
Caught ==
    /\ dacBuf = fill /\ holds[fill] = pos
    /\ pos > 0 /\ Read(path, pos) > 0

\* or reads the block before it; that one was full.
Ahead(k) ==
    /\ dacBuf = Other(fill) /\ holds[dacBuf] = k
    /\ k > 0 /\ Read(path, k) = Size

PlaysInv ==
    /\ bufferToRead = dacBuf
    /\ ppc = "short" => Caught /\ pos = 1 /\ sizeToRead = Read(path, 1)
    /\ ppc = "swap" \/ (ppc = "wait" /\ changeBuffer) =>
          Caught /\ sizeToRead = IF Read(path, pos) = Size THEN Size ELSE 0
    /\ ppc \in {"test", "read"} => Ahead(pos)
    /\ ppc = "convert" \/ (ppc = "wait" /\ ~changeBuffer) =>
          /\ pos > 1 /\ Ahead(pos - 1)
          /\ sizeToRead = Read(path, pos) /\ (sizeToRead > 0 => holds[fill] = pos)
    /\ ppc = "waitStopped" => sizeToRead = 0 /\ holds[dacBuf] = Blocks(path)

\* A token is there for the thread that waits for it, and the DAC is stopped
\* but from the first block to the last.
TokenInv ==
    /\ changeBuffer => ppc = "wait" /\ dac = "playing"
    /\ dacStopped => ppc \in {"wait", "waitStopped"} /\ dac = "stopped"
    /\ dac = "playing" => ppc \in InFile \ {"first"}
    /\ dac = "stopped" => ppc \notin {"short", "swap"} /\ (ppc = "wait" => dacStopped)

FileInv == TokenInv /\ IF dac = "playing" THEN PlaysInv ELSE StartsInv

\* A quotient is the only number that fits.
LEMMA Multiples ==
    ASSUME NEW b \in Nat, NEW p \in Int, NEW q \in Int, p + 1 <= q
    PROVE  p * b + b <= q * b
<1>1. (q - p - 1) * b >= 0
  BY SMT
<1> QED BY SMT, <1>1

LEMMA Quotient ==
    ASSUME NEW b \in Nat, b > 0, NEW a \in Nat, NEW q \in Nat, q * b <= a, a < q * b + b
    PROVE  a \div b = q
<1> DEFINE d == a \div b
<1>1. d \in Int /\ d * b <= a /\ a < d * b + b
  BY SMT
<1> HIDE DEF d
<1>2. ~(d + 1 <= q) /\ ~(q + 1 <= d)
  BY SMT, <1>1, Multiples
<1> QED BY SMT, <1>1, <1>2 DEF d

\* What the k-th read returns tells where the file ends.
LEMMA ReadLemma ==
    ASSUME NEW t \in Tracks, NEW k \in Nat, k > 0
    PROVE  /\ Read(t, k) \in 0..Size /\ Size \in Nat /\ Size > 0
           /\ k = 1 => Read(t, k) > 0
           /\ Read(t, k) > 0 /\ Read(t, k) # Size => Blocks(t) = k
           /\ Read(t, k) = Size /\ Read(t, k + 1) = 0 => Blocks(t) = k
<1> DEFINE n == Samples[t]
           j == (k - 1) * Size
<1>1. Size \in Nat /\ Size > 0 /\ n \in Nat /\ n > 0
  BY SMT, SizeAssumption, SamplesAssumption
<1>2. /\ k * Size = j + Size /\ j \in Nat /\ ((k + 1) - 1) * Size = j + Size
      /\ (k + 1) * Size = j + Size + Size
      /\ k = 1 => j = 0
  BY SMT, <1>1
<1>3. Read(t, k) = IF n >= j + Size THEN Size ELSE IF n > j THEN n - j ELSE 0
  BY <1>2 DEF Read
<1>4. Read(t, k + 1) = IF n >= j + Size + Size THEN Size
                       ELSE IF n > j + Size THEN n - (j + Size) ELSE 0
  BY <1>2 DEF Read
<1> HIDE DEF n, j
<1>5. ASSUME n > j, n <= j + Size PROVE (n + Size - 1) \div Size = k
  <2>1. n + Size - 1 \in Nat /\ k * Size <= n + Size - 1 /\ n + Size - 1 < k * Size + Size
    BY SMT, <1>1, <1>2, <1>5
  <2> QED BY <1>1, <2>1, Quotient
<1>6. Blocks(t) = (n + Size - 1) \div Size
  BY DEF Blocks, n
<1>7. Read(t, k) \in 0..Size /\ (k = 1 => Read(t, k) > 0)
  BY SMT, <1>1, <1>2, <1>3
<1>8. Read(t, k) > 0 /\ Read(t, k) # Size => n > j /\ n <= j + Size
  BY SMT, <1>1, <1>2, <1>3
<1>9. Read(t, k) = Size /\ Read(t, k + 1) = 0 => n > j /\ n <= j + Size
  BY SMT, <1>1, <1>2, <1>3, <1>4
<1> QED BY <1>1, <1>5, <1>6, <1>7, <1>8, <1>9

\* The buffers are two, and an odd number of samples counts as a whole buffer
\* never.
LEMMA OtherLemma == ASSUME NEW b \in Buffers PROVE Other(b) \in Buffers /\ Other(b) # b /\ Other(Other(b)) = b
BY SMT DEF Other, Buffers

LEMMA EvenLemma ==
    ASSUME NEW n \in 0..Size, n > 0
    PROVE  Even(n) < Size <=> n # Size
<1>1. Size \in Nat /\ Size % 2 = 0
  BY SizeAssumption
<1> QED BY SMT, <1>1 DEF Even

-----------------------------------------------------------------------------
(* Types.  A track is handed over only by a call that plays one, and only  *)
(* a track wakes the player.                                               *)
LEMMA TrackLemma == \A o \in Call \union {NoCall} : o.track \in Tracks \union {NoTrack}
BY DEF Call, NoCall

LEMMA EnterType ==
    ASSUME FileTypeInv, NEW c \in Callers, NEW call \in Call, CallEnter(c, call)
    PROVE  FileTypeInv'
<1>1. call.track \in Tracks \union {NoTrack}
      /\ (call.option \in PlayOption => call.track \in Tracks) /\ call.option \in Option
  BY DEF Call, Option, PlayOption
<1>2. CallTypeOK'
  BY SMT, <1>1 DEF FileTypeInv, CallEnter, Enter, TypeOK, CallTypeOK, CallerPC, Option, PlayOption
<1>3. sampFreq' \in Tracks \union {NoTrack}
  BY <1>1 DEF CallEnter, FileTypeInv, TypeOK
<1> QED
  BY <1>2, <1>3 DEF FileTypeInv, TypeOK, CallEnter, PlayerVars, fileVars, readVars, semVars, dacVars

LEMMA CallType ==
    ASSUME CallTypeOK, NEW c \in Callers, CallerStep(c)
    PROVE  CallTypeOK'
<1>1. order[c].track \in Tracks \union {NoTrack}
  BY TrackLemma DEF CallTypeOK
<1>2. ASSUME NEW from, NEW to \in CallerPC, Goto(c, from, to)
      PROVE  pc' \in [Callers -> CallerPC] /\ order' \in [Callers -> Call \union {NoCall}]
  BY SMT, <1>2 DEF CallTypeOK, Goto
<1>3. pc' \in [Callers -> CallerPC] /\ order' \in [Callers -> Call \union {NoCall}]
  BY <1>2 DEF CallerStep, CheckRef, StopCurrent, TestRef, MtxLock, CondWait, MtxUnlock, Arm,
              ThdResume, AfterWait, CallerPC
<1>4. ref' \in BOOLEAN /\ play' \in BOOLEAN /\ mail' \in Tracks \union {NoTrack}
  BY <1>1 DEF CallTypeOK, CallerStep, CheckRef, StopCurrent, TestRef, MtxLock, CondWait,
              MtxUnlock, Arm, ThdResume
<1>5. lock' \in Callers \union {NoCaller} /\ waiting' \subseteq Callers
  BY DEF CallTypeOK, CallerStep, CheckRef, StopCurrent, TestRef, MtxLock, CondWait,
         MtxUnlock, Arm, ThdResume
<1> QED BY <1>3, <1>4, <1>5 DEF CallTypeOK

\* The four things the player does with the variables of the calls.
LEMMA ServeType ==
    ASSUME CallTypeOK, ThdSuspend \/ ThdAwake \/ ClearPlay \/ CondBroadcast \/ UNCHANGED callVars
    PROVE  CallTypeOK'
<1>1. CASE CondBroadcast
  <2>1. pc' \in [Callers -> CallerPC]
    BY <1>1 DEF CondBroadcast, CallTypeOK, CallerPC
  <2> QED BY <1>1, <2>1 DEF CondBroadcast, CallTypeOK
<1>2. CASE ThdSuspend \/ ThdAwake \/ ClearPlay \/ UNCHANGED callVars
  BY <1>2 DEF ThdSuspend, ThdAwake, ClearPlay, callVars, CallTypeOK
<1> QED BY <1>1, <1>2

LEMMA PlayerType ==
    ASSUME FileTypeInv, Start \/ PlayerStep \/ EndCb
    PROVE  FileTypeInv'
<1>0. TypeOK /\ CallTypeOK /\ (ppc \in InFile \union Opening => path \in Tracks)
  BY DEF FileTypeInv, TypeOK
<1>1. CallTypeOK'
  <2>1. ThdSuspend \/ ThdAwake \/ ClearPlay \/ CondBroadcast \/ UNCHANGED callVars
    BY DEF Start, PlayerStep, Suspend, Awake, Open, OpenFails, Scan, ScanFails, TestPlay, StopPlaying, ReadDone,
           ReadFails, Convert, PlayBuffer, Short, WaitChange, SwapFill, WaitStopped, Clear,
           Broadcast, EndCb, EndCbNext, EndCbStop
  <2> QED BY <1>0, <2>1, ServeType
<1>2. ppc' \in PlayerPC
  BY <1>0 DEF Start, PlayerStep, Suspend, Awake, Open, OpenFails, Scan, ScanFails, TestPlay, StopPlaying, ReadDone,
         ReadFails, Convert, PlayBuffer, Short, WaitChange, SwapFill, WaitStopped, Clear,
         Broadcast, EndCb, EndCbNext, EndCbStop, PlayerGoto, PlayerPC, TypeOK
<1>3. path' \in Tracks \union {NoTrack} /\ (ppc' \in InFile \union Opening => path' \in Tracks)
  <2>1. CASE Awake
    BY <2>1, <1>0 DEF Awake, ThdAwake, CallTypeOK
  <2>2. CASE ~Awake
    <3>1. path' = path
      BY <2>2 DEF Start, PlayerStep, Suspend, Open, OpenFails, Scan, ScanFails, TestPlay, StopPlaying,
        ReadDone, ReadFails, Convert, PlayBuffer, Short, WaitChange, SwapFill, WaitStopped,
        Clear, Broadcast, EndCb, EndCbNext, EndCbStop, fileVars
    <3>2. ppc' \in InFile \union Opening => ppc \in InFile \union Opening
      BY <2>2 DEF Start, PlayerStep, Suspend, Open, OpenFails, Scan, ScanFails, TestPlay, StopPlaying,
        ReadDone, ReadFails, Convert, PlayBuffer, Short, WaitChange, SwapFill, WaitStopped,
        Clear, Broadcast, EndCb, EndCbNext, EndCbStop, PlayerGoto, InFile, Opening
    <3> QED BY <1>0, <3>1, <3>2 DEF TypeOK
  <2> QED BY <2>1, <2>2
<1>4. sizeToRead' \in 0..Size
  <2>1. CASE Scan
    <3>1. path \in Tracks /\ pos + 1 \in Nat /\ pos + 1 > 0
      BY SMT, <1>0, <2>1 DEF Scan, Opening, TypeOK
    <3> QED BY <2>1, <3>1, ReadLemma DEF Scan
  <2>2. CASE ReadDone
    <3>1. path \in Tracks /\ pos' \in Nat /\ pos' > 0
      BY SMT, <1>0, <2>2 DEF ReadDone, PlayerGoto, InFile, TypeOK
    <3> QED BY <2>2, <3>1, ReadLemma DEF ReadDone
  <2>3. CASE ~Scan /\ ~ReadDone
    <3>1. sizeToRead' \in {sizeToRead, 0}
      BY <2>3 DEF Start, PlayerStep, Suspend, Awake, Open, OpenFails, ScanFails, TestPlay, StopPlaying,
        ReadFails, Convert, PlayBuffer, Short, WaitChange, SwapFill, WaitStopped,
        Clear, Broadcast, EndCb, EndCbNext, EndCbStop, readVars
    <3> QED BY SMT, <1>0, <3>1, SizeAssumption DEF TypeOK
  <2> QED BY <2>1, <2>2, <2>3
<1>5. pos' \in Nat /\ holds' \in [Buffers -> Nat]
  <2>1. pos' \in Nat
    BY SMT, <1>0 DEF TypeOK, Start, PlayerStep, Suspend, Awake, Open, OpenFails, Scan, ScanFails, TestPlay,
      StopPlaying, ReadDone, ReadFails, Convert, PlayBuffer, Short, WaitChange, SwapFill,
      WaitStopped, Clear, Broadcast, EndCb, EndCbNext, EndCbStop, fileVars
  <2>2. holds' \in {holds, [holds EXCEPT ![1] = 0], [holds EXCEPT ![fill] = pos']}
    BY DEF Start, PlayerStep, Suspend, Awake, Open, OpenFails, Scan, ScanFails, TestPlay, StopPlaying, ReadDone,
      ReadFails, Convert, PlayBuffer, Short, WaitChange, SwapFill, WaitStopped, Clear,
      Broadcast, EndCb, EndCbNext, EndCbStop
  <2> QED BY <1>0, <2>1, <2>2 DEF TypeOK
<1>8. dacSize' \in 0..Size
  <2>1. dacSize' \in {dacSize, sizeToRead, Even(sizeToRead)}
    BY DEF Start, PlayerStep, Suspend, Awake, Open, OpenFails, Scan, ScanFails, TestPlay,
      StopPlaying, ReadDone, ReadFails, Convert, PlayBuffer, Short, WaitChange, SwapFill,
      WaitStopped, Clear, Broadcast, EndCb, EndCbNext, EndCbStop, dacVars
  <2> QED BY SMT, <1>0, <2>1, SizeAssumption DEF TypeOK, Even
<1>6. fill' \in Buffers /\ bufferToRead' \in Buffers /\ dacBuf' \in Buffers
  BY <1>0, OtherLemma DEF TypeOK, Start, PlayerStep, Suspend, Awake, Open, OpenFails, Scan, ScanFails, TestPlay,
      StopPlaying, ReadDone, ReadFails, Convert, PlayBuffer, Short, WaitChange, SwapFill,
      WaitStopped, Clear, Broadcast, EndCb, EndCbNext, EndCbStop, fileVars, readVars, dacVars,
      Buffers
<1>7. /\ changeBuffer' \in BOOLEAN /\ dacStopped' \in BOOLEAN
      /\ sampFreq' \in Tracks \union {NoTrack} /\ dacFreq' \in Tracks \union {NoTrack}
      /\ dac' \in {"stopped", "playing"}
  BY <1>0 DEF TypeOK, Start, PlayerStep, Suspend, Awake, Open, OpenFails, Scan, ScanFails, TestPlay,
      StopPlaying, ReadDone, ReadFails, Convert, PlayBuffer, Short, WaitChange, SwapFill,
      WaitStopped, Clear, Broadcast, EndCb, EndCbNext, EndCbStop, semVars, dacVars
<1> QED BY <1>1, <1>2, <1>3, <1>4, <1>5, <1>6, <1>7, <1>8 DEF FileTypeInv, TypeOK

LEMMA FileTypeInit == Init => FileTypeInv
<1> SUFFICES ASSUME Init PROVE FileTypeInv
  OBVIOUS
<1>1. CallTypeOK
  <2>1. pc \in [Callers -> CallerPC] /\ order \in [Callers -> Call \union {NoCall}]
    BY DEF Init, CallInit, CallerPC
  <2> QED BY <2>1 DEF Init, CallInit, CallTypeOK
<1>2. sizeToRead \in 0..Size /\ dacSize \in 0..Size
  BY SMT, SizeAssumption DEF Init
<1> QED BY <1>1, <1>2 DEF Init, FileTypeInv, TypeOK, PlayerPC, InFile, Opening, Buffers

LEMMA FileTypeNext == FileTypeInv /\ [Next]_vars => FileTypeInv'
<1> SUFFICES ASSUME FileTypeInv, [Next]_vars PROVE FileTypeInv'
  OBVIOUS
<1>1. ASSUME NEW c \in Callers, CallStep(c) PROVE FileTypeInv'
  <2>1. CallTypeOK'
    BY <1>1, CallType DEF CallStep, FileTypeInv, TypeOK
  <2> QED BY <1>1, <2>1 DEF CallStep, FileTypeInv, TypeOK, PlayerVars, fileVars, readVars,
                            semVars, dacVars
<1>2. CASE UNCHANGED vars
  BY <1>2 DEF FileTypeInv, TypeOK, CallTypeOK, vars, callVars, fileVars, readVars, semVars, dacVars
<1>3. CASE Next
  BY <1>1, <1>3, EnterType, PlayerType DEF Next
<1> QED BY <1>2, <1>3

LEMMA FileTypeSpec == Spec => []FileTypeInv
BY FileTypeInit, FileTypeNext, PTL DEF Spec

(* Every variable of the player keeps its type, whatever the card does; in *)
(* particular the number of samples never exceeds a buffer.                *)
THEOREM FileTypeOK == Spec => []TypeOK
<1>1. FileTypeInv => TypeOK
  BY DEF FileTypeInv
<1> QED BY FileTypeSpec, <1>1, PTL

-----------------------------------------------------------------------------
(* What the DAC plays is the file.  The thread and the interrupt take      *)
(* turns; while the thread works the interrupt does not come.              *)

\* The callers touch nothing the thread and the interrupt work with.
LEMMA CallersPlay ==
    ASSUME FileInv, UNCHANGED PlayerVars
    PROVE  FileInv'
BY DEF FileInv, TokenInv, PlaysInv, StartsInv, Caught, Ahead, Read, Other, PlayerVars, fileVars,
       readVars, semVars, dacVars

LEMMA OpenPlay ==
    ASSUME FileTypeInv, FileInv, Start \/ Suspend \/ Awake \/ Open \/ Scan \/ Clear \/ Broadcast
    PROVE  FileInv'
<1>1. /\ ppc \in {"unstarted", "suspend", "suspended", "open", "scan", "clear", "broadcast"}
      /\ ppc' \notin InFile \ {"test"}
      /\ UNCHANGED <<semVars, dac>>
  BY DEF Start, Suspend, Awake, Open, Scan, Clear, Broadcast, PlayerGoto, InFile, dacVars, semVars
<1>2. dac = "stopped" /\ ~changeBuffer /\ ~dacStopped
  BY <1>1 DEF FileInv, TokenInv, InFile, FileTypeInv, TypeOK
<1>3. ppc' \in {"scan", "test"} => fill' = 1 /\ bufferToRead' = 1
  <2>1. CASE Scan
    BY <2>1, <1>2 DEF Scan, FileInv, StartsInv
  <2>2. CASE ~Scan
    BY <2>2 DEF Start, Suspend, Awake, Open, Clear, Broadcast, PlayerGoto
  <2> QED BY <2>1, <2>2
<1>4. ppc' = "test" => pos' = 0
  <2>1. CASE Scan
    BY <2>1 DEF Scan
  <2>2. CASE ~Scan
    BY <2>2 DEF Start, Suspend, Awake, Open, Clear, Broadcast, PlayerGoto
  <2> QED BY <2>1, <2>2
<1> QED BY <1>1, <1>2, <1>3, <1>4 DEF FileInv, TokenInv, StartsInv, semVars, InFile

LEMMA TestStopPlay ==
    ASSUME FileTypeInv, FileInv, TestPlay \/ StopPlaying
    PROVE  FileInv'
BY DEF FileTypeInv, TypeOK, FileInv, TokenInv, PlaysInv, StartsInv, Caught, Ahead, Read, Other,
       TestPlay, StopPlaying, PlayerGoto, InFile, fileVars, readVars, semVars, dacVars

LEMMA ReadPlay ==
    ASSUME FileTypeInv, FileInv, ReadDone
    PROVE  FileInv'
<1>1. /\ ppc = "read" /\ ppc' = "convert" /\ pos' = pos + 1 /\ path' = path /\ fill' = fill
      /\ sizeToRead' = Read(path, pos') /\ UNCHANGED <<bufferToRead, semVars, dacVars>>
      /\ holds' = IF sizeToRead' > 0 THEN [holds EXCEPT ![fill] = pos'] ELSE holds
  BY DEF ReadDone, PlayerGoto
<1>2. /\ path \in Tracks /\ pos \in Nat /\ fill \in Buffers /\ dacBuf \in Buffers
      /\ holds \in [Buffers -> Nat]
  BY <1>1 DEF FileTypeInv, TypeOK, InFile
<1>3. TokenInv'
  BY <1>1 DEF FileInv, TokenInv, InFile, semVars, dacVars
<1>4. CASE dac = "playing"
  <2>1. Ahead(pos) /\ bufferToRead = dacBuf /\ pos' > 1 /\ pos' - 1 = pos
    BY SMT, <1>1, <1>2, <1>4 DEF FileInv, PlaysInv, Ahead
  <2>2. dacBuf # fill
    BY <2>1, <1>2, OtherLemma DEF Ahead
  <2>3. holds'[dacBuf] = holds[dacBuf] /\ (sizeToRead' > 0 => holds'[fill] = pos')
    BY <1>1, <1>2, <2>2
  <2>4. Read(path, pos)' = Read(path, pos')
    BY <1>1 DEF Read
  <2>5. Ahead(pos - 1)'
    BY <1>1, <2>1, <2>3 DEF Ahead, dacVars, Read, Other
  <2>6. PlaysInv'
    BY <1>1, <2>1, <2>3, <2>4, <2>5 DEF PlaysInv, dacVars
  <2> QED BY <1>1, <1>3, <1>4, <2>6 DEF FileInv, dacVars
<1>5. CASE dac # "playing"
  <2>1. pos' = 1 /\ fill = 1 /\ bufferToRead = 1
    BY SMT, <1>1, <1>5 DEF FileInv, StartsInv
  <2>2. Read(path, 1) > 0
    BY <1>2, ReadLemma
  <2>3. holds'[1] = 1 /\ sizeToRead' = Read(path', 1)
    BY <1>1, <1>2, <2>1, <2>2
  <2>4. Read(path, 1)' = Read(path', 1)
    BY DEF Read
  <2>5. StartsInv'
    BY <1>1, <2>1, <2>3, <2>4 DEF StartsInv
  <2> QED BY <1>1, <1>3, <1>5, <2>5 DEF FileInv, dacVars
<1> QED BY <1>4, <1>5

LEMMA ConvertPlay ==
    ASSUME FileTypeInv, FileInv, Convert \/ PlayBuffer \/ Short
    PROVE  FileInv'
<1>0. /\ path' = path /\ pos' = pos /\ fill' = fill /\ holds' = holds
      /\ bufferToRead' = bufferToRead /\ UNCHANGED semVars
  BY DEF Convert, PlayBuffer, Short, fileVars, readVars
<1>1. /\ path \in Tracks /\ pos \in Nat /\ fill \in Buffers /\ dac \in {"stopped", "playing"}
      /\ changeBuffer \in BOOLEAN /\ dacStopped \in BOOLEAN
  BY DEF FileTypeInv, TypeOK, InFile, Convert, PlayBuffer, Short, PlayerGoto
<1>2. CASE Convert
  <2>1. /\ ppc = "convert" /\ ppc' = (IF pos = 1 THEN "first" ELSE "wait")
        /\ dac' = dac /\ dacBuf' = dacBuf /\ sizeToRead' = sizeToRead
    BY <1>2 DEF Convert, PlayerGoto, readVars, dacVars
  <2>2. dac = "playing" => pos > 1 /\ ppc' = "wait"
    BY SMT, <2>1, <1>1 DEF FileInv, PlaysInv
  <2>3. dac = "stopped" => ppc' = "first"
    BY SMT, <2>1, <1>1 DEF FileInv, StartsInv
  <2>4. ~changeBuffer /\ ~dacStopped
    BY <2>1 DEF FileInv, TokenInv
  <2> QED BY <1>0, <1>1, <2>1, <2>2, <2>3, <2>4
          DEF FileInv, TokenInv, PlaysInv, StartsInv, Ahead, Caught, Read, Other, InFile, semVars
<1>3. CASE PlayBuffer
  <2>1. /\ ppc = "first" /\ ppc' = "short" /\ dac' = "playing"
        /\ dacBuf' = (IF dac = "stopped" THEN bufferToRead ELSE dacBuf) /\ sizeToRead' = sizeToRead
    BY <1>3 DEF PlayBuffer, PlayerGoto, readVars
  <2>2. dac = "stopped" /\ ~changeBuffer /\ ~dacStopped
    BY <2>1, <1>1 DEF FileInv, TokenInv
  <2>3. pos = 1 /\ holds[1] = 1 /\ sizeToRead = Read(path, 1) /\ fill = 1 /\ bufferToRead = 1
    BY <2>1, <2>2 DEF FileInv, StartsInv
  <2>4. Read(path, 1) > 0
    BY <1>1, ReadLemma
  <2>5. Caught'
    BY SMT, <1>0, <2>1, <2>2, <2>3, <2>4 DEF Caught, Read
  <2>6. TokenInv' /\ PlaysInv'
    BY <1>0, <2>1, <2>2, <2>3, <2>5 DEF TokenInv, PlaysInv, semVars, InFile, Read
  <2> QED BY <2>1, <2>6 DEF FileInv
<1>4. CASE Short
  <2>1. /\ ppc = "short" /\ ppc' = "swap" /\ dac' = dac /\ dacBuf' = dacBuf
        /\ sizeToRead' = IF sizeToRead < Size THEN 0 ELSE sizeToRead
    BY <1>4 DEF Short, PlayerGoto, dacVars
  <2>2. dac = "playing" /\ ~changeBuffer /\ ~dacStopped
    BY <2>1, <1>1 DEF FileInv, TokenInv
  <2>3. Caught /\ pos = 1 /\ sizeToRead = Read(path, 1) /\ bufferToRead = dacBuf
    BY <2>1, <2>2 DEF FileInv, PlaysInv
  <2>4. Read(path, 1) \in 0..Size /\ Size \in Nat
    BY <1>1, ReadLemma
  <2>5. sizeToRead' = IF Read(path, pos) = Size THEN Size ELSE 0
    BY SMT, <2>1, <2>3, <2>4
  <2>6. Caught' /\ Read(path, pos)' = Read(path, pos)
    BY <1>0, <2>1, <2>3 DEF Caught, Read
  <2>7. TokenInv' /\ PlaysInv'
    BY <1>0, <2>1, <2>2, <2>3, <2>5, <2>6 DEF TokenInv, PlaysInv, semVars, InFile
  <2> QED BY <2>1, <2>2, <2>7 DEF FileInv
<1> QED BY <1>2, <1>3, <1>4

LEMMA SwapPlay ==
    ASSUME FileTypeInv, FileInv, WaitChange \/ SwapFill \/ WaitStopped
    PROVE  FileInv'
<1>0. /\ path' = path /\ pos' = pos /\ holds' = holds /\ UNCHANGED <<readVars, dacVars>>
  BY DEF WaitChange, SwapFill, WaitStopped, fileVars
<1>1. /\ path \in Tracks /\ pos \in Nat /\ fill \in Buffers /\ dac \in {"stopped", "playing"}
      /\ changeBuffer \in BOOLEAN /\ dacStopped \in BOOLEAN
  BY DEF FileTypeInv, TypeOK, InFile, WaitChange, SwapFill, WaitStopped, PlayerGoto
<1>2. CASE WaitChange
  <2>1. /\ ppc = "wait" /\ ppc' = "swap" /\ changeBuffer /\ changeBuffer' = FALSE
        /\ dacStopped' = dacStopped /\ fill' = fill
    BY <1>2 DEF WaitChange, PlayerGoto, fileVars
  <2>2. dac = "playing" /\ ~dacStopped
    BY <2>1 DEF FileInv, TokenInv
  <2> QED BY <1>0, <2>1, <2>2 DEF FileInv, TokenInv, PlaysInv, Caught, Read, readVars, dacVars, InFile
<1>3. CASE SwapFill
  <2>1. /\ ppc = "swap" /\ ppc' = (IF sizeToRead >= Size THEN "test" ELSE "waitStopped")
        /\ fill' = Other(fill) /\ UNCHANGED semVars
    BY <1>3 DEF SwapFill, PlayerGoto
  <2>2. dac = "playing" /\ ~changeBuffer /\ ~dacStopped
    BY <2>1, <1>1 DEF FileInv, TokenInv
  <2>3. /\ Caught /\ sizeToRead = (IF Read(path, pos) = Size THEN Size ELSE 0)
        /\ bufferToRead = dacBuf
    BY <2>1, <2>2 DEF FileInv, PlaysInv
  <2>4. Size \in Nat /\ Size > 0
    BY SizeAssumption
  <2>5. CASE Read(path, pos) = Size
    <3>1. ppc' = "test"
      BY SMT, <2>1, <2>3, <2>4, <2>5
    <3>2. Other(fill') = fill
      BY <1>1, <2>1, OtherLemma
    <3>3. Ahead(pos)'
      BY <1>0, <2>3, <2>5, <3>2 DEF Caught, Ahead, Read, Other, dacVars
    <3> QED BY <1>0, <2>1, <2>2, <2>3, <3>1, <3>3
            DEF FileInv, TokenInv, PlaysInv, InFile, semVars, dacVars, readVars
  <2>6. CASE Read(path, pos) # Size
    <3>1. ppc' = "waitStopped" /\ sizeToRead = 0
      BY SMT, <2>1, <2>3, <2>4, <2>6
    <3>2. holds[dacBuf] = Blocks(path)
      BY <1>1, <2>3, <2>6, ReadLemma DEF Caught
    <3> QED BY <1>0, <2>1, <2>2, <2>3, <3>1, <3>2
            DEF FileInv, TokenInv, PlaysInv, InFile, semVars, dacVars, readVars, Blocks
  <2> QED BY <2>5, <2>6
<1>4. CASE WaitStopped
  <2>1. ppc = "waitStopped" /\ ppc' = "clear" /\ dacStopped /\ dacStopped' = FALSE
        /\ changeBuffer' = changeBuffer
    BY <1>4 DEF WaitStopped, PlayerGoto
  <2>2. dac = "stopped" /\ ~changeBuffer
    BY <2>1, <1>1 DEF FileInv, TokenInv
  <2> QED BY <1>0, <2>1, <2>2 DEF FileInv, TokenInv, StartsInv, dacVars, InFile
<1> QED BY <1>2, <1>3, <1>4

\* Where the thread is when the DAC ends a buffer in time.
LEMMA InTime ==
    ASSUME ~CardSlow, FileTypeInv, FileInv, DacReady
    PROVE  /\ dac = "playing" /\ path \in Tracks
           /\ ~changeBuffer /\ ~dacStopped
           /\ ppc \in {"wait", "waitStopped"}
BY DEF DacReady, Working, FileTypeInv, TypeOK, FileInv, TokenInv, InFile

LEMMA NextPlay ==
    ASSUME ~CardSlow, FileTypeInv, FileInv, EndCbNext
    PROVE  /\ FileInv' /\ holds[dacBuf'] = holds[dacBuf] + 1
           /\ dacSize' = Even(Read(path, holds[dacBuf']))
<1>1. /\ ppc' = ppc /\ path' = path /\ pos' = pos /\ fill' = fill /\ holds' = holds /\ dac' = dac
      /\ sizeToRead > 0 /\ changeBuffer' = TRUE /\ dacStopped' = dacStopped
      /\ bufferToRead' = Other(bufferToRead) /\ dacBuf' = Other(bufferToRead)
      /\ sizeToRead' = (IF Even(sizeToRead) < Size THEN 0 ELSE sizeToRead)
      /\ dacSize' = Even(sizeToRead)
  BY DEF EndCbNext, fileVars
<1>2. dac = "playing" /\ path \in Tracks /\ ~changeBuffer /\ ~dacStopped /\ ppc \in {"wait", "waitStopped"}
  BY InTime DEF EndCbNext
<1>3. pos \in Nat /\ fill \in Buffers /\ sizeToRead \in 0..Size
  BY DEF FileTypeInv, TypeOK
<1>4. ppc = "wait"
  BY SMT, <1>1, <1>2, <1>3 DEF FileInv, PlaysInv
<1>5. /\ pos > 1 /\ Ahead(pos - 1) /\ bufferToRead = dacBuf
      /\ sizeToRead = Read(path, pos) /\ holds[fill] = pos
  BY <1>1, <1>2, <1>4 DEF FileInv, PlaysInv
<1>6. dacBuf' = fill
  BY <1>1, <1>3, <1>5, OtherLemma DEF Ahead
<1>7. sizeToRead' = IF Read(path, pos) = Size THEN Size ELSE 0
  <2>1. Even(sizeToRead) < Size <=> sizeToRead # Size
    BY <1>1, <1>3, EvenLemma
  <2> QED BY <1>1, <1>5, <2>1
<1>8. Caught' /\ Read(path, pos)' = Read(path, pos)
  BY SMT, <1>1, <1>3, <1>5, <1>6 DEF Caught, Read
<1>9. FileInv'
  BY <1>1, <1>2, <1>4, <1>6, <1>7, <1>8 DEF FileInv, TokenInv, PlaysInv, InFile
<1>10. holds[dacBuf'] = holds[dacBuf] + 1
  BY SMT, <1>3, <1>5, <1>6 DEF Ahead
<1>11. dacSize' = Even(Read(path, holds[dacBuf']))
  BY <1>1, <1>5, <1>6
<1> QED BY <1>9, <1>10, <1>11

LEMMA StopPlay ==
    ASSUME ~CardSlow, FileTypeInv, FileInv, EndCbStop
    PROVE  FileInv' /\ holds[dacBuf] = Blocks(path)
<1>1. /\ ppc' = ppc /\ UNCHANGED fileVars /\ sizeToRead = 0
      /\ dac' = "stopped" /\ dacStopped' = TRUE /\ changeBuffer' = changeBuffer
  BY DEF EndCbStop
<1>2. dac = "playing" /\ path \in Tracks /\ ~changeBuffer /\ ~dacStopped /\ ppc \in {"wait", "waitStopped"}
  BY InTime DEF EndCbStop
<1>3. FileInv'
  BY <1>1, <1>2 DEF FileInv, TokenInv, StartsInv
<1>4. CASE ppc = "waitStopped"
  BY <1>2, <1>3, <1>4 DEF FileInv, PlaysInv
<1>5. CASE ppc = "wait"
  <2>1. pos \in Nat /\ pos > 1 /\ Ahead(pos - 1) /\ Read(path, pos) = 0
    BY <1>1, <1>2, <1>5 DEF FileInv, PlaysInv, FileTypeInv, TypeOK
  <2>2. pos - 1 \in Nat /\ pos - 1 > 0 /\ (pos - 1) + 1 = pos
    BY SMT, <2>1
  <2>3. Blocks(path) = pos - 1
    BY <1>2, <2>1, <2>2, ReadLemma DEF Ahead
  <2> QED BY <1>3, <2>1, <2>3 DEF Ahead
<1> QED BY <1>2, <1>4, <1>5

\* The DAC begins with the first block, as it was read.
LEMMA FirstPlay ==
    ASSUME FileTypeInv, FileInv, PlayBuffer
    PROVE  holds[dacBuf'] = 1 /\ dacSize' = Read(path, 1)
<1>1. ppc = "first" /\ dac = "stopped"
  BY DEF PlayBuffer, PlayerGoto, FileTypeInv, TypeOK, FileInv, TokenInv
<1>2. holds[1] = 1 /\ sizeToRead = Read(path, 1) /\ bufferToRead = 1
  BY <1>1 DEF FileInv, StartsInv
<1>3. dacBuf' = 1 /\ dacSize' = sizeToRead
  BY <1>1, <1>2 DEF PlayBuffer
<1> QED BY <1>2, <1>3

LEMMA FileInit == Init => FileInv
BY DEF Init, FileInv, TokenInv, StartsInv

LEMMA FileNext ==
    ASSUME ~CardFails, ~CardSlow, FileTypeInv, FileInv, [Next]_vars
    PROVE  FileInv'
<1>1. CASE UNCHANGED vars
  BY <1>1, CallersPlay DEF vars, PlayerVars
<1>2. ASSUME NEW c \in Callers, CallStep(c) \/ \E call \in Call : CallEnter(c, call) PROVE FileInv'
  BY <1>2, CallersPlay DEF CallStep, CallEnter
<1>3. ASSUME Start \/ PlayerStep PROVE FileInv'
  BY <1>3, OpenPlay, TestStopPlay, ReadPlay, ConvertPlay, SwapPlay
     DEF PlayerStep, OpenFails, ScanFails, ReadFails
<1>4. ASSUME EndCb PROVE FileInv'
  BY <1>4, NextPlay, StopPlay DEF EndCb
<1> QED BY <1>1, <1>2, <1>3, <1>4 DEF Next

LEMMA FileSpec == ASSUME ~CardFails, ~CardSlow PROVE Spec => [](FileTypeInv /\ FileInv)
<1>1. FileTypeInv /\ FileInv /\ [Next]_vars => FileInv'
  BY FileNext
<1> QED BY <1>1, FileTypeSpec, FileInit, PTL DEF Spec

(* With a card that answers in time, the speaker is silent and both        *)
(* semaphores are empty whenever the player rests: no token of one file is *)
(* left to let the thread run ahead of the DAC in the next one.            *)
THEOREM AtRestTheorem == ASSUME ~CardFails, ~CardSlow PROVE Spec => []AtRest
<1>1. FileTypeInv /\ FileInv => AtRest
  BY DEF FileTypeInv, TypeOK, FileInv, TokenInv, AtRest, QuietAtRest, InFile
<1> QED BY FileSpec, <1>1, PTL

(* The thread fills the buffer the DAC does not read.                      *)
THEOREM FillsTheorem == ASSUME ~CardFails, ~CardSlow PROVE Spec => FillsTheOtherBuffer
<1> DEFINE Fills == ppc' = "read" /\ dac = "playing" => fill # dacBuf
<1>1. ASSUME FileTypeInv, FileInv, Next PROVE Fills
  <2> SUFFICES ASSUME ppc' = "read", dac = "playing" PROVE fill # dacBuf
    OBVIOUS
  <2>1. ppc \in {"test", "read"}
    BY <1>1 DEF Next, CallEnter, CallStep, PlayerVars, Start, PlayerStep, Suspend, Awake, Open, OpenFails, Scan,
      ScanFails, TestPlay, StopPlaying, ReadDone, ReadFails, Convert, PlayBuffer, Short, WaitChange, SwapFill,
      WaitStopped, Clear, Broadcast, EndCb, EndCbNext, EndCbStop, PlayerGoto
  <2>2. Ahead(pos) /\ fill \in Buffers
    BY <1>1, <2>1 DEF FileInv, PlaysInv, FileTypeInv, TypeOK
  <2> QED BY <2>2, OtherLemma DEF Ahead
<1>2. (FileTypeInv /\ FileInv) /\ [Next]_vars => [Fills]_vars
  BY <1>1
<1>3. FillsTheOtherBuffer <=> [][Fills]_vars
  BY PTL DEF FillsTheOtherBuffer
<1> HIDE DEF Fills
<1> QED BY FileSpec, <1>2, <1>3, PTL DEF Spec

(* The file comes out whole and in order: the DAC begins with the first    *)
(* block as it was read, goes from block k to block k + 1 with no more     *)
(* than an odd last sample missing, and ends after the last block only.    *)
THEOREM WholeFileTheorem == ASSUME ~CardFails, ~CardSlow PROVE Spec => PlaysWholeFile
<1> DEFINE Whole == /\ PlayBuffer => holds[dacBuf'] = 1 /\ dacSize' = Read(path, 1)
                    /\ EndCbNext => /\ holds[dacBuf'] = holds[dacBuf] + 1
                                    /\ dacSize' = Even(Read(path, holds[dacBuf']))
                    /\ EndCbStop => holds[dacBuf] = Blocks(path)
<1>1. (FileTypeInv /\ FileInv) /\ [Next]_vars => [Whole]_vars
  BY FirstPlay, NextPlay, StopPlay
<1>2. PlaysWholeFile <=> [][Whole]_vars
  BY PTL DEF PlaysWholeFile
<1> HIDE DEF Whole
<1> QED BY FileSpec, <1>1, <1>2, PTL DEF Spec
===============================================================================
