---------------------------- MODULE SpiComm_proofs ----------------------------
(***************************************************************************)
(* The set-up of the camera and the image that is given, for any threads   *)
(* that take images beside that of the SPI link, where every image fits in *)
(* the memory.                                                             *)
(***************************************************************************)
EXTENDS SpiComm, TLAPS

\* The driver: a frame is under way only in a capture.
DriverInv == DcmiTypeOK /\ PreparedAgrees /\ (phase # "none" => Active)

\* The threads: who is on the condition variable has called for it.
ThreadInv ==
    /\ pc \in [Threads -> SpiPoints \union ClientPoints]
    /\ pc[spi] \in SpiPoints /\ \A c \in Clients : pc[c] \in ClientPoints
    /\ ptr \in [Threads -> Buffers \union {NULL}] /\ slot \in [Threads -> Buffers \union {NULL}]
    /\ \A c \in Clients : pc[c] \in {"mark", "give"} => slot[c] \in Buffers
    /\ raced \subseteq Threads /\ missed \subseteq Threads
    /\ {spi_suspend_flag, image_transfer_enabled} \subseteq BOOLEAN
    /\ \A t \in waiting : t \in Threads /\ pc[t] \in {"waiting", "getWaiting"}

Inv == DriverInv /\ ThreadInv

LEMMA InvInit == Init => Inv
<1> SUFFICES ASSUME Init PROVE Inv
  OBVIOUS
<1>1. DriverInv
  BY DEF Init, DcmiInit, DriverInv, DcmiTypeOK, PreparedAgrees, Modes, Buffers
<1>2. pc \in [Threads -> SpiPoints \union ClientPoints] /\ spi \in Threads
  BY DEF Init, SpiPoints, ClientPoints, Threads
<1>3. pc[spi] = "top" /\ \A c \in Clients : pc[c] = "idle"
  BY ClientsAssumption DEF Init, Threads
<1>4. ThreadInv
  BY <1>2, <1>3 DEF Init, DcmiInit, ThreadInv, SpiPoints, ClientPoints
<1> QED BY <1>1, <1>4 DEF Inv

-----------------------------------------------------------------------------
(* What a call or an interrupt does to the driver.                         *)
LEMMA PrepareLemma ==
    ASSUME DriverInv, NEW mode \in Modes, Prepare(mode, TRUE)
    PROVE  DriverInv' /\ waiting' = waiting
<1>1. CASE state # IF prepared THEN "ready" ELSE "stop"
  BY <1>1 DEF DriverInv, DcmiTypeOK, PreparedAgrees, Prepare, DcmiPrepare, dma, flags, Active
<1>2. CASE state = IF prepared THEN "ready" ELSE "stop"
  BY <1>2 DEF DriverInv, DcmiTypeOK, PreparedAgrees, Prepare, DcmiPrepare, dma, flags, Active,
              Modes, Buffers
<1> QED BY <1>1, <1>2

LEMMA CallLemma ==
    ASSUME DriverInv, Unprepare \/ CaptureStart \/ CaptureStop \/ Restart(TRUE) \/ ReleaseLastImagePtr
    PROVE  DriverInv' /\ waiting' \subseteq waiting
<1> USE DEF DriverInv, DcmiTypeOK, PreparedAgrees, Active, Modes, Buffers
<1>1. CASE Halt
  BY <1>1 DEF Halt, driver, dma, flags
<1>2. CASE UNCHANGED camera
  BY <1>2 DEF camera, driver, dma, flags
<1>3. CASE Unprepare
  BY <1>1, <1>3 DEF Unprepare, dma, flags
<1>4. CASE CaptureStart
  <2>1. CASE prepared /\ state = "ready"
    BY <1>4, <2>1 DEF CaptureStart, Fills, camera
  <2> QED BY <1>1, <1>2, <1>4, <2>1 DEF CaptureStart
<1>5. CASE CaptureStop
  <2>1. CASE prepared /\ Double /\ state = "stream"
    <3>1. 1 - ct \in {0, 1}
      BY SMT
    <3> QED BY <1>5, <2>1, <3>1 DEF CaptureStop, FrameEndsInStop
  <2> QED BY <1>1, <1>2, <1>5, <2>1 DEF CaptureStop
<1>6. CASE Restart(TRUE)
  BY <1>6 DEF Restart, flags
<1>7. CASE ReleaseLastImagePtr
  BY <1>7 DEF ReleaseLastImagePtr, driver, dma
<1> QED BY <1>3, <1>4, <1>5, <1>6, <1>7

LEMMA InterruptLemma ==
    ASSUME DriverInv, HalfTransfer \/ TransferEnd \/ FrameEnd \/ DcmiError
    PROVE  DriverInv' /\ waiting' \subseteq waiting
<1> USE DEF DriverInv, DcmiTypeOK, PreparedAgrees, Active, Modes, Buffers
<1>1. \A b \in {0, 1} : 1 - b \in {0, 1}
  BY SMT
<1>2. CASE HalfTransfer
  <2>1. NextBuffer \in {0, 1} /\ 1 - ct \in {0, 1}
    BY <1>1 DEF NextBuffer
  <2> QED BY <1>2, <2>1 DEF HalfTransfer, driver
<1>3. CASE TransferEnd
  BY <1>1, <1>3 DEF TransferEnd, driver
<1>4. CASE FrameEnd
  BY <1>4 DEF FrameEnd, Fills
<1>5. CASE DcmiError
  BY <1>5 DEF DcmiError, flags
<1> QED BY <1>2, <1>3, <1>4, <1>5

\* The flags of the buffers alone change, or nothing of the driver does.
LEMMA BusyLemma ==
    ASSUME DriverInv, UNCHANGED <<driver, dma, image_ready, half_transfer_complete, halted>>,
           busy' \subseteq Buffers
    PROVE  DriverInv'
BY DEF DriverInv, DcmiTypeOK, PreparedAgrees, Active, driver, dma

-----------------------------------------------------------------------------
(* What a step does to the threads: one goes on and was not waiting.       *)
LEMMA ThreadLemma ==
    ASSUME ThreadInv, waiting' \subseteq waiting,
           NEW t \in Threads, t \notin waiting,
           NEW to \in IF t = spi THEN SpiPoints ELSE ClientPoints,
           pc' = [pc EXCEPT ![t] = to],
           ptr' \in [Threads -> Buffers \union {NULL}], slot' \in [Threads -> Buffers \union {NULL}],
           \A w \in Threads : w # t => slot'[w] = slot[w],
           to \in {"mark", "give"} => slot'[t] \in Buffers,
           raced' \subseteq Threads, missed' \subseteq Threads,
           {spi_suspend_flag', image_transfer_enabled'} \subseteq BOOLEAN
    PROVE  ThreadInv'
<1>1. \A w \in Threads : pc'[w] = IF w = t THEN to ELSE pc[w]
  BY DEF ThreadInv
<1>2. spi \in Threads /\ Clients \subseteq Threads
  BY DEF Threads
<1>3. pc' \in [Threads -> SpiPoints \union ClientPoints]
  BY DEF ThreadInv
<1>4. pc'[spi] \in SpiPoints /\ \A c \in Clients : pc'[c] \in ClientPoints
  BY <1>1, <1>2, ClientsAssumption DEF ThreadInv
<1>5. \A w \in waiting' : w \in Threads /\ pc'[w] \in {"waiting", "getWaiting"}
  BY <1>1 DEF ThreadInv
<1>6. \A c \in Clients : pc'[c] \in {"mark", "give"} => slot'[c] \in Buffers
  BY <1>1, <1>2 DEF ThreadInv
<1> QED BY <1>3, <1>4, <1>5, <1>6 DEF ThreadInv

\* Only the driver changes.
LEMMA NoThreadLemma ==
    ASSUME ThreadInv, waiting' \subseteq waiting, UNCHANGED <<pc, image, spi_suspend_flag>>,
           image_transfer_enabled' \in BOOLEAN, raced' \subseteq Threads, missed' \subseteq Threads
    PROVE  ThreadInv'
BY DEF ThreadInv, image

\* wait_image_ready.
LEMMA WaitLemma ==
    ASSUME Inv, NEW t \in Threads,
           \/ Wait(t, "wait", "waiting")
           \/ t \in Clients /\ Wait(t, "getWait", "getWaiting")
    PROVE  Inv'
<1>1. PICK to \in {"waiting", "getWaiting"} :
          pc' = [pc EXCEPT ![t] = to] /\ (to = "getWaiting" => t \in Clients)
  BY DEF Wait, Goto
<1>2. /\ waiting' = waiting \union {t}
      /\ UNCHANGED <<driver, dma, flags, halted, image, flow, history>>
  BY DEF Wait
<1>3. DriverInv'
  BY <1>2 DEF Inv, DriverInv, DcmiTypeOK, PreparedAgrees, Active, driver, dma, flags
<1>4. \A w \in Threads : pc'[w] = IF w = t THEN to ELSE pc[w]
  BY <1>1 DEF Inv, ThreadInv
<1>5. spi \in Threads /\ Clients \subseteq Threads
  BY DEF Threads
<1>6. pc' \in [Threads -> SpiPoints \union ClientPoints]
  BY <1>1 DEF Inv, ThreadInv, SpiPoints, ClientPoints
<1>7. pc'[spi] \in SpiPoints /\ \A c \in Clients : pc'[c] \in ClientPoints
  BY <1>1, <1>4, <1>5, ClientsAssumption DEF Inv, ThreadInv, SpiPoints, ClientPoints
<1>8. ThreadInv'
  <2>1. \A c \in Clients : pc'[c] \in {"mark", "give"} => pc[c] = pc'[c]
    BY <1>1, <1>4, <1>5
  <2> QED BY <1>1, <1>2, <1>4, <1>6, <1>7, <2>1 DEF Inv, ThreadInv, image, flow, history
<1> QED BY <1>3, <1>8 DEF Inv

LEMMA SpiLemma ==
    ASSUME Inv, Fits = {TRUE}, SpiThread
    PROVE  Inv'
<1> USE DEF Goto, At, image, flow, history
<1>0. spi \in Threads /\ ptr[spi] \in Buffers \union {NULL}
  BY DEF Threads, Inv, ThreadInv
<1>1. pc[spi] \notin {"waiting", "getWaiting"} => spi \notin waiting
  BY DEF Inv, ThreadInv
<1> DEFINE Moves(to) ==
        /\ waiting' \subseteq waiting /\ spi \notin waiting
        /\ pc' = [pc EXCEPT ![spi] = to]
        /\ ptr' \in [Threads -> Buffers \union {NULL}]
        /\ missed' \subseteq Threads
        /\ UNCHANGED <<slot, spi_suspend_flag, image_transfer_enabled, raced>>
<1>2. ASSUME NEW to \in SpiPoints, Moves(to) PROVE ThreadInv'
  <2>1. to \notin {"mark", "give"}
    BY DEF SpiPoints
  <2> QED BY <1>0, <1>2, <2>1, ThreadLemma DEF Inv, ThreadInv
<1> HIDE DEF Moves
<1>3. CASE SpiTop
  <2>1. UNCHANGED camera
    BY <1>3 DEF SpiTop
  <2>2. PICK to \in {"asleep", "capture", "exchange"} : pc' = [pc EXCEPT ![spi] = to]
    BY <1>3 DEF SpiTop, Transfer
  <2>3. Moves(to)
    BY <1>1, <1>3, <2>2 DEF SpiTop, Moves, camera, Inv, ThreadInv
  <2>4. DriverInv'
    BY <2>1, BusyLemma DEF Inv, DriverInv, DcmiTypeOK, camera, flags
  <2> QED BY <1>2, <2>3, <2>4 DEF Inv, SpiPoints
<1>4. CASE SpiCapture
  <2>1. DriverInv' /\ waiting' \subseteq waiting
    BY <1>4, CallLemma DEF SpiCapture, Inv
  <2>2. Moves("wait")
    BY <1>1, <1>4, <2>1 DEF SpiCapture, Moves, Inv, ThreadInv
  <2> QED BY <1>2, <2>1, <2>2 DEF Inv, SpiPoints
<1>5. CASE Wait(spi, "wait", "waiting")
  BY <1>0, <1>5, WaitLemma
<1>6. CASE SpiWoken
  <2>1. CASE UNCHANGED camera /\ pc' = [pc EXCEPT ![spi] = "exchange"]
    <3>1. DriverInv'
      BY <2>1, BusyLemma DEF Inv, DriverInv, DcmiTypeOK, camera, flags
    <3>2. Moves("exchange")
      BY <1>6, <2>1 DEF SpiWoken, WakesUp, Moves, camera, Inv, ThreadInv
    <3> QED BY <1>2, <3>1, <3>2 DEF Inv, SpiPoints
  <2>2. CASE Restart(TRUE) /\ pc' = [pc EXCEPT ![spi] = "top"]
    <3>1. DriverInv' /\ waiting' \subseteq waiting
      BY <2>2, CallLemma DEF Inv
    <3>2. Moves("top")
      BY <1>6, <2>2, <3>1 DEF SpiWoken, WakesUp, Moves, Inv, ThreadInv
    <3> QED BY <1>2, <3>1, <3>2 DEF Inv, SpiPoints
  <2> QED BY <1>6, <2>1, <2>2 DEF SpiWoken
<1>7. CASE SpiExchanged
  <2>1. PICK to \in {"top", "sleep", "sending"} : pc' = [pc EXCEPT ![spi] = to]
    BY <1>7 DEF SpiExchanged
  <2>2. /\ UNCHANGED <<driver, dma, image_ready, half_transfer_complete, halted, waiting>>
        /\ busy' \subseteq Buffers
        /\ ptr' \in [Threads -> Buffers \union {NULL}]
    <3>1. CASE UNCHANGED <<camera, ptr>>
      BY <3>1 DEF camera, flags, Inv, ThreadInv, DriverInv, DcmiTypeOK
    <3>2. CASE busy' = busy \union {0} /\ ptr' = [ptr EXCEPT ![spi] = 0] /\ UNCHANGED <<driver, dma, image_ready, half_transfer_complete, halted, waiting>>
      BY <1>0, <3>2 DEF Buffers, Inv, ThreadInv, DriverInv, DcmiTypeOK
    <3>3. CASE UNCHANGED <<driver, dma, image_ready, half_transfer_complete, halted, waiting, busy, ptr>>
      BY <3>3 DEF Inv, ThreadInv, DriverInv, DcmiTypeOK
    <3> QED BY <1>7, <3>1, <3>2, <3>3 DEF SpiExchanged
  <2>3. DriverInv'
    BY <2>2, BusyLemma DEF Inv
  <2>4. Moves(to)
    BY <1>1, <1>7, <2>1, <2>2 DEF SpiExchanged, Moves, Inv, ThreadInv
  <2> QED BY <1>2, <2>3, <2>4 DEF Inv, SpiPoints
<1>8. CASE SpiSent
  <2>1. DriverInv' /\ waiting' \subseteq waiting
    BY <1>8, CallLemma DEF SpiSent, Inv
  <2>2. Moves("top")
    BY <1>1, <1>8, <2>1 DEF SpiSent, Moves, Inv, ThreadInv
  <2> QED BY <1>2, <2>1, <2>2 DEF Inv, SpiPoints
<1>9. CASE SpiSlept
  <2>1. DriverInv'
    BY <1>9, BusyLemma DEF SpiSlept, Inv, DriverInv, DcmiTypeOK, camera, flags
  <2>2. Moves("top")
    BY <1>1, <1>9 DEF SpiSlept, Moves, camera, Inv, ThreadInv
  <2> QED BY <1>2, <2>1, <2>2 DEF Inv, SpiPoints
<1> QED BY <1>3, <1>4, <1>5, <1>6, <1>7, <1>8, <1>9 DEF SpiThread

LEMMA ResumeLemma ==
    ASSUME Inv, NEW c \in Clients, Resume(c)
    PROVE  Inv'
<1>1. PICK to \in SpiPoints :
          /\ to # pc[spi] => pc[spi] \in {"asleep", "sleep"}
          /\ pc' = [pc EXCEPT ![c] = "idle", ![spi] = to]
  <2> DEFINE to == IF spi_suspend_flag
                   THEN CASE pc[spi] = "asleep" -> Transfer [] pc[spi] = "sleep" -> "top"
                          [] OTHER -> pc[spi]
                   ELSE pc[spi]
  <2>1. to \in SpiPoints /\ (to # pc[spi] => pc[spi] \in {"asleep", "sleep"})
    BY DEF Inv, ThreadInv, Transfer, SpiPoints
  <2>2. c # spi
    BY ClientsAssumption
  <2>3. pc' = [pc EXCEPT ![c] = "idle", ![spi] = to]
    BY <2>2 DEF Resume, Inv, ThreadInv, Threads
  <2> QED BY <2>1, <2>3
<1>2. c \in Threads /\ spi \in Threads /\ c # spi /\ Clients \subseteq Threads
  BY ClientsAssumption DEF Threads
<1>3. \A w \in Threads : pc'[w] = IF w = spi THEN to ELSE IF w = c THEN "idle" ELSE pc[w]
  BY <1>1, <1>2 DEF Inv, ThreadInv
<1>4. c \notin waiting /\ (to # pc[spi] => spi \notin waiting)
  BY <1>1 DEF Resume, WakesUp, Inv, ThreadInv
<1>5. /\ UNCHANGED <<driver, dma, flags, waiting, ptr, slot, image_transfer_enabled, raced, missed>>
      /\ spi_suspend_flag' = FALSE /\ halted' \in BOOLEAN
  BY DEF Resume, image, history
<1>6. DriverInv'
  BY <1>5 DEF Inv, DriverInv, DcmiTypeOK, PreparedAgrees, Active, driver, dma, flags
<1>7. pc' \in [Threads -> SpiPoints \union ClientPoints]
  BY <1>1 DEF Inv, ThreadInv, ClientPoints
<1>8. pc'[spi] \in SpiPoints /\ \A d \in Clients : pc'[d] \in ClientPoints
  BY <1>2, <1>3, ClientsAssumption DEF Inv, ThreadInv, ClientPoints
<1>9. \A w \in waiting' : w \in Threads /\ pc'[w] \in {"waiting", "getWaiting"}
  BY <1>3, <1>4, <1>5 DEF Inv, ThreadInv
<1>10. ThreadInv'
  <2>1. \A d \in Clients : pc'[d] \in {"mark", "give"} => pc[d] = pc'[d]
    BY <1>2, <1>3, ClientsAssumption
  <2> QED BY <1>5, <1>7, <1>8, <1>9, <2>1 DEF Inv, ThreadInv
<1> QED BY <1>6, <1>10 DEF Inv

LEMMA ClientLemma ==
    ASSUME Inv, Fits = {TRUE}, NEW c \in Clients, Client(c)
    PROVE  Inv'
<1> USE DEF Goto, At, image, flow, history
<1>0. c \in Threads /\ c # spi
  BY ClientsAssumption DEF Threads
<1>1. pc[c] \notin {"waiting", "getWaiting"} => c \notin waiting
  BY DEF Inv, ThreadInv
<1> DEFINE Moves(to) ==
        /\ waiting' \subseteq waiting /\ c \notin waiting
        /\ pc' = [pc EXCEPT ![c] = to]
        /\ ptr' \in [Threads -> Buffers \union {NULL}] /\ slot' \in [Threads -> Buffers \union {NULL}]
        /\ \A w \in Threads : w # c => slot'[w] = slot[w]
        /\ to \in {"mark", "give"} => slot'[c] \in Buffers
        /\ raced' \subseteq Threads /\ missed' \subseteq Threads
        /\ spi_suspend_flag' \in BOOLEAN /\ UNCHANGED image_transfer_enabled
<1>2. ASSUME NEW to \in ClientPoints, Moves(to) PROVE ThreadInv'
  BY <1>0, <1>2, ThreadLemma DEF Inv, ThreadInv
<1> HIDE DEF Moves
<1>3. ASSUME UNCHANGED camera PROVE DriverInv'
  BY <1>3, BusyLemma DEF Inv, DriverInv, DcmiTypeOK, camera, flags
\* the steps that leave the camera alone
<1>4. CASE Suspend(c) \/ Poll(c) \/ Get(c)
  <2>1. /\ UNCHANGED <<camera, ptr, slot, image_transfer_enabled, missed>> /\ pc[c] \in {"idle", "poll"}
        /\ raced' \subseteq raced
    BY <1>4 DEF Suspend, Poll, Get
  <2>2. PICK to \in {"start", "poll", "single", "getWait", "get"} : pc' = [pc EXCEPT ![c] = to]
    BY <1>4 DEF Suspend, Poll, Get
  <2>3. spi_suspend_flag' \in BOOLEAN
    BY <1>4 DEF Suspend, Poll, Get, Inv, ThreadInv
  <2>4. Moves(to)
    BY <1>1, <2>1, <2>2, <2>3 DEF Moves, camera, Inv, ThreadInv
  <2> QED BY <1>2, <1>3, <2>1, <2>4 DEF Inv, ClientPoints
<1>5. CASE Reconfigure(c)
  <2>1. PICK mode \in Modes : Prepare(mode, TRUE) \/ Unprepare \/ CaptureStop
    BY <1>5 DEF Reconfigure, Modes
  <2>2. DriverInv' /\ waiting' \subseteq waiting
    BY <2>1, PrepareLemma, CallLemma DEF Inv
  <2>3. ThreadInv'
    BY <1>5, <2>2, NoThreadLemma DEF Reconfigure, Getting, Starting, threads, Inv, ThreadInv
  <2> QED BY <2>2, <2>3 DEF Inv
<1>6. CASE Use(c)
  <2>1. DriverInv' /\ waiting' \subseteq waiting
    BY <1>3, <1>6, CallLemma DEF Use, camera, Inv
  <2>2. Moves("idle")
    BY <1>1, <1>6, <2>1 DEF Use, Moves, Inv, ThreadInv
  <2> QED BY <1>2, <2>1, <2>2 DEF Inv, ClientPoints
<1>7. CASE ClientCapture(c)
  <2>1. DriverInv' /\ waiting' \subseteq waiting
    BY <1>7, CallLemma DEF ClientCapture, Inv
  <2>2. Moves("wait")
    BY <1>1, <1>7, <2>1 DEF ClientCapture, Moves, Inv, ThreadInv
  <2> QED BY <1>2, <2>1, <2>2 DEF Inv, ClientPoints
<1>8. CASE Wait(c, "wait", "waiting") \/ Wait(c, "getWait", "getWaiting")
  BY <1>0, <1>8, WaitLemma
<1>9. CASE Resume(c)
  BY <1>9, ResumeLemma
<1>10. CASE TakeSingle(c)
  <2>1. DriverInv'
    BY <1>10, BusyLemma DEF TakeSingle, Inv, DriverInv, DcmiTypeOK, Buffers
  <2>2. Moves("using")
    BY <1>1, <1>10 DEF TakeSingle, Moves, Inv, ThreadInv, Buffers
  <2> QED BY <1>2, <2>1, <2>2 DEF Inv, ClientPoints
<1>11. CASE Choose(c)
  <2>1. 1 - ct \in Buffers
    BY SMT DEF Inv, DriverInv, DcmiTypeOK, Buffers
  <2>2. Moves("mark")
    BY <1>0, <1>1, <1>11, <2>1 DEF Choose, WakesUp, Moves, Inv, ThreadInv, camera
  <2> QED BY <1>2, <1>3, <1>11, <2>2 DEF Choose, Inv, ClientPoints
<1>12. ASSUME Mark(c) \/ Give(c) PROVE mem[slot[c]] \in Buffers
  BY <1>12 DEF Mark, Give, Inv, ThreadInv, DriverInv, DcmiTypeOK
<1>13. CASE Mark(c)
  <2>1. DriverInv'
    BY <1>12, <1>13, BusyLemma DEF Mark, Inv, DriverInv, DcmiTypeOK
  <2>2. Moves("give")
    BY <1>1, <1>13 DEF Mark, Moves, Inv, ThreadInv
  <2> QED BY <1>2, <2>1, <2>2 DEF Inv, ClientPoints
<1>14. CASE Give(c)
  <2>1. Moves("using")
    BY <1>1, <1>12, <1>14 DEF Give, Moves, Inv, ThreadInv, camera
  <2> QED BY <1>2, <1>3, <1>14, <2>1 DEF Give, Inv, ClientPoints
<1> QED BY <1>4, <1>5, <1>6, <1>7, <1>8, <1>9, <1>10, <1>11, <1>13, <1>14 DEF Client, ClientGoesOn, Take

LEMMA InvNext ==
    ASSUME Inv, ~Oversize, [Next]_vars
    PROVE  Inv'
<1>0. Fits = {TRUE}
  BY DEF Fits
<1>1. CASE TransferEnable
  <2>1. /\ Prepare("oneshot", TRUE) /\ UNCHANGED <<pc, image, spi_suspend_flag, raced, missed>>
        /\ image_transfer_enabled' = TRUE
    BY <1>0, <1>1 DEF TransferEnable, history
  <2>2. DriverInv' /\ waiting' = waiting
    BY <2>1, PrepareLemma DEF Inv, Modes
  <2> QED BY <2>1, <2>2, NoThreadLemma DEF Inv, ThreadInv
<1>2. CASE SpiThread
  BY <1>0, <1>2, SpiLemma
<1>3. CASE \E c \in Clients : Client(c)
  BY <1>0, <1>3, ClientLemma
<1>4. CASE Interrupt \/ ErrorInterrupt
  <2>1. DriverInv' /\ waiting' \subseteq waiting
    BY <1>4, InterruptLemma DEF Interrupt, ErrorInterrupt, Inv
  <2>2. ThreadInv'
    BY <1>4, <2>1, NoThreadLemma
       DEF Interrupt, ErrorInterrupt, Taking, Getting, Starting, threads, flow, history, Inv, ThreadInv
  <2> QED BY <2>1, <2>2 DEF Inv
<1>5. CASE UNCHANGED vars
  BY <1>5, BusyLemma, NoThreadLemma
     DEF vars, threads, image, flow, history, camera, flags, Inv, DriverInv, DcmiTypeOK, ThreadInv
<1> QED BY <1>1, <1>2, <1>3, <1>4, <1>5 DEF Next

(* Whatever the order of captures, errors, restarts and calls that set the *)
(* camera up, by any number of threads and with interrupts at any point,   *)
(* dcmi_prepared is set exactly while the driver is not stopped, as        *)
(* dcmi_camera.c relies on (dcmi.c:121, 138), if every image fits.         *)
THEOREM CameraTheorem == ASSUME ~Oversize PROVE Spec => []CameraInv
<1>1. Init => Inv
  BY InvInit
<1>2. Inv /\ [Next]_vars => Inv'
  BY InvNext
<1>3. Inv => CameraInv
  BY DEF Inv, DriverInv, ThreadInv, CameraInv, TypeOK
<1> QED BY <1>1, <1>2, <1>3, PTL DEF Spec
-----------------------------------------------------------------------------
(* The image that is given.                                                *)

\* The DMA last left the buffer that get_last_image_ptr returns.
Given == full # NULL => mem[1 - ct] = full

\* A thread that is about to look where the DMA is.
AboutToChoose(t) == pc[t] = "get" \/ (pc[t] = "getWaiting" /\ t \notin waiting)

\* Without double buffering there is one buffer.
SingleInv ==
    /\ ~halted /\ ~Double => mem = [i \in Buffers |-> i] /\ ct = 0 /\ full \in {0, NULL}
    /\ image_transfer_enabled => ~Double

\* With it, half_transfer_complete tells when the memory that is not in use
\* is already that of the next frame; a stop that times out leaves it set.
DoubleInv ==
    /\ phase = "second" => half_transfer_complete
    /\ ~halted /\ Double =>
          /\ phase # "second" /\ state \notin {"error", "timeout"} => Given
          /\ state = "timeout" /\ ~half_transfer_complete => Given

\* What a thread that is not outrun finds as it looks where the DMA is, and
\* once it has looked.
Takeable == Double /\ phase # "second" /\ (state # "error" => Given)
Chosen(t) == Double /\ phase # "second" /\ (state # "error" /\ full # NULL => mem[slot[t]] = full)

Reads(t) ==
    /\ AboutToChoose(t) => Takeable
    /\ pc[t] \in {"mark", "give"} => Chosen(t)
    /\ pc[t] = "single" => ~Double
    /\ pc[t] \in {"getWait", "getWaiting"} => Double

TakeInv == ~halted => \A t \in Threads \ raced : Reads(t)

GivenInv == SingleInv /\ DoubleInv /\ TakeInv

InGet == {"single", "get", "getWait", "getWaiting", "mark", "give"}

LEMMA GivenInit == Init => GivenInv
<1> SUFFICES ASSUME Init PROVE GivenInv
  OBVIOUS
<1>1. \A t \in Threads : pc[t] \in {"top", "idle"}
  BY DEF Init
<1>2. TakeInv
  BY <1>1 DEF TakeInv, Reads, AboutToChoose
<1> QED BY <1>2, NullAssumption DEF Init, DcmiInit, GivenInv, SingleInv, DoubleInv, Given, Double, Buffers

LEMMA OtherMemory == DriverInv => 1 - ct \in Buffers /\ 1 - (1 - ct) = ct /\ 1 - ct # ct
BY SMT DEF DriverInv, DcmiTypeOK, Buffers

\* What a call does.
LEMMA PrepareGiven ==
    ASSUME DriverInv, SingleInv, DoubleInv, NEW mode \in Modes, Prepare(mode, TRUE),
           image_transfer_enabled' => mode = "oneshot"
    PROVE  SingleInv' /\ DoubleInv'
<1> USE DEF Prepare, DcmiPrepare, flags
<1>1. CASE state # IF prepared THEN "ready" ELSE "stop"
  BY <1>1 DEF SingleInv, DoubleInv, Double, dma
<1>2. CASE state = IF prepared THEN "ready" ELSE "stop"
  BY <1>2 DEF SingleInv, DoubleInv, Double, Given
<1> QED BY <1>1, <1>2

LEMMA CallGiven ==
    ASSUME DriverInv, SingleInv, DoubleInv,
           Unprepare \/ CaptureStart \/ CaptureStop \/ Restart(TRUE) \/ ReleaseLastImagePtr,
           UNCHANGED image_transfer_enabled
    PROVE  SingleInv' /\ DoubleInv'
<1> USE DEF SingleInv, DoubleInv, Double
<1>1. CASE Halt
  BY <1>1 DEF Halt, driver, dma, flags
<1>2. CASE UNCHANGED camera
  BY <1>2 DEF camera, driver, dma, flags, Given
<1>3. CASE Unprepare /\ ~Halt
  BY <1>3 DEF Unprepare, dma, flags, Given
<1>4. CASE CaptureStart /\ ~Halt /\ ~(UNCHANGED camera)
  <2>1. /\ state = "ready" /\ state' = capture_mode
        /\ phase' = "first" /\ full' = (IF mem[ct] = full THEN NULL ELSE full)
        /\ UNCHANGED <<capture_mode, mem, ct, half_transfer_complete, halted, waiting>>
    BY <1>4 DEF CaptureStart, Fills
  <2>2. capture_mode \in Modes /\ phase = "none"
    BY <2>1 DEF DriverInv, DcmiTypeOK, Active, Modes
  <2> QED BY <2>1, <2>2 DEF Given, Modes
<1>5. CASE CaptureStop /\ ~Halt /\ ~(UNCHANGED camera)
  <2>1. /\ Double /\ state = "stream" /\ phase' = "none"
        /\ UNCHANGED <<capture_mode, mem, halted>>
    BY <1>5 DEF CaptureStop
  <2>2. CASE state' = "ready" /\ FrameEndsInStop
    BY <2>1, <2>2, OtherMemory DEF FrameEndsInStop, Given
  <2>3. CASE /\ state' = "ready" /\ phase = "first"
             /\ UNCHANGED <<ct, full, half_transfer_complete, image_ready, waiting>>
    BY <2>1, <2>3 DEF Given
  <2>4. CASE state' = "timeout" /\ UNCHANGED <<ct, full, half_transfer_complete, image_ready, waiting>>
    BY <2>1, <2>4 DEF Given
  <2>5. \/ state' = "ready" /\ FrameEndsInStop
        \/ /\ state' = "ready" /\ phase = "first"
           /\ UNCHANGED <<ct, full, half_transfer_complete, image_ready, waiting>>
        \/ state' = "timeout" /\ UNCHANGED <<ct, full, half_transfer_complete, image_ready, waiting>>
    BY <1>5 DEF CaptureStop
  <2> QED BY <2>2, <2>3, <2>4, <2>5
<1>6. CASE Restart(TRUE)
  BY <1>6 DEF Restart, flags, Given
<1>7. CASE ReleaseLastImagePtr
  BY <1>7 DEF ReleaseLastImagePtr, driver, dma, Given
<1> QED BY <1>1, <1>2, <1>3, <1>4, <1>5, <1>6, <1>7

\* What an interrupt does.
LEMMA InterruptGiven ==
    ASSUME DriverInv, SingleInv, DoubleInv, HalfTransfer \/ TransferEnd \/ FrameEnd \/ DcmiError,
           UNCHANGED image_transfer_enabled
    PROVE  SingleInv' /\ DoubleInv'
<1> USE DEF SingleInv, DoubleInv, Double
<1>1. phase # "none" => state \in Modes
  BY DEF DriverInv, Active
<1>2. CASE HalfTransfer
  BY <1>1, <1>2 DEF HalfTransfer, driver, Modes
<1>3. CASE TransferEnd
  <2>1. /\ phase' = "done" /\ ~half_transfer_complete' /\ full' = mem[ct]
        /\ ct' = (IF capture_mode = "stream" THEN 1 - ct ELSE ct)
        /\ state \in Modes /\ UNCHANGED <<state, capture_mode, mem, halted>>
    BY <1>1, <1>3 DEF TransferEnd, driver
  <2> QED BY <2>1, OtherMemory DEF Given, Modes, Buffers
<1>4. CASE FrameEnd
  <2>1. /\ state \in Modes /\ phase = "done"
        /\ UNCHANGED <<capture_mode, mem, ct, half_transfer_complete, halted>>
        /\ \/ phase' = "first" /\ state' = state /\ full' = IF mem[ct] = full THEN NULL ELSE full
           \/ phase' = "none" /\ state' = "ready" /\ full' = full
    BY <1>1, <1>4 DEF FrameEnd, Fills
  <2> QED BY <2>1 DEF Given, Modes
<1>5. CASE DcmiError
  BY <1>5 DEF DcmiError, flags
<1> QED BY <1>2, <1>3, <1>4, <1>5

\* What a thread has read stays true through every call that does not set the
\* camera up, and through every interrupt but that of half a frame.
Undisturbed ==
    /\ ~halted' => ~halted
    /\ capture_mode' = capture_mode
    /\ ~halted' /\ Takeable => Takeable'
    /\ ~halted' => \A t \in Threads : slot'[t] = slot[t] /\ Chosen(t) => Chosen(t)'
    /\ waiting \subseteq waiting' \/ (~halted' /\ Double => Takeable')

LEMMA CallTake ==
    ASSUME DriverInv, CaptureStart \/ Restart(TRUE) \/ ReleaseLastImagePtr
    PROVE  Undisturbed
<1> USE DEF Undisturbed, Takeable, Chosen, Double, Given
<1>1. CASE Halt
  BY <1>1 DEF Halt, driver, dma, flags
<1>2. CASE UNCHANGED camera
  BY <1>2 DEF camera, driver, dma, flags
<1>3. CASE CaptureStart /\ ~Halt /\ ~(UNCHANGED camera)
  <2>1. /\ state = "ready" /\ state' = capture_mode
        /\ phase' = "first" /\ full' = (IF mem[ct] = full THEN NULL ELSE full)
        /\ UNCHANGED <<capture_mode, mem, ct, half_transfer_complete, halted, waiting>>
    BY <1>3 DEF CaptureStart, Fills
  <2> QED BY <2>1
<1>4. CASE Restart(TRUE)
  BY <1>4 DEF Restart, flags
<1>5. CASE ReleaseLastImagePtr
  BY <1>5 DEF ReleaseLastImagePtr, driver, dma
<1> QED BY <1>1, <1>2, <1>3, <1>4, <1>5

LEMMA InterruptTake ==
    ASSUME DriverInv, SingleInv', DoubleInv', TransferEnd \/ FrameEnd \/ DcmiError
    PROVE  Undisturbed
<1> USE DEF Undisturbed, Takeable, Chosen, Double, Given
<1>1. CASE TransferEnd
  BY <1>1 DEF TransferEnd, driver
<1>2. CASE FrameEnd
  <2>1. state \in Modes
    BY <1>2 DEF DriverInv, Active, FrameEnd
  <2>2. /\ UNCHANGED <<capture_mode, mem, ct, half_transfer_complete, halted>> /\ phase = "done"
        /\ \/ phase' = "first" /\ state' = state /\ full' = IF mem[ct] = full THEN NULL ELSE full
           \/ phase' = "none" /\ state' = "ready" /\ full' = full
    BY <1>2 DEF FrameEnd, Fills
  <2> QED BY <2>1, <2>2 DEF DoubleInv, Modes
<1>3. CASE DcmiError
  BY <1>3 DEF DcmiError, flags
<1> QED BY <1>1, <1>2, <1>3

\* The camera changes in nothing that counts here.
LEMMA BusyGiven ==
    ASSUME GivenInv, UNCHANGED <<driver, dma, half_transfer_complete, halted, image_transfer_enabled>>,
           waiting \subseteq waiting'
    PROVE  SingleInv' /\ DoubleInv' /\ Undisturbed
BY DEF GivenInv, SingleInv, DoubleInv, Undisturbed, Takeable, Chosen, Double, Given, driver, dma

\* The threads that do not move, or leave dcmi_get_last_image_ptr.
LEMMA TakeLemma ==
    ASSUME TakeInv, Undisturbed, NEW X, raced \ X \subseteq raced',
           \A t \in Threads \ X : slot'[t] = slot[t] /\ (pc'[t] = pc[t] \/ pc'[t] \notin InGet)
    PROVE  ~halted' => \A t \in (Threads \ raced') \ X : Reads(t)'
<1> SUFFICES ASSUME ~halted', NEW t \in (Threads \ raced') \ X PROVE Reads(t)'
  OBVIOUS
<1>1. Reads(t) /\ slot'[t] = slot[t]
  BY DEF TakeInv, Undisturbed
<1>2. Double' <=> Double
  BY DEF Undisturbed, Double
<1>3. CASE pc'[t] \notin InGet
  BY <1>3 DEF Reads, AboutToChoose, InGet
<1>4. CASE pc'[t] = pc[t]
  <2>1. AboutToChoose(t)' => Takeable'
    <3>1. CASE AboutToChoose(t)
      BY <1>1, <3>1 DEF Undisturbed, Reads
    <3>2. CASE ~AboutToChoose(t) /\ AboutToChoose(t)'
      BY <1>1, <1>4, <3>2 DEF Undisturbed, Reads, AboutToChoose
    <3> QED BY <3>1, <3>2
  <2>2. pc'[t] \in {"mark", "give"} => Chosen(t)'
    BY <1>1, <1>4 DEF Undisturbed, Reads
  <2> QED BY <1>1, <1>2, <1>4, <2>1, <2>2 DEF Reads
<1> QED BY <1>3, <1>4

LEMMA SpiGiven ==
    ASSUME Inv, GivenInv, Fits = {TRUE}, SpiThread
    PROVE  GivenInv'
<1>0. spi \in Threads
  BY DEF Threads
<1> DEFINE Same == /\ UNCHANGED <<driver, dma, half_transfer_complete, halted, image_transfer_enabled>>
                   /\ waiting \subseteq waiting'
           Calls == /\ CaptureStart \/ Restart(TRUE) \/ ReleaseLastImagePtr
                    /\ UNCHANGED image_transfer_enabled
<1>1. ASSUME NEW from, NEW to, to \notin InGet, Goto(spi, from, to), Same \/ Calls,
             UNCHANGED <<slot, raced>>
      PROVE  GivenInv'
  <2>1. SingleInv' /\ DoubleInv' /\ Undisturbed
    BY <1>1, BusyGiven, CallGiven, CallTake DEF Inv, GivenInv
  <2>2. \A t \in Threads : pc'[t] = pc[t] \/ pc'[t] \notin InGet
    BY <1>0, <1>1 DEF Goto, Inv, ThreadInv
  <2>3. ~halted' => \A t \in (Threads \ raced') \ {} : Reads(t)'
    BY <1>1, <2>1, <2>2, TakeLemma DEF GivenInv
  <2> QED BY <2>1, <2>3 DEF GivenInv, TakeInv
<1> USE DEF InGet, image, flow, history
<1>2. CASE SpiTop
  BY <1>1, <1>2 DEF SpiTop, Transfer, camera, flags
<1>3. CASE SpiCapture
  BY <1>1, <1>3 DEF SpiCapture
<1>4. CASE Wait(spi, "wait", "waiting")
  BY <1>1, <1>4 DEF Wait, flags
<1>5. CASE SpiWoken
  BY <1>1, <1>5 DEF SpiWoken, camera, flags
<1>6. CASE SpiExchanged
  BY <1>1, <1>6 DEF SpiExchanged, camera, flags
<1>7. CASE SpiSent
  BY <1>1, <1>7 DEF SpiSent
<1>8. CASE SpiSlept
  BY <1>1, <1>8 DEF SpiSlept, camera, flags
<1> QED BY <1>2, <1>3, <1>4, <1>5, <1>6, <1>7, <1>8 DEF SpiThread

LEMMA ClientGiven ==
    ASSUME Inv, GivenInv, Fits = {TRUE}, NEW c \in Clients, Client(c)
    PROVE  GivenInv'
<1>0. c \in Threads /\ pc \in [Threads -> SpiPoints \union ClientPoints]
      /\ slot \in [Threads -> Buffers \union {NULL}]
  BY DEF Threads, Inv, ThreadInv
<1> DEFINE Same == /\ UNCHANGED <<driver, dma, half_transfer_complete, halted, image_transfer_enabled>>
                   /\ waiting \subseteq waiting'
           Calls == /\ CaptureStart \/ ReleaseLastImagePtr
                    /\ UNCHANGED image_transfer_enabled
\* the step ends outside of dcmi_get_last_image_ptr, or the thread is seen to
<1>1. ASSUME NEW to, pc' = [pc EXCEPT ![c] = to], Same \/ Calls,
             raced \ {c} \subseteq raced', \A t \in Threads \ {c} : slot'[t] = slot[t],
             \/ to \notin InGet
             \/ SingleInv' /\ DoubleInv' /\ Undisturbed /\ ~halted' /\ c \notin raced' => Reads(c)'
      PROVE  GivenInv'
  <2>1. SingleInv' /\ DoubleInv' /\ Undisturbed
    BY <1>1, BusyGiven, CallGiven, CallTake DEF Inv, GivenInv
  <2>2. \A t \in Threads \ {c} : pc'[t] = pc[t]
    BY <1>0, <1>1
  <2>3. ~halted' => \A t \in (Threads \ raced') \ {c} : Reads(t)'
    BY <1>1, <2>1, <2>2, TakeLemma DEF GivenInv
  <2>4. to \notin InGet => Reads(c)'
    BY <1>0, <1>1 DEF Reads, AboutToChoose, InGet
  <2> QED BY <1>1, <2>1, <2>3, <2>4 DEF GivenInv, TakeInv
<1> USE DEF InGet, image, flow, history, Goto, At
<1>2. CASE Suspend(c)
  BY <1>1, <1>2 DEF Suspend, camera, flags
<1>3. CASE Poll(c)
  BY <1>1, <1>3 DEF Poll, camera, flags
<1>4. CASE ClientCapture(c)
  BY <1>1, <1>4 DEF ClientCapture
<1>5. CASE Use(c)
  BY <1>1, <1>5 DEF Use, camera, flags
<1>6. CASE Wait(c, "wait", "waiting")
  BY <1>1, <1>6 DEF Wait, flags
<1>7. CASE Wait(c, "getWait", "getWaiting")
  <2>1. ~halted' /\ c \notin raced' => Reads(c)'
    <3>1. ~halted /\ c \notin raced => Double
      BY <1>0, <1>7 DEF Wait, GivenInv, TakeInv, Reads
    <3> QED BY <1>0, <1>7, <3>1 DEF Wait, Reads, AboutToChoose, Double, driver
  <2> QED BY <1>1, <1>7, <2>1 DEF Wait, flags
<1>8. CASE Resume(c)
  <2>1. /\ UNCHANGED <<driver, dma, flags, waiting, slot, raced, image_transfer_enabled>>
        /\ ~halted' => ~halted
    BY <1>8 DEF Resume, WakesUp
  <2>2. SingleInv' /\ DoubleInv' /\ Undisturbed
    BY <2>1 DEF GivenInv, SingleInv, DoubleInv, Undisturbed, Takeable, Chosen, Double, Given, driver, dma, flags
  <2>3. \A t \in Threads : pc'[t] = pc[t] \/ pc'[t] \notin InGet
    BY <1>0, <1>8 DEF Resume, Transfer
  <2>4. ~halted' => \A t \in (Threads \ raced') \ {} : Reads(t)'
    BY <2>1, <2>2, <2>3, TakeLemma DEF GivenInv
  <2> QED BY <2>2, <2>4 DEF GivenInv, TakeInv
<1>9. CASE TakeSingle(c)
  BY <1>1, <1>9 DEF TakeSingle
<1>10. CASE Choose(c)
  <2>1. ~halted /\ AboutToChoose(c) /\ c \in Threads
    BY <1>0, <1>10 DEF Choose, WakesUp, AboutToChoose
  <2>2. ~halted' /\ c \notin raced' => Reads(c)'
    <3>1. c \notin raced => Takeable
      BY <1>0, <2>1 DEF GivenInv, TakeInv, Reads
    <3>2. pc'[c] = "mark" /\ slot'[c] = 1 - ct /\ UNCHANGED <<camera, raced>>
      BY <1>0, <1>10 DEF Choose
    <3> QED BY <3>1, <3>2 DEF Reads, AboutToChoose, Takeable, Given, Chosen, Double, camera, driver, dma
  <2> QED BY <1>0, <1>1, <1>10, <2>2 DEF Choose, camera, flags
<1>11. CASE Mark(c)
  <2>1. ~halted' /\ c \notin raced' => Reads(c)'
    <3>1. ~halted /\ c \notin raced => Chosen(c)
      BY <1>0, <1>11 DEF Mark, GivenInv, TakeInv, Reads
    <3>2. pc'[c] = "give" /\ UNCHANGED <<driver, dma, halted, slot, raced>>
      BY <1>0, <1>11 DEF Mark
    <3> QED BY <3>1, <3>2 DEF Reads, AboutToChoose, Chosen, Double, driver, dma
  <2> QED BY <1>1, <1>11, <2>1 DEF Mark
<1>12. CASE Give(c)
  BY <1>0, <1>1, <1>12 DEF Give, camera, flags
<1>13. CASE Reconfigure(c)
  <2>1. /\ \/ \E mode \in Modes : Prepare(mode, TRUE)
           \/ Unprepare \/ CaptureStop
        /\ UNCHANGED <<pc, image_transfer_enabled>> /\ ~image_transfer_enabled
        /\ ~halted /\ raced' = raced \union Getting
    BY <1>13 DEF Reconfigure, threads
  <2>2. SingleInv' /\ DoubleInv'
    BY <2>1, PrepareGiven, CallGiven DEF Inv, GivenInv
  <2>3. \A t \in Threads \ raced' : Reads(t)'
    BY <2>1 DEF Getting, Reads, AboutToChoose
  <2> QED BY <2>2, <2>3 DEF GivenInv, TakeInv
<1>14. CASE Get(c)
  <2>1. ~halted' /\ c \notin raced' => Reads(c)'
    <3>0. UNCHANGED <<driver, dma, half_transfer_complete>> /\ ~halted
      BY <1>14 DEF Get, camera, flags
    <3>1. CASE ~Double
      <4>1. pc'[c] = "single"
        BY <1>0, <1>14, <3>1 DEF Get
      <4> QED BY <3>0, <3>1, <4>1 DEF Reads, AboutToChoose, Double, driver
    <3>2. CASE Double /\ half_transfer_complete
      <4>1. pc'[c] = "getWait"
        BY <1>0, <1>14, <3>2 DEF Get
      <4> QED BY <3>0, <3>2, <4>1 DEF Reads, AboutToChoose, Double, driver
    <3>3. CASE Double /\ ~half_transfer_complete
      <4>1. pc'[c] = "get"
        BY <1>0, <1>14, <3>3 DEF Get
      <4>2. Takeable
        BY <3>0, <3>3 DEF GivenInv, DoubleInv, Takeable
      <4> QED BY <3>0, <3>3, <4>1, <4>2 DEF Reads, AboutToChoose, Takeable, Given, Double, driver, dma
    <3> QED BY <3>1, <3>2, <3>3
  <2> QED BY <1>1, <1>14, <2>1 DEF Get, camera, flags
<1> QED BY <1>2, <1>3, <1>4, <1>5, <1>6, <1>7, <1>8, <1>9, <1>10, <1>11, <1>12, <1>13, <1>14
        DEF Client, ClientGoesOn, Take

LEMMA GivenNext ==
    ASSUME Inv, GivenInv, ~Oversize, [Next]_vars
    PROVE  GivenInv'
<1>0. Fits = {TRUE}
  BY DEF Fits
<1> USE DEF threads, image, flow, history
<1>1. CASE TransferEnable
  <2>1. /\ Prepare("oneshot", TRUE) /\ UNCHANGED <<pc, slot, raced>>
        /\ \A c \in Clients : pc[c] = "idle"
    BY <1>0, <1>1 DEF TransferEnable, At
  <2>2. SingleInv' /\ DoubleInv'
    BY <2>1, PrepareGiven DEF Inv, GivenInv, Modes
  <2>3. \A t \in Threads : pc'[t] \notin InGet
    BY <2>1 DEF Inv, ThreadInv, Threads, SpiPoints, InGet
  <2>4. TakeInv'
    BY <2>3 DEF TakeInv, Reads, AboutToChoose, InGet
  <2> QED BY <2>2, <2>4 DEF GivenInv
<1>2. CASE SpiThread
  BY <1>0, <1>2, SpiGiven
<1>3. CASE \E c \in Clients : Client(c)
  BY <1>0, <1>3, ClientGiven
<1>4. CASE Interrupt \/ ErrorInterrupt
  <2>1. ~halted /\ UNCHANGED <<pc, slot, image_transfer_enabled>> /\ raced \subseteq raced'
    BY <1>4 DEF Interrupt, ErrorInterrupt
  <2>2. SingleInv' /\ DoubleInv'
    BY <1>4, <2>1, InterruptGiven DEF Interrupt, ErrorInterrupt, Inv, GivenInv
  <2>3. CASE HalfTransfer /\ raced' = raced \union Taking
    <3>1. UNCHANGED <<capture_mode, waiting, halted>>
      BY <2>3 DEF HalfTransfer, driver
    <3>2. ASSUME NEW t \in Threads \ raced' PROVE Reads(t)'
      <4>1. Reads(t) /\ pc'[t] = pc[t]
        BY <2>1, <2>3, <3>2 DEF GivenInv, TakeInv
      <4>2. pc[t] \notin {"get", "mark", "give"} /\ (pc[t] = "getWaiting" => t \in waiting)
        <5>1. pc[t] \in {"get", "mark", "give"} => t \notin waiting
          BY DEF Inv, ThreadInv
        <5> QED BY <2>3, <3>2, <5>1 DEF Taking, Getting
      <4> QED BY <3>1, <4>1, <4>2 DEF Reads, AboutToChoose, Double
    <3> QED BY <2>2, <3>2 DEF GivenInv, TakeInv
  <2>4. CASE TransferEnd \/ FrameEnd \/ DcmiError
    <3>1. Undisturbed
      BY <2>2, <2>4, InterruptTake DEF Inv
    <3>2. ~halted' => \A t \in (Threads \ raced') \ {} : Reads(t)'
      BY <2>1, <3>1, TakeLemma DEF GivenInv
    <3> QED BY <2>2, <3>2 DEF GivenInv, TakeInv
  <2> QED BY <1>4, <2>3, <2>4 DEF Interrupt, ErrorInterrupt
<1>5. CASE UNCHANGED vars
  <2>1. SingleInv' /\ DoubleInv' /\ Undisturbed /\ UNCHANGED <<pc, slot, raced>>
    BY <1>5, BusyGiven DEF vars, camera, flags
  <2>2. ~halted' => \A t \in (Threads \ raced') \ {} : Reads(t)'
    BY <2>1, TakeLemma DEF GivenInv
  <2> QED BY <2>1, <2>2 DEF GivenInv, TakeInv
<1> QED BY <1>1, <1>2, <1>3, <1>4, <1>5 DEF Next

LEMMA GivenStep ==
    ASSUME Inv, GivenInv, [Next]_vars, NEW t \in Threads \ raced,
           ptr[t] = NULL, ptr'[t] # NULL, full # NULL, state # "error"
    PROVE  ptr'[t] = full
<1> USE DEF threads, image, flow, history, camera, Goto, At
<1>1. ptr \in [Threads -> Buffers \union {NULL}] /\ Clients \subseteq Threads
  BY DEF Inv, ThreadInv, Threads
<1>2. CASE SpiExchanged
  <2>1. image_transfer_enabled /\ ~halted /\ ptr' = [ptr EXCEPT ![spi] = 0]
    BY <1>2 DEF SpiExchanged
  <2>2. full = 0
    BY <2>1 DEF GivenInv, SingleInv
  <2> QED BY <1>1, <2>1, <2>2
<1>3. ASSUME NEW c \in Clients, Give(c) PROVE ptr'[t] = full
  <2>1. ~halted /\ pc[c] = "give" /\ ptr' = [ptr EXCEPT ![c] = mem[slot[c]]]
    BY <1>3 DEF Give
  <2>2. c = t
    BY <1>1, <2>1
  <2>3. mem[slot[c]] = full
    BY <2>1, <2>2 DEF GivenInv, TakeInv, Reads, Chosen
  <2> QED BY <1>1, <2>1, <2>2, <2>3
<1>4. ASSUME NEW c \in Clients, TakeSingle(c) PROVE ptr'[t] = full
  <2>1. ~halted /\ pc[c] = "single" /\ ptr' = [ptr EXCEPT ![c] = 0]
    BY <1>4 DEF TakeSingle
  <2>2. c = t
    BY <1>1, <2>1
  <2>3. full = 0
    BY <2>1, <2>2 DEF GivenInv, TakeInv, Reads, SingleInv
  <2> QED BY <1>1, <2>1, <2>2, <2>3
<1>5. ASSUME NEW w \in Threads, ptr' = [ptr EXCEPT ![w] = NULL] PROVE ptr'[t] = full
  BY <1>1, <1>5
<1>6. CASE SpiSent
  BY <1>5, <1>6 DEF SpiSent, Threads
<1>7. ASSUME NEW c \in Clients, Use(c) PROVE ptr'[t] = full
  BY <1>1, <1>5, <1>7 DEF Use
<1>8. SpiExchanged \/ SpiSent \/ (\E c \in Clients : Give(c) \/ TakeSingle(c) \/ Use(c)) \/ UNCHANGED ptr
  BY DEF Next, TransferEnable, SpiThread, SpiTop, SpiCapture, Wait, SpiWoken, SpiSlept, Client,
         ClientGoesOn, Suspend, Poll, ClientCapture, Resume, Take, Choose, Mark, Reconfigure, Get,
         Interrupt, ErrorInterrupt, vars
<1> QED BY <1>2, <1>3, <1>4, <1>6, <1>7, <1>8

(* dcmi_camera.c, dcmi_get_last_image_ptr: a thread is given the last image *)
(* that is whole, by any number of threads that take images and capture, in *)
(* any order, with interrupts and errors at any point.  It rests on         *)
(* half_transfer_complete, which is set whenever the memory that is not in  *)
(* use is that of the next frame; what a thread has read goes stale only    *)
(* where the next half frame, or a thread that sets the camera up, comes    *)
(* before the address is returned.                                          *)
THEOREM GivenTheorem == ASSUME ~Oversize PROVE Spec => GivenIsLast
<1>1. Init => Inv /\ GivenInv
  BY InvInit, GivenInit
<1>2. Inv /\ GivenInv /\ [Next]_vars => (Inv /\ GivenInv)'
  BY InvNext, GivenNext
<1>3. Inv /\ GivenInv /\ [Next]_vars =>
         [\A t \in Threads \ raced :
             ptr[t] = NULL /\ ptr'[t] # NULL /\ full # NULL /\ state # "error" => ptr'[t] = full]_vars
  BY GivenStep
<1> QED BY <1>1, <1>2, <1>3, PTL DEF Spec, GivenIsLast
-----------------------------------------------------------------------------
(* Threads that take turns.                                                *)

\* dcmi_camera.c has no lock: a thread begins a call only when no other one
\* is in the middle of its own.
Alone ==
    \A c, d \in Clients :
        c # d /\ pc[c] # "idle" => ~Suspend(d) /\ ~Reconfigure(d) /\ ~Get(d)

Capturing(c) == pc[c] \in {"start", "wait", "waiting"}
Waits(t) == pc[t] = "wait" \/ (pc[t] = "waiting" /\ t \in waiting)

\* The flag is that of the one thread that has suspended the link, and the
\* link does not get to its capture while that thread is in its own.
TurnInv ==
    /\ \A c, d \in Clients : pc[c] # "idle" /\ pc[d] # "idle" => c = d
    /\ spi_suspend_flag <=> \E c \in Clients : Capturing(c) \/ pc[c] = "poll"
    /\ pc[spi] \in {"capture", "wait", "waiting", "sending"} => image_transfer_enabled
    /\ pc[spi] \in {"capture", "wait", "waiting"} => \A c \in Clients : ~Capturing(c)

\* A single shot has one thread that waits for it.
ShotInv ==
    state = "oneshot" => ~halted /\ (Waits(spi) \/ \E c \in Clients : Waits(c))

\* A thread that has an image, or is about to get one, is the only one to
\* have marked its buffer, unless it was outrun.
Holds(c) ==
    /\ ptr[c] # NULL => pc[c] = "using"
    /\ c \notin raced /\ ~image_transfer_enabled =>
          /\ pc[c] = "using" =>
                /\ ptr[c] \in Buffers
                /\ ~halted /\ Double => busy = {ptr[c]} /\ (phase = "second" => mem[1 - ct] # ptr[c])
          /\ ~halted /\ Double =>
                /\ pc[c] \in {"get", "getWait", "getWaiting", "mark"} => busy = {}
                /\ pc[c] = "give" => busy = {mem[slot[c]]}

HoldInv == \A c \in Clients : Holds(c)

LEMMA TurnInit == Init => TurnInv /\ ShotInv /\ HoldInv
<1> SUFFICES ASSUME Init PROVE TurnInv /\ ShotInv /\ HoldInv
  OBVIOUS
<1>1. pc[spi] = "top" /\ \A c \in Clients : pc[c] = "idle" /\ ptr[c] = NULL
  BY ClientsAssumption DEF Init, Threads
<1> QED BY <1>1 DEF Init, DcmiInit, TurnInv, ShotInv, HoldInv, Holds, Capturing

\* The clients do not notice where the thread of the link goes.
LEMMA SpiTurn ==
    ASSUME Inv, TurnInv, SpiThread
    PROVE  TurnInv'
<1> USE DEF Goto, At, Transfer, flow
<1>1. UNCHANGED <<spi_suspend_flag, image_transfer_enabled>>
  BY DEF SpiThread, SpiTop, SpiCapture, Wait, SpiWoken, SpiExchanged, SpiSent, SpiSlept
<1>2. PICK to \in SpiPoints :
          /\ pc' = [pc EXCEPT ![spi] = to]
          /\ to \in {"wait", "waiting"} => pc[spi] \in {"capture", "wait"}
          /\ to = "capture" => ~spi_suspend_flag /\ image_transfer_enabled
          /\ to = "sending" => image_transfer_enabled
  BY DEF SpiThread, SpiTop, SpiCapture, Wait, SpiWoken, SpiExchanged, SpiSent, SpiSlept, SpiPoints
<1>3. pc'[spi] = to /\ \A c \in Clients : pc'[c] = pc[c]
  BY <1>2, ClientsAssumption DEF Inv, ThreadInv, Threads
<1>4. \A c \in Clients : Capturing(c)' <=> Capturing(c)
  BY <1>3 DEF Capturing
<1>5. to \in {"capture", "wait", "waiting", "sending"} => image_transfer_enabled
  BY <1>2 DEF TurnInv
<1>6. to \in {"capture", "wait", "waiting"} => \A c \in Clients : ~Capturing(c)
  BY <1>2 DEF TurnInv
<1> QED BY <1>1, <1>3, <1>4, <1>5, <1>6 DEF TurnInv

\* A client goes on, and the thread of the link stays where it is.
LEMMA ClientTurn ==
    ASSUME Inv, TurnInv, Alone, NEW c \in Clients, Client(c)
    PROVE  TurnInv'
<1> USE DEF Goto, At, flow
<1>0. /\ c \in Threads /\ spi \in Threads /\ c # spi /\ Clients \subseteq Threads
      /\ UNCHANGED image_transfer_enabled
  BY ClientsAssumption
     DEF Threads, Client, ClientGoesOn, Suspend, Poll, ClientCapture, Wait, Resume, Take, TakeSingle, Choose,
         Mark, Give, Reconfigure, Get, Use, threads
<1>1. ASSUME NEW to, pc' = [pc EXCEPT ![c] = to], \A d \in Clients : d # c => pc[d] = "idle",
             spi_suspend_flag' <=> to \in {"poll", "start", "wait", "waiting"},
             to \in {"start", "wait", "waiting"} => Capturing(c) \/ pc[spi] \in {"asleep", "exchange", "sending"}
      PROVE  TurnInv'
  <2>1. pc'[spi] = pc[spi] /\ pc'[c] = to /\ \A d \in Clients : d # c => pc'[d] = "idle"
    BY <1>0, <1>1 DEF Inv, ThreadInv
  <2>2. \A d \in Clients : Capturing(d)' => d = c /\ to \in {"start", "wait", "waiting"}
    BY <2>1 DEF Capturing
  <2>3. Capturing(c)' <=> to \in {"start", "wait", "waiting"}
    BY <2>1 DEF Capturing
  <2> QED BY <1>0, <1>1, <2>1, <2>2, <2>3 DEF TurnInv
<1>2. ASSUME Suspend(c) \/ Get(c) PROVE \A d \in Clients : d # c => pc[d] = "idle"
  BY <1>2 DEF Alone
<1>3. pc[c] # "idle" => \A d \in Clients : d # c => pc[d] = "idle"
  BY DEF TurnInv
<1>4. CASE Suspend(c)
  <2>1. ~spi_suspend_flag
    BY <1>2, <1>4 DEF Suspend, TurnInv, Capturing
  <2> QED BY <1>1, <1>2, <1>4, <2>1 DEF Suspend
<1>5. pc[c] = "poll" \/ Capturing(c) => spi_suspend_flag
  BY DEF TurnInv
<1>6. pc[c] # "idle" /\ pc[c] # "poll" /\ ~Capturing(c) => ~spi_suspend_flag
  BY <1>3 DEF TurnInv, Capturing
<1>7. CASE Poll(c)
  BY <1>1, <1>3, <1>5, <1>7 DEF Poll, Suspended
<1>8. CASE ClientCapture(c) \/ Wait(c, "wait", "waiting")
  BY <1>1, <1>3, <1>5, <1>8 DEF ClientCapture, Wait, Capturing
<1>9. CASE Wait(c, "getWait", "getWaiting") \/ Use(c)
  BY <1>1, <1>3, <1>6, <1>9 DEF Wait, Use, Capturing
<1>10. CASE Take(c)
  BY <1>1, <1>3, <1>6, <1>10 DEF Take, TakeSingle, Choose, Mark, Give, WakesUp, Capturing
<1>11. CASE Get(c)
  <2>1. ~spi_suspend_flag
    BY <1>2, <1>11 DEF Get, TurnInv, Capturing
  <2> QED BY <1>1, <1>2, <1>11, <2>1 DEF Get
<1>12. CASE Resume(c)
  <2>1. pc[c] = "waiting" /\ spi_suspend_flag' = FALSE
    BY <1>12 DEF Resume, WakesUp
  <2>2. \A d \in Clients : pc'[d] = "idle"
    BY <1>0, <1>3, <1>12, <2>1 DEF Resume, Inv, ThreadInv
  <2>3. pc'[spi] \in {"capture", "wait", "waiting", "sending"} =>
            pc[spi] \in {"capture", "wait", "waiting", "sending"} \/ image_transfer_enabled
    BY <1>0, <1>12 DEF Resume, Inv, ThreadInv, Transfer
  <2> QED BY <1>0, <2>1, <2>2, <2>3 DEF TurnInv, Capturing
<1>13. CASE Reconfigure(c)
  BY <1>13 DEF Reconfigure, threads, TurnInv, Capturing
<1> QED BY <1>4, <1>7, <1>8, <1>9, <1>10, <1>11, <1>12, <1>13 DEF Client, ClientGoesOn

LEMMA TurnNext ==
    ASSUME Inv, TurnInv, [Next]_vars, [Alone]_vars
    PROVE  TurnInv'
<1>1. CASE UNCHANGED <<pc, spi_suspend_flag, image_transfer_enabled>>
  BY <1>1 DEF TurnInv, Capturing
<1>2. CASE UNCHANGED vars
  BY <1>1, <1>2 DEF vars, threads, flow
<1>3. CASE TransferEnable
  BY <1>3 DEF TransferEnable, TurnInv, Capturing
<1>4. CASE Interrupt \/ ErrorInterrupt
  BY <1>1, <1>4 DEF Interrupt, ErrorInterrupt, threads, flow
<1> QED BY <1>2, <1>3, <1>4, SpiTurn, ClientTurn DEF Next
-----------------------------------------------------------------------------
(* The single shot.                                                        *)

\* The thread that waits for the shot goes on waiting.
LEMMA KeepsWaiting ==
    ASSUME ShotInv, state' = "oneshot" => state = "oneshot", ~halted => ~halted', waiting \subseteq waiting',
           \A t \in Threads : Waits(t) => pc'[t] = pc[t]
    PROVE  ShotInv'
<1> SUFFICES ASSUME state' = "oneshot"
             PROVE  ~halted' /\ (Waits(spi)' \/ \E c \in Clients : Waits(c)')
  BY DEF ShotInv
<1>1. spi \in Threads /\ Clients \subseteq Threads
  BY DEF Threads
<1>2. \A t \in Threads : Waits(t) => Waits(t)'
  BY DEF Waits
<1>3. ~halted /\ (Waits(spi) \/ \E c \in Clients : Waits(c))
  BY DEF ShotInv
<1> QED BY <1>1, <1>2, <1>3

\* A thread captures where no shot is under way.
LEMMA StartsWaiting ==
    ASSUME Inv, NEW t \in Threads, Goto(t, "start", "wait") \/ Goto(t, "capture", "wait"),
           state # "oneshot", CaptureStart
    PROVE  ShotInv'
<1>1. pc'[t] = "wait" /\ ~halted
  BY DEF Goto, At, Inv, ThreadInv
<1>2. state' = "oneshot" => halted' = halted
  BY DEF CaptureStart, Halt, camera, driver
<1> QED BY <1>1, <1>2 DEF ShotInv, Waits, Threads

LEMMA SpiShot ==
    ASSUME Inv, TurnInv, ShotInv, Fits = {TRUE}, SpiThread
    PROVE  ShotInv'
<1> USE DEF Goto, At
<1>0. /\ spi \in Threads /\ pc \in [Threads -> SpiPoints \union ClientPoints]
      /\ pc[spi] \in {"capture", "wait", "waiting"} => \A c \in Clients : ~Waits(c)
  BY DEF Threads, Inv, ThreadInv, TurnInv, Waits, Capturing
<1>1. ASSUME NEW to, pc' = [pc EXCEPT ![spi] = to], ~Waits(spi), UNCHANGED <<state, halted, waiting>>
      PROVE  ShotInv'
  BY <1>0, <1>1, KeepsWaiting
<1>2. CASE SpiTop \/ SpiExchanged \/ SpiSent \/ SpiSlept
  <2>1. ~Waits(spi)
    BY <1>2 DEF SpiTop, SpiExchanged, SpiSent, SpiSlept, Waits
  <2>2. PICK to : pc' = [pc EXCEPT ![spi] = to] /\ UNCHANGED <<state, halted, waiting>>
    BY <1>2 DEF SpiTop, SpiExchanged, SpiSent, SpiSlept, ReleaseLastImagePtr, camera, driver
  <2> QED BY <1>1, <2>1, <2>2
<1>3. CASE SpiCapture
  <2>1. state # "oneshot"
    BY <1>0, <1>3 DEF SpiCapture, ShotInv, Waits
  <2> QED BY <1>0, <1>3, <2>1, StartsWaiting DEF SpiCapture
<1>4. CASE Wait(spi, "wait", "waiting")
  <2>1. ~halted /\ halted' = halted /\ pc'[spi] = "waiting" /\ spi \in waiting'
    BY <1>0, <1>4 DEF Wait
  <2> QED BY <2>1 DEF ShotInv, Waits
<1>5. CASE SpiWoken
  <2>1. state # "oneshot"
    BY <1>0, <1>5 DEF SpiWoken, WakesUp, ShotInv, Waits
  <2>2. state' \in {state, "ready"}
    BY <1>5 DEF SpiWoken, Restart, camera, driver
  <2> QED BY <2>1, <2>2 DEF ShotInv
<1> QED BY <1>2, <1>3, <1>4, <1>5 DEF SpiThread

LEMMA ClientShot ==
    ASSUME Inv, TurnInv, ShotInv, Alone, Fits = {TRUE}, NEW c \in Clients, Client(c)
    PROVE  ShotInv'
<1> USE DEF Goto, At
<1>0. /\ c \in Threads /\ pc \in [Threads -> SpiPoints \union ClientPoints]
      /\ \A d \in Clients : Waits(d) => Capturing(d) /\ pc[d] # "idle"
      /\ Waits(spi) => image_transfer_enabled /\ ~Capturing(c)
  BY DEF Threads, Inv, ThreadInv, TurnInv, Waits, Capturing
<1>1. ASSUME NEW to, pc' = [pc EXCEPT ![c] = to], ~Waits(c), UNCHANGED <<state, halted>>,
             waiting \subseteq waiting'
      PROVE  ShotInv'
  BY <1>0, <1>1, KeepsWaiting
<1>2. CASE Suspend(c) \/ Poll(c) \/ Get(c) \/ Use(c) \/ Wait(c, "getWait", "getWaiting")
  <2>1. ~Waits(c)
    BY <1>2 DEF Suspend, Poll, Get, Use, Wait, Waits
  <2>2. PICK to : pc' = [pc EXCEPT ![c] = to] /\ UNCHANGED <<state, halted>> /\ waiting \subseteq waiting'
    BY <1>2 DEF Suspend, Poll, Get, Use, Wait, ReleaseLastImagePtr, camera, driver
  <2> QED BY <1>1, <2>1, <2>2
<1>3. CASE Take(c)
  <2>1. ~Waits(c)
    BY <1>3 DEF Take, TakeSingle, Choose, Mark, Give, WakesUp, Waits
  <2>2. PICK to : pc' = [pc EXCEPT ![c] = to] /\ UNCHANGED <<state, halted, waiting>>
    BY <1>3 DEF Take, TakeSingle, Choose, Mark, Give, camera, driver
  <2> QED BY <1>1, <2>1, <2>2
<1>4. CASE ClientCapture(c)
  <2>1. Capturing(c) /\ ~Waits(c) /\ \A d \in Clients : d # c => ~Waits(d)
    BY <1>0, <1>4 DEF ClientCapture, Capturing, Waits, TurnInv
  <2>2. state # "oneshot"
    BY <1>0, <2>1 DEF ShotInv
  <2> QED BY <1>0, <1>4, <2>2, StartsWaiting DEF ClientCapture
<1>5. CASE Wait(c, "wait", "waiting")
  <2>1. ~halted /\ halted' = halted /\ pc'[c] = "waiting" /\ c \in waiting'
    BY <1>0, <1>5 DEF Wait
  <2> QED BY <2>1 DEF ShotInv, Waits
<1>6. CASE Resume(c)
  <2>1. Capturing(c) /\ ~Waits(c) /\ \A d \in Clients : d # c => ~Waits(d)
    BY <1>0, <1>6 DEF Resume, WakesUp, Capturing, Waits, TurnInv
  <2>2. state # "oneshot" /\ state' = state
    BY <1>0, <1>6, <2>1 DEF ShotInv, Resume, driver
  <2> QED BY <2>2 DEF ShotInv
<1>7. CASE Reconfigure(c)
  <2>1. ~image_transfer_enabled /\ \A d \in Clients : ~Waits(d)
    BY <1>0, <1>7 DEF Reconfigure, Alone
  <2>2. state # "oneshot"
    BY <1>0, <2>1 DEF ShotInv
  <2>3. state' \in {state, "ready", "stop", "timeout"}
    BY <1>7 DEF Reconfigure, Prepare, DcmiPrepare, Unprepare, CaptureStop, Halt, camera, driver
  <2> QED BY <2>2, <2>3 DEF ShotInv
<1> QED BY <1>2, <1>3, <1>4, <1>5, <1>6, <1>7 DEF Client, ClientGoesOn

LEMMA ShotNext ==
    ASSUME Inv, TurnInv, ShotInv, ~Oversize, [Next]_vars, [Alone]_vars
    PROVE  ShotInv'
<1>0. Fits = {TRUE}
  BY DEF Fits
<1>1. CASE UNCHANGED vars
  BY <1>1 DEF vars, threads, camera, driver, ShotInv, Waits
<1>2. CASE TransferEnable
  BY <1>2 DEF TransferEnable, Prepare, DcmiPrepare, ShotInv
<1>3. CASE Interrupt \/ ErrorInterrupt
  <2>1. CASE HalfTransfer \/ TransferEnd
    <3>1. UNCHANGED <<state, halted, waiting, pc>>
      BY <1>3, <2>1 DEF HalfTransfer, TransferEnd, Interrupt, ErrorInterrupt, threads, driver
    <3> QED BY <3>1 DEF ShotInv, Waits
  <2>2. CASE FrameEnd
    BY <2>2 DEF FrameEnd, ShotInv
  <2>3. CASE DcmiError
    BY <2>3 DEF DcmiError, ShotInv
  <2> QED BY <1>3, <2>1, <2>2, <2>3 DEF Interrupt, ErrorInterrupt
<1> QED BY <1>0, <1>1, <1>2, <1>3, SpiShot, ClientShot DEF Next

(* dcmi_camera.c and spi_comm.c: no assertion of the driver stops the      *)
(* robot because a single shot is under way, by any number of threads that *)
(* take turns.  spi_comm_suspend keeps the thread of the SPI link apart    *)
(* from the one that captures; nothing in the code keeps two others apart, *)
(* which is what the hypothesis asks of them.                              *)
THEOREM ShotTheorem == ASSUME ~Oversize PROVE Spec /\ [][Alone]_vars => []OneCaptureAtATime
<1>1. Init => Inv /\ TurnInv /\ ShotInv
  BY InvInit, TurnInit
<1>2. Inv /\ TurnInv /\ ShotInv /\ [Next]_vars /\ [Alone]_vars => (Inv /\ TurnInv /\ ShotInv)'
  BY InvNext, TurnNext, ShotNext
<1>3. ShotInv => OneCaptureAtATime
  BY DEF ShotInv, OneCaptureAtATime
<1> QED BY <1>1, <1>2, <1>3, PTL DEF Spec
-----------------------------------------------------------------------------
(* The buffer that a thread has.                                           *)

\* A thread that is in the middle of dcmi_get_last_image_ptr or has the image
\* and makes no step: the interrupts alone change something.
LEMMA HoldLemma ==
    ASSUME Inv, TurnInv, [Next]_vars, [Alone]_vars, NEW c \in Clients,
           pc[c] \in InGet \union {"using"}, ~Client(c), ~image_transfer_enabled
    PROVE  UNCHANGED <<camera, image_transfer_enabled, pc[c], ptr[c], slot[c], raced>>
           \/ ((Interrupt \/ ErrorInterrupt) /\ UNCHANGED threads)
<1> USE DEF Goto, At, image, flow, history
<1>0. /\ c \in Threads /\ c # spi /\ \A d \in Clients : d # c => pc[d] = "idle"
      /\ pc \in [Threads -> SpiPoints \union ClientPoints] /\ ptr \in [Threads -> Buffers \union {NULL}]
  BY ClientsAssumption DEF Threads, TurnInv, Inv, ThreadInv, InGet
<1>1. CASE UNCHANGED vars
  BY <1>1 DEF vars, threads
<1>2. CASE TransferEnable
  BY <1>2 DEF TransferEnable, InGet
<1>3. CASE SpiThread
  <2>1. pc[spi] \notin {"capture", "wait", "waiting", "sending"}
    BY DEF TurnInv
  <2>2. SpiTop \/ SpiExchanged \/ SpiSlept
    BY <1>3, <2>1 DEF SpiThread, SpiCapture, Wait, SpiWoken, WakesUp, SpiSent
  <2> QED BY <1>0, <2>2 DEF SpiTop, SpiExchanged, SpiSlept
<1>4. ASSUME NEW d \in Clients, Client(d) PROVE UNCHANGED vars
  <2>1. pc[d] = "idle" /\ d # c
    BY <1>0, <1>4
  <2>2. Suspend(d) \/ Reconfigure(d) \/ Get(d)
    BY <1>4, <2>1 DEF Client, ClientGoesOn, Poll, ClientCapture, Wait, Resume, WakesUp, Take, TakeSingle,
                      Choose, Mark, Give, Use
  <2> QED BY <1>4, <2>1, <2>2 DEF Alone, InGet
<1>5. CASE Interrupt \/ ErrorInterrupt
  BY <1>5 DEF Interrupt, ErrorInterrupt
<1> QED BY <1>1, <1>2, <1>3, <1>4, <1>5 DEF Next

\* The interrupts leave the flags of the buffers alone, and fill the other.
LEMMA HoldInterrupt ==
    ASSUME DriverInv, NEW b \in Buffers,
           ~halted /\ Double => busy = {b} /\ (phase = "second" => mem[1 - ct] # b),
           Interrupt \/ ErrorInterrupt
    PROVE  /\ (~halted /\ Double => busy = {b} /\ (phase = "second" => mem[1 - ct] # b))'
           /\ ~Target(b) => ~Target(b)'
<1>1. ~halted /\ UNCHANGED threads /\ (HalfTransfer \/ TransferEnd \/ FrameEnd \/ DcmiError)
  BY DEF Interrupt, ErrorInterrupt
<1>2. phase # "none" => Active
  BY DEF DriverInv
<1> USE DEF threads, driver, flags, Double, Target, Active, Modes
<1>3. CASE HalfTransfer
  <2>1. capture_mode = "stream" => NextBuffer # b /\ NextBuffer \in Buffers
    BY OtherMemory, <1>1, <1>3 DEF NextBuffer, DriverInv, DcmiTypeOK, Buffers
  <2>2. /\ capture_mode = "stream" => mem' = [mem EXCEPT ![1 - ct] = NextBuffer]
        /\ capture_mode # "stream" => mem' = mem
    BY <1>3 DEF HalfTransfer
  <2>3. mem'[ct] = mem[ct] /\ ct' = ct /\ (capture_mode = "stream" => mem'[1 - ct] # b)
    BY <1>3, <2>1, <2>2, OtherMemory DEF HalfTransfer, DriverInv, DcmiTypeOK
  <2> QED BY <1>1, <1>3, <2>3 DEF HalfTransfer
<1>4. CASE TransferEnd
  BY <1>1, <1>2, <1>4 DEF TransferEnd
<1>5. CASE FrameEnd
  BY <1>1, <1>2, <1>5 DEF FrameEnd, Fills
<1>6. CASE DcmiError
  BY <1>1, <1>6 DEF DcmiError
<1> QED BY <1>1, <1>3, <1>4, <1>5, <1>6

\* A thread that has not begun, makes no step, and has no image, has none.
LEMMA ElseLemma ==
    ASSUME Inv, HoldInv, [Next]_vars, NEW c \in Clients, ~Client(c)
    PROVE  /\ pc'[c] = pc[c] /\ (ptr'[c] # NULL => ptr[c] # NULL)
           /\ raced \subseteq raced' \/ \E d \in Clients : d # c /\ raced \ {d} \subseteq raced'
<1> USE DEF Goto, At, image, flow, history, threads
<1>0. /\ c \in Threads /\ spi \in Threads /\ c # spi
      /\ pc \in [Threads -> SpiPoints \union ClientPoints] /\ ptr \in [Threads -> Buffers \union {NULL}]
  BY ClientsAssumption DEF Threads, Inv, ThreadInv
<1>1. ASSUME NEW d \in Clients, Client(d), d # c
      PROVE  pc'[c] = pc[c] /\ ptr'[c] = ptr[c] /\ raced \ {d} \subseteq raced'
  BY <1>0, <1>1 DEF Client, ClientGoesOn, Suspend, Poll, ClientCapture, Wait, Resume, Take, TakeSingle,
                    Choose, Mark, Give, Reconfigure, Get, Use
<1>2. CASE SpiThread
  BY <1>0, <1>2 DEF SpiThread, SpiTop, SpiCapture, Wait, SpiWoken, SpiExchanged, SpiSent, SpiSlept
<1>3. CASE TransferEnable \/ Interrupt \/ ErrorInterrupt \/ UNCHANGED vars
  BY <1>3 DEF TransferEnable, Interrupt, ErrorInterrupt, vars
<1> QED BY <1>1, <1>2, <1>3 DEF Next

LEMMA HoldNext ==
    ASSUME Inv, GivenInv, TurnInv, HoldInv, ~Oversize, [Next]_vars, [Alone]_vars
    PROVE  HoldInv'
<1> USE DEF Goto, At, InGet
<1> SUFFICES ASSUME NEW c \in Clients PROVE Holds(c)'
  BY DEF HoldInv
<1>0. /\ c \in Threads /\ Holds(c)
      /\ pc \in [Threads -> SpiPoints \union ClientPoints] /\ ptr \in [Threads -> Buffers \union {NULL}]
      /\ slot \in [Threads -> Buffers \union {NULL}] /\ mem \in [Buffers -> Buffers]
      /\ image_transfer_enabled => image_transfer_enabled'
  BY ClientsAssumption
     DEF HoldInv, Threads, Inv, ThreadInv, DriverInv, DcmiTypeOK, Next, TransferEnable, SpiThread, SpiTop,
         SpiCapture, Wait, SpiWoken, SpiExchanged, SpiSent, SpiSlept, Client, ClientGoesOn, Suspend, Poll,
         ClientCapture, Resume, Take, TakeSingle, Choose, Mark, Give, Reconfigure, Get, Use, Interrupt,
         ErrorInterrupt, vars, threads, flow
\* the thread makes no step
<1>1. CASE ~Client(c)
  <2>1. pc'[c] = pc[c] /\ (ptr'[c] # NULL => ptr[c] # NULL)
    BY <1>1, ElseLemma
  <2>2. CASE pc[c] \notin InGet \union {"using"}
    BY <1>0, <2>1, <2>2 DEF Holds
  <2>3. CASE image_transfer_enabled
    BY <1>0, <2>1, <2>3 DEF Holds
  <2>4. CASE ~image_transfer_enabled /\ pc[c] \in InGet \union {"using"}
    <3>1. CASE UNCHANGED <<camera, image_transfer_enabled, pc[c], ptr[c], slot[c], raced>>
      BY <1>0, <3>1 DEF Holds, camera, driver, dma, flags, Double
    <3>2. CASE (Interrupt \/ ErrorInterrupt) /\ UNCHANGED threads
      <4>1. raced \subseteq raced' /\ ~halted /\ busy' = busy
        BY <3>2 DEF Interrupt, ErrorInterrupt, history, HalfTransfer, TransferEnd, FrameEnd, DcmiError, flags
      <4>2. UNCHANGED <<pc, ptr, slot, capture_mode>>
        BY <3>2 DEF threads, image, Interrupt, ErrorInterrupt, HalfTransfer, TransferEnd, FrameEnd, DcmiError,
                    driver
      <4>3. CASE pc[c] = "using"
        <5>1. ASSUME c \notin raced' PROVE ptr[c] \in Buffers
          BY <1>0, <2>4, <4>1, <4>3, <5>1 DEF Holds
        <5>2. ASSUME c \notin raced'
              PROVE  (~halted /\ Double => busy = {ptr[c]} /\ (phase = "second" => mem[1 - ct] # ptr[c]))'
          <6>1. ~halted /\ Double => busy = {ptr[c]} /\ (phase = "second" => mem[1 - ct] # ptr[c])
            BY <1>0, <2>4, <4>1, <4>3, <5>2 DEF Holds
          <6>2. DriverInv /\ ptr'[c] = ptr[c]
            BY <4>2 DEF Inv
          <6> QED BY <3>2, <5>1, <5>2, <6>1, <6>2, HoldInterrupt
        <5> QED BY <1>0, <4>2, <4>3, <5>1, <5>2 DEF Holds
      <4>4. CASE pc[c] \in {"get", "getWait", "getWaiting", "mark"}
        BY <1>0, <2>4, <4>1, <4>2, <4>4 DEF Holds, Double
      <4>5. CASE pc[c] = "give"
        <5>1. ASSUME c \notin raced' PROVE mem' = mem
          <6>1. c \notin waiting
            BY <4>5 DEF Inv, ThreadInv
          <6>2. HalfTransfer => c \in raced'
            BY <1>0, <3>2, <4>5, <6>1 DEF Interrupt, ErrorInterrupt, Taking, Getting, HalfTransfer, TransferEnd,
                                           FrameEnd, DcmiError, driver
          <6> QED BY <3>2, <5>1, <6>2 DEF Interrupt, ErrorInterrupt, TransferEnd, FrameEnd, DcmiError
        <5> QED BY <1>0, <2>4, <4>1, <4>2, <4>5, <5>1 DEF Holds, Double
      <4>6. CASE pc[c] = "single"
        BY <1>0, <4>2, <4>6 DEF Holds
      <4> QED BY <2>4, <4>3, <4>4, <4>5, <4>6
    <3> QED BY <1>1, <2>4, <3>1, <3>2, HoldLemma
  <2> QED BY <2>2, <2>3, <2>4
<1> USE DEF Holds, image, flow, history
\* it asks for the image
<1>2. CASE Get(c)
  <2>1. UNCHANGED <<camera, image>> /\ pc'[c] \in {"single", "get", "getWait"} /\ (Double => busy = {})
    BY <1>0, <1>2 DEF Get
  <2>2. ptr[c] = NULL
    BY <1>0, <1>2 DEF Get
  <2> QED BY <2>1, <2>2 DEF camera, driver, flags, Double
<1>3. CASE Wait(c, "getWait", "getWaiting") \/ Choose(c)
  <2>1. UNCHANGED <<driver, busy, halted, ptr, flow, raced>> /\ pc'[c] \in {"getWaiting", "mark"}
    BY <1>0, <1>3 DEF Wait, Choose, camera, flags
  <2>2. pc[c] \in {"get", "getWait", "getWaiting"}
    BY <1>3 DEF Wait, Choose, WakesUp
  <2> QED BY <1>0, <2>1, <2>2 DEF Double, driver
<1>4. CASE Mark(c)
  <2>1. /\ pc[c] = "mark" /\ pc'[c] = "give" /\ busy' = busy \union {mem[slot[c]]}
        /\ UNCHANGED <<driver, dma, halted, ptr, slot, flow, raced>>
    BY <1>0, <1>4 DEF Mark
  <2> QED BY <1>0, <2>1 DEF Double, driver, dma
<1>5. CASE Give(c)
  <2>1. /\ pc[c] = "give" /\ pc'[c] = "using" /\ ptr'[c] = mem[slot[c]] /\ ~halted
        /\ UNCHANGED <<camera, flow, raced>>
    BY <1>0, <1>5 DEF Give
  <2>2. slot[c] \in Buffers
    BY <2>1 DEF Inv, ThreadInv
  <2>3. c \notin raced => phase # "second"
    BY <1>0, <2>1 DEF GivenInv, TakeInv, Reads, Chosen
  <2> QED BY <1>0, <2>1, <2>2, <2>3 DEF camera, driver, dma, flags, Double
<1>6. CASE TakeSingle(c)
  <2>1. /\ pc[c] = "single" /\ pc'[c] = "using" /\ ptr'[c] = 0 /\ ~halted
        /\ UNCHANGED <<driver, dma, halted, flow, raced>>
    BY <1>0, <1>6 DEF TakeSingle
  <2>2. c \notin raced => ~Double
    BY <1>0, <2>1 DEF GivenInv, TakeInv, Reads
  <2> QED BY <2>1, <2>2 DEF driver, dma, Double, Buffers
\* it has none
<1>7. CASE Suspend(c) \/ Poll(c) \/ ClientCapture(c) \/ Wait(c, "wait", "waiting") \/ Resume(c) \/ Use(c)
  <2>1. pc'[c] \notin InGet \union {"using"} /\ ptr'[c] = NULL
    BY <1>0, <1>7, ClientsAssumption DEF Suspend, Poll, ClientCapture, Wait, Resume, WakesUp, Use
  <2> QED BY <2>1
<1>8. CASE Reconfigure(c)
  <2>1. pc'[c] = "idle" /\ ptr'[c] = NULL
    BY <1>0, <1>8 DEF Reconfigure, threads
  <2> QED BY <2>1
<1> QED BY <1>1, <1>2, <1>3, <1>4, <1>5, <1>6, <1>7, <1>8 DEF Client, ClientGoesOn, Take

LEMMA HoldStep ==
    ASSUME Inv, TurnInv, HoldInv, [Next]_vars, [Alone]_vars,
           NEW c \in Clients \ raced, NEW b \in Buffers, ~image_transfer_enabled,
           ptr[c] = b, ptr'[c] = b, ~Target(b)
    PROVE  ~Target(b)'
<1>1. pc[c] = "using" /\ (~halted /\ Double => busy = {b} /\ (phase = "second" => mem[1 - ct] # b))
  BY NullAssumption DEF HoldInv, Holds, Buffers
<1>2. ~Client(c) \/ Use(c)
  BY <1>1 DEF Client, ClientGoesOn, Suspend, Reconfigure, Get, Poll, ClientCapture, Wait, Resume, WakesUp,
              Take, TakeSingle, Choose, Mark, Give, Goto, At
<1>3. CASE UNCHANGED camera
  BY <1>3 DEF camera, driver, dma, Target, Active
<1>4. CASE Use(c)
  <2>1. UNCHANGED <<driver, dma>>
    BY <1>4 DEF Use, camera, ReleaseLastImagePtr
  <2> QED BY <2>1 DEF driver, dma, Target, Active
<1>5. CASE Interrupt \/ ErrorInterrupt
  BY <1>1, <1>5, HoldInterrupt DEF Inv
<1> QED BY <1>1, <1>2, <1>3, <1>4, <1>5, HoldLemma

(* dcmi_camera.c: the buffer that was given to a thread is not given to    *)
(* the DMA as long as the thread has it, if it was at rest then, by any    *)
(* number of threads that take turns and with interrupts and errors at any *)
(* point.  The interrupt at half a frame looks at the flags of the         *)
(* buffers; only where that interrupt comes in the middle of               *)
(* dcmi_get_last_image_ptr has it chosen before the flag is set.           *)
THEOREM HeldTheorem == ASSUME ~Oversize PROVE Spec /\ [][Alone]_vars => KeepsHeld
<1>1. Init => Inv /\ GivenInv /\ TurnInv /\ HoldInv
  BY InvInit, GivenInit, TurnInit
<1>2. Inv /\ GivenInv /\ TurnInv /\ HoldInv /\ [Next]_vars /\ [Alone]_vars
          => (Inv /\ GivenInv /\ TurnInv /\ HoldInv)'
  BY InvNext, GivenNext, TurnNext, HoldNext
<1>3. Inv /\ TurnInv /\ HoldInv /\ [Next]_vars /\ [Alone]_vars =>
         [\A c \in Clients \ raced, b \in Buffers :
             /\ ~image_transfer_enabled
             /\ ptr[c] = b /\ ptr'[c] = b /\ ~Target(b)
             => ~Target(b)']_vars
  BY HoldStep
<1> QED BY <1>1, <1>2, <1>3, PTL DEF Spec, KeepsHeld
===============================================================================
