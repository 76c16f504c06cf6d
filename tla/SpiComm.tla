------------------------------- MODULE SpiComm -------------------------------
(***************************************************************************)
(* The thread that talks to the radio processor over SPI (spi_comm.c), the *)
(* threads that take images beside it (the shell, the selector, Asercom),  *)
(* and the camera they share.                                              *)
(*                                                                         *)
(* pc is where a thread is between two points at which another thread or   *)
(* an interrupt may run.  A thread in "exchange", "sending" or "asleep" is *)
(* in CH_STATE_SUSPENDED.  Whether images go to the radio processor is set *)
(* with the selector and does not change in a behaviour.                   *)
(***************************************************************************)
EXTENDS DcmiCamera

CONSTANTS spi, Clients,
          Oversize,     \* the size set for the image may not fit in the memory
          Errors        \* the DMA and the DCMI may report errors

ASSUME ClientsAssumption == spi \notin Clients
ASSUME FlagsAssumption == {Oversize, Errors} \subseteq BOOLEAN

VARIABLES pc,
          ptr,          \* ptr[t]: the buffer the thread t has, between get and release
          slot,         \* slot[t]: the memory of the DMA that t is to be given
          spi_suspend_flag, image_transfer_enabled,
          raced,        \* history: the threads whose reading of the DMA has gone stale
          missed        \* history: the threads whose frame ended before their wait

flow == <<spi_suspend_flag, image_transfer_enabled>>
image == <<ptr, slot>>
threads == <<pc, image, flow>>
history == <<raced, missed>>
vars == <<camera, threads, history>>

Threads == Clients \union {spi}
Suspended == pc[spi] \in {"asleep", "exchange", "sending"}

SpiPoints == {"top", "asleep", "capture", "wait", "waiting", "exchange", "sending", "sleep"}
ClientPoints == {"idle", "poll", "start", "wait", "waiting", "single",
                 "get", "getWait", "getWaiting", "mark", "give", "using"}

TypeOK ==
    /\ DcmiTypeOK
    /\ waiting = {t \in waiting : pc[t] \in {"waiting", "getWaiting"}}
    /\ pc[spi] \in SpiPoints
    /\ \A c \in Clients : pc[c] \in ClientPoints
    /\ {ptr, slot} \subseteq [Threads -> Buffers \union {NULL}]
    /\ raced \subseteq Threads /\ missed \subseteq Threads
    /\ {spi_suspend_flag, image_transfer_enabled} \subseteq BOOLEAN

Init ==
    /\ DcmiInit
    /\ image_transfer_enabled = FALSE
    /\ pc = [t \in Threads |-> IF t = spi THEN "top" ELSE "idle"]
    /\ ptr = [t \in Threads |-> NULL] /\ slot = ptr
    /\ spi_suspend_flag = FALSE
    /\ raced = {} /\ missed = {}

Fits == IF Oversize THEN BOOLEAN ELSE {TRUE}

At(t, point) == ~halted /\ pc[t] = point
Goto(t, from, to) == At(t, from) /\ pc' = [pc EXCEPT ![t] = to]

\* mutant: the thread does not stay in the queue
WakesUpAnyway(t, from) == At(t, from)

\* chCondWait has returned
WakesUp(t, from) == At(t, from) /\ t \notin waiting

\* the selector comes to the position that sends images, from a robot at rest
TransferEnable ==
    /\ ~image_transfer_enabled /\ state = "stop" /\ ~spi_suspend_flag
    /\ \A c \in Clients : At(c, "idle")
    /\ image_transfer_enabled' = TRUE
    /\ \E fits \in Fits : Prepare("oneshot", fits)
    /\ UNCHANGED <<pc, image, spi_suspend_flag, history>>

-----------------------------------------------------------------------------
Transfer == IF image_transfer_enabled THEN "capture" ELSE "exchange"

\* mutant: the flag is not looked at
SpiTopGoesOn ==
    /\ Goto(spi, "top", Transfer)
    /\ UNCHANGED <<camera, image, flow, history>>

SpiTop ==
    /\ Goto(spi, "top", IF spi_suspend_flag THEN "asleep" ELSE Transfer)
    /\ UNCHANGED <<camera, image, flow, history>>

SpiCapture ==
    /\ Goto(spi, "capture", "wait")
    /\ CaptureStart
    /\ missed' = missed \ {spi}
    /\ UNCHANGED <<image, flow, raced>>

\* wait_image_ready: chCondWait, which does not look at image_ready
Wait(t, from, to) ==
    /\ Goto(t, from, to)
    /\ waiting' = waiting \union {t}
    /\ UNCHANGED <<driver, dma, flags, halted, image, flow, history>>

SpiWoken ==
    /\ WakesUp(spi, "waiting")
    /\ \/ image_ready /\ Goto(spi, "waiting", "exchange") /\ UNCHANGED camera
       \/ /\ ~image_ready /\ Goto(spi, "waiting", "top")
          /\ \E fits \in Fits : Restart(fits)
    /\ UNCHANGED <<image, flow, history>>

\* the header of 12 bytes is exchanged and the radio processor asks for the
\* image or does not
SpiExchanged ==
    /\ \/ Goto(spi, "exchange", IF image_transfer_enabled THEN "top" ELSE "sleep") /\ UNCHANGED <<camera, ptr>>
       \/ /\ image_transfer_enabled
          /\ Goto(spi, "exchange", "sending")
          /\ IF 0 \notin busy THEN busy' = busy \union {0} /\ ptr' = [ptr EXCEPT ![spi] = 0] ELSE UNCHANGED <<busy, ptr>>
          /\ UNCHANGED <<driver, dma, image_ready, half_transfer_complete, halted, waiting>>
    /\ UNCHANGED <<slot, flow, history>>

SpiSent ==
    /\ Goto(spi, "sending", "top")
    /\ ReleaseLastImagePtr
    /\ ptr' = [ptr EXCEPT ![spi] = NULL]
    /\ UNCHANGED <<slot, flow, history>>

SpiSlept ==
    /\ Goto(spi, "sleep", "top")
    /\ UNCHANGED <<camera, image, flow, history>>

-----------------------------------------------------------------------------
\* spi_comm_suspend
Suspend(c) ==
    /\ Goto(c, "idle", IF spi_suspend_flag THEN "start" ELSE "poll")
    /\ spi_suspend_flag' = TRUE
    /\ UNCHANGED <<camera, image, image_transfer_enabled, history>>

\* mutant: the thread is not waited for
PollOnce(c) ==
    /\ Goto(c, "poll", "start")
    /\ UNCHANGED <<camera, image, flow, history>>

Poll(c) ==
    /\ Goto(c, "poll", "start")
    /\ Suspended
    /\ UNCHANGED <<camera, image, flow, history>>

ClientCapture(c) ==
    /\ Goto(c, "start", "wait")
    /\ CaptureStart
    /\ missed' = missed \ {c}
    /\ UNCHANGED <<image, flow, raced>>

\* spi_comm_resume, after wait_image_ready whatever it returned.  The wake-up
\* of a thread that is not in its sleep is an error of the kernel, but in a
\* sleep with a time it only ends that sleep.
Resume(c) ==
    /\ WakesUp(c, "waiting")
    /\ spi_suspend_flag' = FALSE
    /\ LET wakes == spi_suspend_flag
           to == CASE pc[spi] = "asleep" -> Transfer [] pc[spi] = "sleep" -> "top" [] OTHER -> pc[spi]
       IN  /\ pc' = [pc EXCEPT ![c] = "idle", ![spi] = IF wakes THEN to ELSE @]
           /\ halted' = (wakes /\ pc[spi] \notin {"asleep", "sleep"})
    /\ UNCHANGED <<driver, dma, flags, waiting, image, image_transfer_enabled, history>>

\* The threads in dcmi_get_last_image_ptr, and of these the ones that have
\* looked at half_transfer_complete, or waited, and go on to take an address
Getting == {t \in Threads : pc[t] \in {"single", "get", "getWait", "getWaiting", "mark", "give"}}
Taking == {t \in Getting \ waiting : pc[t] \in {"get", "getWaiting", "mark", "give"}}
Starting == {t \in Threads : pc[t] = "wait"}

\* the shell and the selector set the camera up while no image is sent by SPI
Reconfigure(c) ==
    /\ At(c, "idle") /\ ~image_transfer_enabled
    /\ \/ \E mode \in Modes, fits \in Fits : Prepare(mode, fits)
       \/ Unprepare
       \/ CaptureStop
    /\ raced' = raced \union Getting /\ missed' = missed \union Starting
    /\ UNCHANGED threads

\* dcmi_get_last_image_ptr, in steps: the flags of the buffers in use and
\* half_transfer_complete
Get(c) ==
    /\ IF Double THEN busy = {} ELSE 0 \notin busy
    /\ Goto(c, "idle", IF ~Double THEN "single" ELSE IF half_transfer_complete THEN "getWait" ELSE "get")
    /\ raced' = raced \ {c}
    /\ UNCHANGED <<camera, image, flow, missed>>

\* ... the only buffer without double buffering
TakeSingle(c) ==
    /\ Goto(c, "single", "using")
    /\ busy' = busy \union {0} /\ ptr' = [ptr EXCEPT ![c] = 0]
    /\ UNCHANGED <<driver, dma, image_ready, half_transfer_complete, halted, waiting, slot, flow, history>>

\* mutant: the memory that is being filled
ChooseOther(c) ==
    /\ At(c, "get") \/ WakesUp(c, "getWaiting")
    /\ pc' = [pc EXCEPT ![c] = "mark"] /\ slot' = [slot EXCEPT ![c] = ct]
    /\ UNCHANGED <<camera, ptr, flow, history>>

\* ... the memory that the DMA does not fill, from the bit CT
Choose(c) ==
    /\ At(c, "get") \/ WakesUp(c, "getWaiting")
    /\ pc' = [pc EXCEPT ![c] = "mark"] /\ slot' = [slot EXCEPT ![c] = 1 - ct]
    /\ UNCHANGED <<camera, ptr, flow, history>>

\* ... the flag of the buffer that this memory has
Mark(c) ==
    /\ Goto(c, "mark", "give")
    /\ busy' = busy \union {mem[slot[c]]}
    /\ UNCHANGED <<driver, dma, image_ready, half_transfer_complete, halted, waiting, image, flow, history>>

\* ... and its address, read anew
Give(c) ==
    /\ Goto(c, "give", "using")
    /\ ptr' = [ptr EXCEPT ![c] = mem[slot[c]]] /\ slot' = [slot EXCEPT ![c] = NULL]
    /\ UNCHANGED <<camera, flow, history>>

Take(c) == TakeSingle(c) \/ Choose(c) \/ Mark(c) \/ Give(c)

\* most callers do not release the image
Use(c) ==
    /\ Goto(c, "using", "idle")
    /\ ptr' = [ptr EXCEPT ![c] = NULL]
    /\ UNCHANGED camera \/ ReleaseLastImagePtr
    /\ UNCHANGED <<slot, flow, history>>

-----------------------------------------------------------------------------
Interrupt ==
    /\ ~halted
    /\ \/ HalfTransfer /\ raced' = raced \union Taking /\ UNCHANGED missed
       \/ TransferEnd /\ UNCHANGED history
       \/ FrameEnd /\ missed' = missed \union Starting /\ UNCHANGED raced
    /\ UNCHANGED threads

ErrorInterrupt ==
    /\ Errors /\ ~halted
    /\ DcmiError
    /\ missed' = missed \union Starting
    /\ UNCHANGED <<threads, raced>>

SpiThread == SpiTop \/ SpiCapture \/ Wait(spi, "wait", "waiting") \/ SpiWoken \/ SpiExchanged \/ SpiSent \/ SpiSlept

ClientGoesOn(c) ==
    \/ Poll(c) \/ ClientCapture(c) \/ Wait(c, "wait", "waiting") \/ Resume(c)
    \/ Wait(c, "getWait", "getWaiting") \/ Take(c)

Client(c) == Suspend(c) \/ Reconfigure(c) \/ Get(c) \/ Use(c) \/ ClientGoesOn(c)

Next == TransferEnable \/ SpiThread \/ (\E c \in Clients : Client(c)) \/ Interrupt \/ ErrorInterrupt

Spec == Init /\ [][Next]_vars

\* the frame goes on whatever the threads do
FairSpec ==
    /\ Spec
    /\ WF_vars(SpiThread)
    /\ \A c \in Clients : WF_vars(ClientGoesOn(c))
    /\ WF_vars(Interrupt)

-----------------------------------------------------------------------------
(* dcmi_prepared is set exactly while the driver is not stopped: no call   *)
(* is made on a driver that was released, in any order of errors, restarts *)
(* and reconfigurations.                                                   *)
PreparedAgrees == prepared <=> state # "stop"

CameraInv == TypeOK /\ PreparedAgrees

(* The suspension keeps the captures of two threads apart: no assertion of *)
(* the driver stops the robot because a single shot is under way.          *)
OneCaptureAtATime == halted => state # "oneshot"

(* A buffer that is at rest when it is given to a thread is not given to   *)
(* the DMA as long as the thread has it, unless a capture is started anew  *)
(* or the interrupt at half a frame came between the moment the thread     *)
(* looked at half_transfer_complete and the return of the address.         *)
KeepsHeld ==
    [][\A c \in Clients \ raced, b \in Buffers :
         /\ ~image_transfer_enabled
         /\ ptr[c] = b /\ ptr'[c] = b /\ ~Target(b)
         => ~Target(b)']_vars

(* The image that is given is the last one, while one is whole and no      *)
(* error has ended the capture, but for the same interrupt in between.     *)
GivenIsLast ==
    [][\A t \in Threads \ raced :
         ptr[t] = NULL /\ ptr'[t] # NULL /\ full # NULL /\ state # "error" => ptr'[t] = full]_vars

(* A thread that waits for a frame is woken, by the image or by an error,  *)
(* if the camera captures, or has captured the frame that the thread       *)
(* started and neither its end nor an error came before the wait.          *)
WaitEnds ==
    \A t \in Threads :
        t \in waiting /\ (Active \/ (prepared /\ pc[t] = "waiting" /\ t \notin missed)) ~> t \notin waiting

(* Every such wait comes to its end, and that of spi_comm_suspend for the  *)
(* thread of the SPI unless that thread has missed its own frame.          *)
CallsEnd == WaitEnds /\ \A c \in Clients : pc[c] = "poll" ~> halted \/ pc[c] # "poll" \/ spi \in missed

(* Does not hold (README): what KeepsHeld says, without the interrupt that *)
(* dcmi_camera.c:299 asks about, 'mutex on "half_transfer_complete"        *)
(* needed?'.                                                               *)
AlwaysHeld ==
    [][\A c \in Clients, b \in Buffers :
         /\ ~image_transfer_enabled
         /\ ptr[c] = b /\ ptr'[c] = b /\ ~Target(b)
         => ~Target(b)']_vars

(* Does not hold (README), for the same reason.                            *)
AlwaysLast ==
    [][\A t \in Threads :
         ptr[t] = NULL /\ ptr'[t] # NULL /\ full # NULL /\ state # "error" => ptr'[t] = full]_vars

(* Does not hold (README).  dcmi_camera.c:219: "waits until an image has   *)
(* been captured", which a frame that ends before the wait is not seen to. *)
AlwaysWoken ==
    \A t \in Threads : t \in waiting /\ prepared /\ pc[t] = "waiting" ~> t \notin waiting

(* Does not hold (README).  spi_comm.c:104: "Avoid using DCMI and SPI at   *)
(* the same time because there is an hardware bug with DMA."               *)
DcmiSpiApart == Active => pc[spi] \notin {"exchange", "sending"}

(* Does not hold (README).  dcmi_camera.c:301: "now we can return to the   *)
(* user the buffer that isn't currently filled."                           *)
GivenIsAtRest ==
    [][\A c \in Clients : ~image_transfer_enabled /\ ptr[c] = NULL /\ ptr'[c] # NULL => ~Target(ptr'[c])]_vars

(* Does not hold when an image may be too big (README).  dcmi.c:121 and    *)
(* 138: osalDbgAssert((dcmip->state == DCMI_READY), "invalid state").      *)
NeverStopped == halted => state # "stop"
=============================================================================
