----------------------------- MODULE DcmiCamera -----------------------------
(***************************************************************************)
(* The acquisition of images: camera/dcmi_camera.c over the DCMI driver    *)
(* and its DMA stream.  An action here is what a call or an interrupt does *)
(* to the driver and to the buffers; SpiComm has the threads that call.    *)
(*                                                                         *)
(* Double buffering goes with the stream, as cam_dcmi_prepare sets it.  A  *)
(* frame is its two halves and its end; an error ends the frame.           *)
(***************************************************************************)
EXTENDS Integers

CONSTANT NULL
ASSUME NullAssumption == NULL \notin {0, 1}

VARIABLES state,            \* DCMIDriver.state: "oneshot", "stream" are the ACTIVE states
          halted,           \* an assertion failed: chSysHalt
          prepared, capture_mode, image_ready, half_transfer_complete,
          busy,             \* the buffers i with buff<i>_busy = 1
          mem, ct,          \* DMA: the buffers in M0AR, M1AR and the bit CT of CR
          phase,            \* DMA: how much of the frame is in mem[ct]
          full,             \* the buffer with the last image since the preparation, while it is whole
          waiting           \* the threads on dcmi_condvar

driver == <<state, prepared, capture_mode>>
dma == <<mem, ct, phase, full>>
flags == <<image_ready, half_transfer_complete, busy>>
camera == <<driver, dma, flags, halted, waiting>>

Buffers == {0, 1}
Modes == {"oneshot", "stream"}
Double == capture_mode = "stream"
Active == state \in Modes

DcmiTypeOK ==
    /\ state \in {"stop", "ready", "error", "timeout"} \union Modes
    /\ capture_mode \in Modes
    /\ {halted, prepared, image_ready, half_transfer_complete} \subseteq BOOLEAN
    /\ busy \subseteq Buffers
    /\ mem \in [Buffers -> Buffers] /\ ct \in Buffers
    /\ phase \in {"none", "first", "second", "done"}
    /\ full \in Buffers \union {NULL}

DcmiInit ==
    /\ state = "stop" /\ prepared = FALSE /\ capture_mode = "oneshot"
    /\ halted = FALSE /\ waiting = {} /\ busy = {}
    /\ image_ready = FALSE /\ half_transfer_complete = FALSE
    /\ mem = [i \in Buffers |-> i] /\ ct = 0 /\ phase = "none" /\ full = NULL

Halt == halted' = TRUE /\ UNCHANGED <<driver, dma, flags, waiting>>

\* the DMA writes in the buffer b, or will with the next pixel
Target(b) == Active /\ mem[ct] = b

\* the DMA begins to overwrite mem[c]
Fills(c) == phase' = "first" /\ full' = IF mem[c] = full THEN NULL ELSE full

\* an image that is too big is refused after dcmiUnprepare, with prepared kept
DcmiPrepare(fits) ==
    IF state # IF prepared THEN "ready" ELSE "stop"
    THEN state' = state /\ halted' = TRUE /\ UNCHANGED <<prepared, dma>>
    ELSE /\ state' = IF fits THEN "ready" ELSE "stop"
         /\ prepared' = (prepared \/ fits)
         /\ IF fits
            THEN mem' = [i \in Buffers |-> i] /\ ct' = 0 /\ phase' = "none" /\ full' = NULL
            ELSE UNCHANGED dma
         /\ UNCHANGED halted

\* dcmi_set_capture_mode, dcmi_(en|dis)able_double_buffering, dcmi_prepare
Prepare(mode, fits) ==
    /\ capture_mode' = mode
    /\ DcmiPrepare(fits)
    /\ UNCHANGED <<flags, waiting>>

\* mutant: dcmi_prepared is not reset
UnprepareKeeps ==
    \/ prepared /\ state # "ready" /\ Halt
    \/ /\ prepared => state = "ready"
       /\ state' = IF prepared THEN "stop" ELSE state
       /\ UNCHANGED <<prepared, capture_mode, dma, flags, halted, waiting>>

Unprepare ==
    \/ prepared /\ state # "ready" /\ Halt
    \/ /\ prepared => state = "ready"
       /\ prepared' = FALSE
       /\ state' = IF prepared THEN "stop" ELSE state
       /\ UNCHANGED <<capture_mode, dma, flags, halted, waiting>>

\* dcmi_release leaves the driver stopped whatever its state; dcmi_prepare
Restart(fits) ==
    /\ state' = IF fits THEN "ready" ELSE "stop"
    /\ prepared' = fits
    /\ phase' = "none" /\ full' = NULL
    /\ IF fits THEN mem' = [i \in Buffers |-> i] /\ ct' = 0 ELSE UNCHANGED <<mem, ct>>
    /\ UNCHANGED <<capture_mode, flags, halted, waiting>>

CaptureStart ==
    \/ ~prepared /\ UNCHANGED camera
    \/ prepared /\ state # "ready" /\ Halt
    \/ /\ prepared /\ state = "ready"
       /\ state' = capture_mode
       /\ image_ready' = FALSE /\ busy' = {}
       /\ Fills(ct)
       /\ UNCHANGED <<prepared, capture_mode, mem, ct, half_transfer_complete, halted, waiting>>

\* the frame that ends while the interrupts wait for dcmiStopStream
FrameEndsInStop ==
    IF phase = "done"
    THEN UNCHANGED <<ct, full, half_transfer_complete>>
    ELSE full' = mem[ct] /\ ct' = 1 - ct /\ half_transfer_complete' = FALSE

CaptureStop ==
    \/ (~prepared \/ ~Double) /\ UNCHANGED camera
    \/ prepared /\ Double /\ state # "stream" /\ Halt
    \/ /\ prepared /\ Double /\ state = "stream"
       /\ phase' = "none"
       /\ \/ /\ state' = "ready"
             /\ FrameEndsInStop
             /\ image_ready' = TRUE /\ waiting' = {}
          \/ /\ phase = "first"     \* between two frames
             /\ state' = "ready"
             /\ UNCHANGED <<ct, full, half_transfer_complete, image_ready, waiting>>
          \/ /\ state' = "timeout"
             /\ UNCHANGED <<ct, full, half_transfer_complete, image_ready, waiting>>
       /\ UNCHANGED <<prepared, capture_mode, mem, busy, halted>>

Idle == IF Double THEN mem[1 - ct] ELSE 0   \* what get_last_image_ptr returns

ReleaseLastImagePtr == busy' = {} /\ UNCHANGED <<driver, dma, image_ready, half_transfer_complete, halted, waiting>>

-----------------------------------------------------------------------------
\* mutant: the flags of the buffers in use are not read
NextBufferAnyway == 1 - mem[ct]

\* dmaHalfTransferEndCb: where the next frame goes
NextBuffer ==
    IF 0 \in busy THEN 1 ELSE IF 1 \in busy THEN 0 ELSE 1 - mem[ct]

HalfTransfer ==
    /\ phase = "first" /\ phase' = "second"
    /\ half_transfer_complete' = TRUE
    /\ mem' = IF Double THEN [mem EXCEPT ![1 - ct] = NextBuffer] ELSE mem
    /\ UNCHANGED <<driver, ct, full, image_ready, busy, halted, waiting>>

\* dmaTransferEndCb; the DMA goes to the other memory
TransferEnd ==
    /\ phase = "second" /\ phase' = "done"
    /\ half_transfer_complete' = FALSE
    /\ full' = mem[ct]
    /\ ct' = IF Double THEN 1 - ct ELSE ct
    /\ UNCHANGED <<driver, mem, image_ready, busy, halted, waiting>>

\* mutant: nobody is woken
FrameEndSilent ==
    /\ phase = "done"
    /\ image_ready' = TRUE
    /\ IF state = "stream" THEN Fills(ct) /\ UNCHANGED state
       ELSE state' = "ready" /\ phase' = "none" /\ UNCHANGED full
    /\ UNCHANGED <<prepared, capture_mode, mem, ct, half_transfer_complete, busy, halted, waiting>>

\* _dcmi_isr_code and frameEndCb
FrameEnd ==
    /\ phase = "done"
    /\ image_ready' = TRUE /\ waiting' = {}
    /\ IF state = "stream" THEN Fills(ct) /\ UNCHANGED state
       ELSE state' = "ready" /\ phase' = "none" /\ UNCHANGED full
    /\ UNCHANGED <<prepared, capture_mode, mem, ct, half_transfer_complete, busy, halted>>

\* mutant: nobody is woken
DcmiErrorSilent ==
    /\ state # "stop"
    /\ state' = "error" /\ phase' = "none"
    /\ UNCHANGED <<prepared, capture_mode, mem, ct, full, flags, halted, waiting>>

\* _dcmi_isr_error_code and dcmiErrorCb, in any state in which the stream of
\* the DMA is allocated and the vector of the DCMI enabled: an overflow may be
\* pending when the frame has ended
DcmiError ==
    /\ state # "stop"
    /\ state' = "error" /\ phase' = "none" /\ waiting' = {}
    /\ UNCHANGED <<prepared, capture_mode, mem, ct, full, flags, halted>>
=============================================================================
