# A TLA+ verification project for the main processor of the e-puck2

The firmware of the STM32F407 of the e-puck2 robot (`src/src/`) is a set of
ChibiOS threads and interrupt handlers. This project models the parts whose
correctness depends on the order in which threads, interrupts and power
failures act, checks the models with TLC on small instances, and proves the
main invariants with TLAPS for every value of the parameters.

Paths below are relative to `src/src/` of the repository unless they say
otherwise.

## 1. Inventory of the system

### Kernel assumptions

`src/chconf.h` sets a time quantum of 20 ticks and recursive mutexes. Nearly
every thread runs at `NORMALPRIO`, so equal threads are rotated at any
instruction; the Aseba virtual machine and the communication threads run at
`LOWPRIO`, CAN reception and the microphones just above normal. Timer 14 (the
infrared state machine) interrupts at priority 7, the DMA of the ADC at 6,
which preempts it. The kernel itself is a submodule that is not in the
repository: its services (thread references, mutexes, condition variables,
binary semaphores) are modelled from how the code uses them and taken to be
atomic.

### Components

| component | state it keeps | operations | talks to |
|---|---|---|---|
| melody player `audio/play_melody.c` | thread reference, `play`, index and song of the thread | `playMelody` with three options, stop, wait | DAC; mode selector, shell, sercom |
| sound file player `audio/play_sound_file.c` | two buffers, which one is read, its size, two semaphores, frequency | `playSoundFile` with three options, stop, wait, `end_cb` | DAC, FatFs |
| DAC `audio/audio_thread.c` | state of the DAC and its timer | `dac_play`, `dac_play_buffer`, `dac_stop(I)` | both players |
| parameter store `config_flash_storage.c` | a log of blocks in one flash sector | save, load, erase | flash driver; shell, Aseba VM |
| flash driver `flash/flash.c` | lock, control register | unlock, lock, write, sector erase | parameter store |
| infrared link `ircom/ircom.c`, `ircomSend.c`, `ircomReceive.c` | state machine, windows of samples, a measure of proximity, the emitters, the ADC | listen, stop, send, timer and ADC interrupts | transceiver, queue |
| infrared queue `ircom/ircomMessages.c` | ring of messages | push (interrupt), pop, flush (thread) | link |
| infrared word `ircom/ircomTools.c` | none | byte to bits and back, checksum | link |
| transceiver `ircom/transceiver.c` | a thread | listen, pop, send, wait, sleep | link |
| camera `camera/dcmi_camera.c` | two buffers, who uses them, DMA destinations | capture, get/release last image | SPI link, sercom |
| SPI link `spi_comm.c` | suspend flag, image transfer flag | suspend, resume, exchange | camera, leds, button |
| IMU `sensors/imu.c`, ground `sensors/ground.c` | last values, filter and calibration handshake | filtered read, calibrate, stop | I2C bus |
| proximity `sensors/proximity.c` | ADC values, pulse sequence, calibration | start, stop, calibrate | obstacle avoidance |
| I2C bus `i2c_bus.c` | driver state, last error | read, write, restart on error, stop | IMU, ground, distance sensor |
| motors `motors.c`, `behaviors.c` | direction, step, position, speed | set speed, timer interrupts, avoidance thread | timers |
| message dispatcher `communication.c` | a table of orders | parse a datagram | serial stream |
| remote control `ir_remote.c` | state of the RC5 decoder | timer interrupt | mode selector |
| Aseba CAN and node `aseba_vm/` | transmit lock, VM | send and receive frames, save settings | CAN, parameter store |
| the rest: leds, button, battery, distance sensor, microphones, camera registers, shell, USB, SD card, start-up | a value or a register table each | read, write, set up | everything |

`PROJECT.json` lists every component, with the reason for those that are not
modelled.

### What is hard in it, and what correct means

- **Players.** The same hand-over protocol is written twice: callers test a
  thread reference without a lock, then use it. Correct: a resume wakes a
  thread that sleeps, no track is lost or overwritten, a wait ends, and ends in
  silence. The sound file player also shares two buffers and two semaphores
  with the interrupt of the DAC. Correct: blocks come out in order, the thread
  never fills the buffer being read, nothing is left over from one file to the
  next, and the thread comes back to rest (but for section 5).
- **Parameter store.** Flash can only be cleared between erases, and the power
  may fail between two words. Correct: what was saved is what is loaded, an
  interrupted save does not lose the one before it, and no access leaves the
  sector.
- **Infrared link.** One set of sensors and emitters is shared in time between
  reception, sending and proximity by two interrupts and a thread. Correct:
  no proximity measure in the middle of a word, no own light in what is
  listened to, the robot hears again after a word, and words end. Any thread may
  call while another is in a word.
- **Queue.** Single-word counters are changed by an interrupt and a thread, with
  no lock. Correct: a queue that loses its oldest message and nothing else.
- **Camera and SPI link.** One camera is used by the thread that talks to the
  radio processor and by the shell, the selector and the serial protocol; they
  are kept apart by a flag and by polling the state of a thread. The interrupts
  of a frame swap two buffers under their users. Correct: no assertion of the
  driver fails, a buffer in use is not filled, the last image is the one that is
  given, and every wait for a frame ends.
- **IMU, ground sensors and their bus.** Callers ask the thread of the IMU for an
  average through flags and poll for the answer; a bus that locks up is stopped
  and started inside an access. Correct: a caller gets the average of its own
  axis and of as many new values as it asked for, and gets it while the IMU runs;
  whoever takes the bus finds it ready.
- **Proximity.** A timer lights one emitter after the other and triggers the
  ADC, whose own sequence runs beside it. Correct: a measure is taken by its
  own light, whatever the state a stop has left behind; stops and calibrations
  end.
- **Motors and obstacle avoidance.** The avoidance decides once whether to act
  and acts later; a speed is written in four parts. Correct: after the
  avoidance is off, all parts of a motor agree on the last order.

The list of hazards with their lines is in `PROJECT.json`.

## 2. Modules

| module | what it is |
|---|---|
| `PlayerCalls` | the calling side of both players: one action for each access to the shared variables in `playMelody`, `stopCurrentMelody`, `waitMelodyHasFinished` (and their twins of the sound file player) |
| `PlayMelody` | the thread `PlayMelodyThd` and the speaker |
| `MelodyService` | abstract: what the melody player promises |
| `PlaySoundFile` | the thread `PlaySoundFileThd`, `playWAVFile`, the interrupt `end_cb` and the DAC |
| `ConfigFlash` | `config_save`, `config_load`, `config_erase` word by word, the flash cells and power failures |
| `FlashSector` | `flash_addr_to_sector` against the layout of the flash |
| `IrCom` | the infrared link: thread, timer interrupt, ADC interrupt |
| `IrcomMessages` | the ring of messages |
| `MessageQueue` | abstract: a bounded queue that drops its oldest element |
| `IrcomWord` | bits and checksum of an infrared word |
| `DcmiCamera` | the acquisition of images and the DCMI driver: one action for what each call and each interrupt does to the driver, its buffers and its DMA |
| `SpiComm` | the thread of the SPI link and the threads that take images; composes them with `DcmiCamera` |
| `I2cBus` | one access to the bus: mutex, transfer, restart of a bus that locked up |
| `Imu` | the threads of the IMU and of the ground sensors and those that ask for averages; composes them with `I2cBus` |
| `Proximity` | the timer, the sequence of the ADC, the thread and the calls of the proximity sensors |
| `Drive` | the motors, the obstacle avoidance and who gives them orders |
| `MC...` | values of the constants for TLC; `MCConfigFlash` composes the store with `FlashSector`, `MCIrCom` the link with `IrcomWord` |
| `..._proofs` | theorems; `SpiComm_proofs` and `Imu_proofs` also those about `DcmiCamera` and `I2cBus`, `ConfigFlash_proofs` those about `FlashSector`, `Obstacle_proofs` those about `Proximity` and `Drive` |

### How state and actions correspond to the code

**PlayerCalls / PlayMelody.** `ref` is "`play_melody_ref` is not NULL", `play`
the flag of that name, `mail` the message that `chThdResume` leaves for
`chThdSuspendS`, `lock` and `waiting` the mutex and the condition variable
(both files name them alike). `pc[c]` is the place of a caller in
`playMelody`: `check` is the test of `SIMPLE_PLAY`, `stop`, `test`, `lock`,
`park`, `unlock` are the lines of `stopCurrentMelody` and
`waitMelodyHasFinished`, `arm` sets `play`, `resume` calls `chThdResume`.
`ppc` is the place of the thread; `PlayNote` and `EndNote` are the two sides of
the sleep in `playNote`. A wait for the end without an order is the option
`await`, a stop alone is `stop`.

**PlaySoundFile.** `holds` records which block of the file is in each buffer,
`fill` the buffer the thread fills, `bufferToRead` and `sizeToRead` the
variables `end_cb` reads, `dacSize` the number of samples the DAC was given,
`changeBuffer` and `dacStopped` the semaphores. A
track stands for a path with its frequency, so `sampFreq` is a track. `Open` is
the mount and the open, `Scan` one read of the pass that looks for the largest
sample, which publishes its size and fills the first buffer as every later read
does; each read may fail by itself. `PlayBuffer` gives the DAC the first block
as it was read, `EndCb`, the interrupt, a later one without its odd last sample.
When the card is not slow (`CardSlow = FALSE`) the interrupt comes only
when the thread has nothing left to do before it, which is what the size of the
buffers is chosen for. Files hold at least one sample and blocks at least two;
scaling and volume are left out.

**ConfigFlash.** A cell is the set of the words programmed into it since the
last erase, because programming a word twice leaves the conjunction of its
bits; it reads as a word only when it holds exactly that one. Checksums are
injective, but a checksum is that of the cells as they are in the flash, as in
the code. A save is one action for each word and each decision. `Failed` is the
erase and the recursive call. `PowerFail` may leave the word that was being
programmed in a state that reads as nothing in particular; an erase is done or
not begun. `dirty` is a history variable: a save was interrupted since the last
erase.

**IrCom.** `fsm`, `paused`, `receiving`, ... are the fields of `ircomData`,
`ircomReceiveData`, `ircomSendData`; what demodulation makes of a window of
samples is chosen where it is called; `mode`, `phase`, `index`, `delay` are the
measure of proximity in the ADC interrupt; `lit` the emitters that are on. The
thread runs only between two timer interrupts (`ClientGoto`), the ADC interrupt
comes between any two steps, and also inside the timer interrupt, between the
test and the reset of `ircom_is_array_filled` (`Poll`, `Reset`). `ircomListen`
and the part of `ircomSend` that runs with the state machine paused are single
steps; the assignments of `ircomStopListening` called by itself are not. As in
the code, no call looks at the state of the link: each may come while a word is
received or sent. `listens` and `cut` are history variables: the thread asked to
listen; and what a call made in the middle of a word left undone, until
something in the code does it: `"adc"`, the ADC of a dropped word was not
switched on again, `"prox"`, the measures of proximity were not enabled again,
`"listen"`, a word sent in the middle of another forgot that the reception was
interrupted. Calibration, `ircomPause` by the user, and the estimation of
distance and direction are left out.

**IrcomMessages.** `++` and `--` of the thread are a load and a store, and the
three assignments of a flush are three steps; the push of the interrupt is one
step and comes between any two of these. `raced` is a history variable: since
the last flush a push has come where its update and that of the thread start
from the same old value (`Collides`). The properties are about a ring without
such a collision; every other push inside a pop or flush is within them.

**DcmiCamera / SpiComm.** `state` is that of the driver, `mem` and `ct` the two
addresses and the current-target bit of the DMA, `phase` how much of a frame has
come, `busy` the two flags `buff0_busy`, `buff1_busy`. `full` is a history
variable: the buffer with the last whole image. `HalfTransfer`, `TransferEnd`,
`FrameEnd` and `DcmiError` are the four interrupts. A failed assertion stops the
robot (`halted`). `pc[t]` is where a thread is between two points at which
another may run; `Suspended` is what `spi_comm_suspend` polls for. An interrupt,
or an error of the driver in whatever state it is, comes between any two steps.
Taking the last image (`dcmi_get_last_image_ptr`) is therefore four steps: the
look at `half_transfer_complete` (`Get`), the look at the bit CT (`Choose`,
`slot`), the flag of the buffer (`Mark`), its address (`Give`). `raced` and
`missed` are history variables: what a thread has looked at has gone stale by
the interrupt at half a frame before the address is returned; the frame that a
thread has started has ended, or failed, before its wait. Images go to the radio
processor in single shots, and the mode of the selector does not change while
they do. The code of the last error, the content of images and the colours and
buttons in a packet are left out.

**I2cBus / Imu.** `at[u]` is where the access of a thread is. `Take` is
`i2cAcquireBus` with the test of the driver behind it; `TimedOut` and
`Restarted` are `i2c_stop` and `i2c_start` inside the access. `left` is the
number of attempts an access has left. A record `filter[s]` has the variables of
one filter of `imu.c`. Its `samples` is `NumSamples`; of the sum it is kept of
how many values that were read it is and of which axes, so that an average of the
wrong axis or of too few new values shows: a read that failed adds the value
before it once more, which counts in `samples` and not in `new`.
`ImuCycle` is one pass of the thread; it may come between the flag, the axis and
the size that a caller sets (`Asks`, `SetsAxis`, `SetsSize`). `raced` and
`missed` are history variables, for each caller since its call: the thread has
come there, a read has failed. The average of a filter of size zero counts all
the values of a `uint8_t` and then divides by zero; the thread is taken to go
on. The calibration of the magnetometer and the set-up of the chips are left
out.

**Proximity.** `Reset`, `Channel1` are the two interrupts of the timer, `Sample`
the trigger of the ADC between them with the interrupt at the end of its
sequence. A value is abstracted to whether its samples were all taken by the
right light (`right`, `values`, `delta`); `rounds` counts, up to two, the
sequences since the start. One thread at a time calls `proximity_start`,
`proximity_stop`, `calibrate_ir`, and interrupts are in time, which they are not
while the flash is erased.

**Drive.** `motor[m]` has what `motor_set_speed` assigns; its four parts are
steps of their own (`MotorSetSpeed`), and the interrupts of the timer come
between any two. `Behaviors` is the test of the avoidance, `BehaviorsSet` its
orders. `order` is a history variable: the last speed ordered since the
avoidance was switched. `Preempts` says whether a user may run between the test
and the orders: all threads have the same priority and the pass starts with a
fresh quantum of 20 ticks, far longer than the pass.

## 3. Runs

| run | module, configuration | what it shows |
|---|---|---|
| `melody` | `MCPlayMelody`, `PlayMelody.cfg` | hand-over, mutex discipline, silence at the end of a wait, refinement of `MelodyService`, a started melody ends and a woken waiter returns |
| `soundfile` | `MCPlaySoundFile`, `SoundFile.cfg` | buffers, semaphores, order of the blocks, silence at rest, with every option |
| `soundfile_slow` | `MCPlaySoundFile`, `SoundFileSlow.cfg` | two callers with stops, on a card that may fail or be late: the player comes back to rest or hangs in one of two places, and in no other |
| `config` | `MCConfigFlash`, `ConfigFlash.cfg` | saves, erases and power failures of one thread for ever, and where a log that fills its sector is read past it; the sector of every page |
| `queue` | `MCIrcomMessages`, `IrcomMessages.cfg` | with pushes anywhere, the ring implements `MessageQueue` up to the first that collides |
| `ircom` | `MCIrCom`, `IrCom.cfg` | what holds whatever is called and whenever, and what a call in the middle of a word leaves undone; words end; the checksum of every byte |
| `camera` | `MCSpiComm`, `SpiComm.cfg` | driver, buffers and waits of the camera, with interrupts and errors at any point |
| `imu` | `MCImu`, `Imu.cfg` | averages, with the thread inside the set-up of a call; the bus and its restarts, stops and starts |
| `proximity` | `MCProximity`, `Proximity.cfg` | the light of every measure, stops and calibrations |
| `drive` | `MCDrive`, `Drive.cfg` | motors obey the last order once the avoidance is off, and lose their current at rest |
| `soundfile_odd` | `MCPlaySoundFile`, `SoundFileOdd.cfg` | violation: an odd first block is handed to the DAC as it is |
| `proximity_rate` | `MCProximity`, `ProximityRate.cfg` | violation: a fast start after a slow one stays slow |

### Bounds, and why they are enough

- *Players*: two callers, so that one can act between two steps of the other
  while the thread acts too; two melodies, of two notes (one a rest) and of one
  note. Files of three blocks, the last one short, of one short block with an
  odd number of samples, and of exactly two blocks: a
  block that is first, in the middle and last, a file whose first block is
  the last, and one that ends with an empty read. `soundfile_slow` has the first
  of them.
- *Parameter store*: contents of two and of four words, a sector of 15 words.
  Two or three blocks leave five words, too few for the longer content; three,
  too few for any data; and one or none, which is where the next header is
  looked for past the end of the sector. One thread saves in `config`; two do in
  `ConfigFlashTwo.cfg`.
- *Link*: windows of two samples, words of one bit between two start bits and
  two bits of checksum, one emitter with its pair of sensors, a queue of one
  message. Bits longer than two switches and more emitters repeat the same
  states: a measure goes from couple to couple by itself, and a word uses its
  emitters alike. A mark takes two switches and a space one, which keeps the
  parity of the code's 10 and 5, on which the state of the emitters at the end
  of a bit depends.
- *Queue*: capacity three, two contents: begin and end wrap around at different
  times, and a full ring is overwritten several times.
- *Words and sectors* (`PushedAsSent`, `EraseTakesItsSector`): all 256 bytes with
  each single wrong bit; every page of 4 KB of the megabyte of flash of the
  robot. They are looked at where a word ends and where the sector is erased.
- *Camera*: one thread beside that of the SPI link, because two break the
  suspension (section 5); both modes, and an error of the driver at any point.
- *IMU*: one caller, one sensor (the other has the same code and its own
  variables), two axes, so that there is a wrong one and a calibration has a
  next one; filters of two samples, and of none until the first call has set its
  size, with a count that wraps around at three; two attempts for each read of
  the IMU, one for the ground sensors.
- *Proximity*: the four couples of the robot; three samples for a calibration.
- *Drive*: two motors; speeds of both signs, one beyond the limit, one at rest,
  one slow enough for the power save; an obstacle that turns a motor round.

No other counter is bounded: all state spaces are finite as they are. Deadlock
is not checked for the two players, which stop in the situations of section 5,
nor for the camera, which stops when an assertion fails: the liveness properties
say where they must not.

### Fairness

- *Players*: weak fairness of the thread and, for sound files, of the DAC
  interrupt; strong fairness of each caller's steps, because threads of equal
  priority are rotated and a ChibiOS mutex is handed to its waiters in turn.
  Nothing forces a caller to make a call.
- *Parameter store*: weak fairness of a save that has begun; the power may fail
  at any time or never.
- *Link*: weak fairness of the periodic timer; strong fairness of the thread's
  calls that have begun, which run between two interrupts of it. The ADC
  converts all the time, but a measure of proximity and the sampling of windows
  exclude each other: each is strongly fair, because measures are five a second
  and far shorter than that. The sampling is fair outside the two instructions
  between the test and the reset of `ircom_is_array_filled`: the interrupt
  cannot come always there.
- *Camera*: weak fairness of both threads where they have begun something, and
  of the interrupts of a frame, which goes on whatever the threads do.
- *IMU*: weak fairness of the threads and of a call that has begun; strong
  fairness of the steps on the bus, because its mutex is a queue.
- *Proximity*: weak fairness of the timer, of the thread and of a call.
- *Drive*: weak fairness of each timer and of a pass of the avoidance that has
  begun; strong fairness of a call, which a pass delays again and again.

## 4. Proofs

`PlayMelody_proofs`, for any callers, melodies and lengths:
`TypeCorrect`, `HandoverTheorem`, `MutexTheorem` (`Spec => []...`) and
`SilentTheorem` (`Spec => SilentWhenWaitEnds`, an action property). None of the
invariants is inductive alone. `Inv` joins them with
- `OrderInv`: what a caller is doing agrees with the call it makes; without it
  the prover cannot know that a caller at `resume` has a track to hand over,
- `SilentInv`: the speaker sounds only during a note.

`Inv` holds initially (`InitInv`) and is kept by the entry of a call
(`EnterInv`), each step of a caller (`CallerInv`, which uses `GotoLemma`: a step
changes `pc` and `order` of one caller only) and each step of the thread
(`PlayerInv`). `SilentTheorem` follows: the speaker sounds only at `note`, where
the reference is NULL and no broadcast is made, and a wait can end in no other
way (`WaitLemma`). `ServiceTheorem` is the refinement of `MelodyService`, with
the mapping that the run `melody` checks: the track of a call is pending until
the call returns (`ReturnLemma`), a resume that finds the player asleep begins
it, a call that returns otherwise is ignored (`IgnoreSimulation`), and the steps
of the thread are notes, ends and cuts of the service (`PlayerSimulation`).

`IrcomMessages_proofs`, for any capacity and messages, with pushes anywhere in a
pop or a flush: `RingTypeOK`, `RingConsistentTheorem`. That the indexes stay in
the array and the count neither wraps nor passes the capacity, which holds also
after a collision, needs `CountInv`: a pop decrements a count that is not zero.
`RingInv` is the inductive form of the consistency: it relates the three indexes
also while a pop has stored its beginning and not its count. `QueueTheorem` is the refinement of
`MessageQueue`. `View` reads a stretch of the ring, from any slot, as a
sequence; its lemmas say that dropping the first slot is `Tail`, that writing
behind the last is `Append`, and that writing over the oldest is both. A pop
takes effect where its count is stored (`PopSimulation`), its other steps change
nothing of the queue (`PopStutters`).

`Obstacle_proofs` has two parts. For the sensors, any number of couples and any
length of a calibration: `InvariantTheorem` and `MeasuresTheorem`. That emitters
and ADC agree cannot be shown from the light alone. `InStep` says that once a
sequence has ended the number of the pulse is that of the sample, wherever in
the period of the timer one looks; `CallsAgree` that the timer stands exactly
when the ADC does, without which a start could meet a pulse. `Remainder` is the
fact about `%` that the wrap-around needs.

For the motors, any number of them, any speeds, forces and constants of the
timers, with one user and passes that are not interrupted: `DriveTheorem`.
`WritingInv` is what makes `ObeysTheOrder` inductive: a call that writes a motor
has found the avoidance off, no pass is under way, and the parts behind it are
those of the order.

`SpiComm_proofs`, for any number of threads that take images, with interrupts
and errors at any point, if every image fits: `CameraTheorem`. `DriverInv` adds
that a frame is under way only in a capture, without which the end of a frame
could bring a stopped driver back; `ThreadInv` that a thread is on the condition
variable only where it waits. Three more theorems are about the images.
- `GivenTheorem`, still for any number of threads: `GivenIsLast`. Where the last
  image is depends on the half of the frame, on
  the flag `half_transfer_complete` and on the state of the driver. `DoubleInv`
  says that the DMA last left it wherever `dcmi_get_last_image_ptr` looks, a stop
  that times out included, which leaves the flag set; `TakeInv` that what a
  thread has read of the DMA is still so at each of the steps up to the return
  of the address, unless it has `raced`.
- `ShotTheorem` (`OneCaptureAtATime`) and `HeldTheorem` (`KeepsHeld`), for
  threads that take turns: `Alone` says that a thread begins a call only when no
  other is in the middle of one. Nothing in the code keeps two callers apart
  (section 5), so the users have to; with one thread, as in the run, `Alone`
  holds by itself. `TurnInv` says that the flag of the suspension is that of the
  one thread in a call, and that the thread of the SPI link does not get to its
  own capture meanwhile; `ShotInv` that a single shot has a thread that waits
  for it; `HoldInv` that a thread that has an image is the only one to have
  marked its buffer.

`Imu_proofs`, for any callers, sensors, axes, sizes and numbers of attempts, where
`imu_start` does not meet a restart: `BusTheorem`. `BusInv` adds that the driver
is active in a transfer and stopped in a restart. `ImuTheorem` adds the types
(`ImuInv`), wherever the thread runs inside a request: that the number of samples
stays a `uint8_t` is by its arithmetic modulo `Range` (`FilterLemma`).
`AverageTheorem`, for one caller: `ReturnsItsAverage`. `PollInv` says that the
filter of a call that is not `raced` works for the caller that polls it, or has
its average ready; that what it has counted so far is of the axis asked for and,
if no read was missed, as many as its samples. `CountsLemma` carries that through
one pass of the thread.

`IrCom_proofs`, for any window, word, emitters, capacity and lengths of the bits,
whatever is called and whenever: `LinkTypeOK`, `DeafTheorem`, `DarkTheorem`,
`MeasuresTheorem` and `ResumesTheorem`. What a call in the middle of a word leaves
undone is in `cut`, and the theorems say that nothing else is. `DarkInv` is what
makes `SamplesInTheDark` inductive: while the ADC may convert, no emitter is on but
that of the measure whose reflection is awaited; it holds in a word only because
the ADC is off then (`AdcInv`), and that because the state machine is paused
until it is (`PauseInv`). `MeasureInv` and `ListenInv` say the two other
properties at every moment, not only between calls.

`PlaySoundFile_proofs`, for any callers, files and (even) size of the buffers:
`FileTypeOK`, whatever the card does, and, with a card that neither fails nor is
late, `AtRestTheorem`, `FillsTheorem` and `WholeFileTheorem`. `PlaysInv` follows
the two buffers: the DAC has come to the block the thread filled last
(`Caught`), or reads the block before it, which was full (`Ahead`). `TokenInv`
says where the two semaphores can be set, so that none is left at the end: the
DAC stops by itself only where the thread waits. A player that hangs, after a
stop or a file of whole buffers, is within the theorems: it does not rest.
`WholeFileTheorem` is about the numbers of samples too: the first block is
handed over as it was read (`FirstPlay`), a later one less an odd last sample
(`NextPlay`). `ReadLemma` is the arithmetic: a read that is not full, or the
full one before an empty one, is that of the last block.

`ConfigFlash_proofs`, for any contents, any length of the sector and power
failures at any step, with one thread that saves (`OneStore`; two write into the
same block, section 5) and passes the length of the sector: `StoreTypeTheorem`,
`AppendTheorem`, `SavedTheorem`, `IntactTheorem` and `SectorTheorem`: no access
leaves the sector but the one that looks for the header behind a log that ends
on the last word of the sector or at its end. The argument is about one flash
`f` at a time. A walk is a recursive function of the address; that it exists
(`WalkExists`), where it ends (`Ends`, `LastIsValid`) and that it does not
depend on what lies behind (`WalkOn`) are inductions from the end of the sector
down, stated about sets of addresses (`Downward`), because the prover takes no
induction over formulas. `LogInv(f)` holds whatever was interrupted: header
words are programmed in their order, none behind the end of the log, and a
header whose three words can be read is that of a block of the log. With it a
word that is programmed or torn at the end of the log leaves the log as it was
(`WriteKeeps`, `TearKeeps`), also where the header of an interrupted save is
written over, which is the delicate case: the old words are still there, and a
word is never in a cell both torn and whole (`CrcInv`), so that programming it
again completes no header of before. The last word of a header adds the block
or, over another header, nothing (`HeaderEnds`). `CleanInv` says more as long as
no save was interrupted: the flash behind the log is blank but for the words of
the save under way (`Progress`), and each checksum is that of a content.
`SectorTheorem` follows from where the log can end (`EndInSector`). For the
flash driver, `FirstBank`: every address of the bank is in the sector computed
for it, byte by byte, where the run looks at pages.

Assumptions are those named `...Assumption` beside the constants, and
`~Preempts` and one user (drive), one caller (the average of
the IMU), `~Oversize` and, for two of the theorems, `Alone` (camera),
`~Overlaps` (bus), `~CardFails` and `~CardSlow` (sound files), `OneStore`
(store). Each is the value that the configuration of the run has, and section 5
names what happens without it, but for `CardSlow`: the DAC then comes back to a
block before the next one is read. The other theorems assume nothing of the
schedule; where a race of the code breaks a property, the theorem and the run say
it of what has not met that race, by the history variables `raced`, `missed` and
`cut`, and the same formula without the exception is in section 5.

Only model-checked: liveness (fairness and `ENABLED` are outside the prover);
the checksum, a fold over the bits of a word, and with it `PushedAsSent`;
`EraseTakesItsSector`, of which `FirstBank` is the part about addresses.

## 5. What the models showed

Two disagreements between the code and a comment are runs (`proximity_rate`,
`soundfile_odd`; `PROJECT.json` quotes the lines). The others that were met
while modelling are below; the property of each is in its module, marked "Does
not hold" where no run uses it. "Shown by" names a configuration, or a change to
one: "X with C = v" is `X.cfg` with that value of a constant, "X + P" is `X.cfg`
with the property or invariant P added.

| what | where | shown by |
|---|---|---|
| a wake-up is lost: the melody ends between the test of the reference and the wait | `audio/play_melody.c:820` | `PlayMelodyWait.cfg` |
| after a stop of a sound file the player waits for an interrupt that no longer comes; so it does, with no stop, when the file of one caller ends, and clears `play`, after another caller has set it and before that one wakes the player | `audio/play_sound_file.c:230` | `SoundFileStop.cfg`; `SoundFileSlow` with `Options <- NoStops`, + `PlayerRests` |
| an odd number of samples of the first block is handed to the DAC | `audio/play_sound_file.c:187` | run `soundfile_odd` |
| the Aseba VM saves with a quarter of the length, and walks past the end | `config_flash_storage.c:63`, `aseba_vm/skel_user.c:198` | `ConfigFlashQuarter.cfg` |
| a push inside a pop is not counted | `ircom/ircomMessages.c:70` | `IrcomMessages` + `AlwaysConsistent` |
| a melody of `WAIT_AND_CHANGE` or `FORCE_CHANGE` is dropped: the broadcast wakes the caller before the thread has set its reference again | `audio/play_melody.c:810`, `play_melody.h:137` | `PlayMelodyChange.cfg` |
| a call that waits, made before `playMelodyStart`, sleeps | `audio/play_melody.c:820`, `play_melody.h:153` | `PlayMelodyStart.cfg` |
| a `SIMPLE_PLAY` that loses the race for the player undoes a stop | `audio/play_melody.c:798`, `play_melody.h:135` | `PlayMelodyIgnored.cfg` |
| a file of a whole number of blocks waits for one change of buffer too many | `audio/play_sound_file.c:195` | `SoundFileFull.cfg` |
| a read error leaves the DAC playing | `audio/play_sound_file.c:166` | `SoundFileError.cfg` |
| an ignored order changes the frequency of the file that plays | `audio/play_sound_file.c:255`, `play_sound_file.h:28` | `SoundFileFreq.cfg` |
| after an interrupted save the next one programs over its data, and the checksum, computed from the flash, vouches for the mixture | `config_flash_storage.c:165` | `ConfigFlash` + `AlwaysIntact` |
| two threads save into the same free block | `config_flash_storage.c:61` | `ConfigFlashTwo.cfg` |
| a log that ends on the last word of the sector is read past it | `config_flash_storage.c:181` | `ConfigFlashFull.cfg` |
| for a second bank, which this part does not have, twelve is added to an offset that already counts the first | `flash/flash.c:41` | the definition in `FlashSector` |
| a word sent in the middle of a measure of proximity switches its emitter off | `ircom/ircomSend.c:206` | `IrCom` + `ReflectedIsLit` |
| a second `ircomSend` before the first word is over ends the listening | `ircom/ircomSend.c:45` | `IrCom` + `AlwaysResumes` |
| `ircomListen` or `ircomStopListening` while a word is sent drops it and leaves the ADC off | `ircom/ircomReceive.c:291`, `ircom/ircomReceive.c:329` | `IrCom` + `AlwaysHears` |
| `ircomListen` in the middle of a word, or a start bit detected inside `ircomStopListening`, leaves proximity disabled | `ircom/ircomReceive.c:291`, `ircom/ircomReceive.c:336` | `IrCom` + `AlwaysMeasures` |
| the error of a word is 0 to 3, not 0 or 1 | `ircom/ircomReceive.c:283`, `ircom.h:34` | `ErrorIsFlag` of `MCIrCom` |
| the next frame goes into the buffer that the user gets: an image released in the second half of a frame and taken again at its end | `camera/dcmi_camera.c:301` | `SpiComm` + `GivenIsAtRest` |
| the interrupt at half a frame comes between the look at `half_transfer_complete` and the return of the address: the image is not the last one, and may be filled while it is used | `camera/dcmi_camera.c:299` | `SpiComm` + `AlwaysHeld`; `SpiComm` + `AlwaysLast` |
| an image that is too big leaves `dcmi_prepared` set on a stopped driver, and the next call fails an assertion | `camera/dcmi_camera.c:190`, `ChibiOS_ext/os/hal/src/dcmi.c:121` | `SpiComm` with `Oversize = TRUE` |
| a frame that ends, or an error that comes, before the thread waits wakes nobody | `camera/dcmi_camera.c:221` | `SpiComm` + `AlwaysWoken` |
| a second caller of `spi_comm_suspend` does not wait: two captures meet | `spi_comm.c:234` | `SpiComm` with `Clients <- TwoClients` |
| a stream runs while the SPI transfers | `spi_comm.c:104` | `SpiComm` + `DcmiSpiApart` |
| a filtered read resets the offset that a calibration has set | `sensors/imu.c:195`, `imu.h:86` | `Imu` + `CalibrationStays` |
| the thread runs after the flag and before the axis and the size | `sensors/imu.c:454` | `Imu` + `ReturnsOwnAxis` |
| a read that failed adds the value before it once more to the average | `sensors/imu.c:202`, `imu.h:74` | `Imu` + `ReturnsAllNew` |
| two callers share one filter | `sensors/imu.c:454` | `Imu` with `Callers <- TwoCallers` |
| `imu_start` starts the bus without its mutex while another thread restarts it | `sensors/imu.c:327` | `Imu` with `Overlaps = TRUE` |
| a calibration asked for when the sensors are stopped never ends | `sensors/proximity.c:369`, `epuck1x/Asercom2.c:494` | `Proximity` with `CalibratesStopped = TRUE` |
| a pass that tested before the avoidance was switched off overrides the order that came after | `behaviors.c:98` | `Drive` with `Preempts = TRUE` |
| two users leave a motor with the direction of one and the period of the other | `motors.c:315` | `Drive` with `Users <- TwoUsers` |

Where a constant of the configurations selects one of these situations, the
passing run leaves it out: `CardFails` and `CardSlow` (`soundfile`),
`Savers` and `DstLen` (store), `Clients` and `Oversize` (camera), `Callers` and `Overlaps`
(IMU), `CalibratesStopped` (proximity), `Users` and `Preempts` (drive). The other
situations are in the behaviours of the passing runs, and the properties name
them as exceptions: `RestsOrHangs`, `StaysInSector` and `SaveReturns`, `dirty`
(store), `raced` (queue, camera, IMU), `missed` (camera, IMU), `cut` (link), and
the order that is ignored in `MelodyService`.

Seen in reading and not modelled: the avoidance starts with the speeds that were
ordered when it was last on (`behaviors.c:22`); the wait inside
`dcmi_get_last_image_ptr` does not look at what it returns
(`camera/dcmi_camera.c:323`); the capture of the shell waits for ever on a
camera that was not prepared (`cmd.c:912`); the selector stops the bus without
its mutex (`main.c:556`); a choice of `NB_SONGS` is neither a song nor refused
(`audio/play_melody.c:786`); the ground sensors are published whatever the read
returned (`sensors/ground.c:39`).

## 6. Plan

Done: the two players, the parameter store, the infrared link with its queue and
words, the camera with the SPI link, the IMU and the ground sensors on their
bus, the proximity sensors, the motors with the obstacle avoidance; the
inductive invariants of both players, the store, the queue, the link, the
proximity sensors, the motors, the camera, the IMU and the bus; the refinements
of `MelodyService` and of `MessageQueue`.

Next:
1. Both players on one DAC; the link composed with its queue.
2. `AsebaCan`: the transmit lock, timeouts, frames in and out.
3. The dispatcher of `communication.c` and the RC5 decoder, as functions.
4. The calibration of the link; `ground_start`, `ground_stop` and the stop of the
   bus by the selector.
5. Proofs: that several threads that save under a lock of their own keep what
   one thread keeps; the checksum of a word, with the induction that the walks
   of the log use.

### Not modelled

Register tables of the camera sensors and of the IMU chips, signal processing of
the microphones, the vendor interface of the distance sensor, the shell's text,
the compatibility wrappers and the start-up code hold no concurrent state of
their own. Most of the lines of the repository (`ChibiOS_ext/ext`) are the
vendored DSP library, with its tables of constants and examples, and the FatFs
with its code pages; they are not this program, and the lines the models stand
for are a small share of the whole for that reason. The Aseba virtual machine and
the ChibiOS kernel are submodules that are not there. `epuck1x/utility` and
its neighbours rename calls of the components above.
