# A verification of planepower

This directory specifies parts of the software of the carousel for tethered
aeroplanes in TLA+, model-checks the specifications with TLC and proves theorems
about them with TLAPS. Paths are relative to the repository.

It is written to be read beside the code. A module carries the names of the code
where TLA+ allows it, one action stands for one handler, hook or statement, and
`PROJECT.json` maps each definition to its lines.

## 1. The system

A carousel turns an arm; a plane flies on a line at its end. The software runs on
five kinds of machine.

| Part | Where | State it keeps | Interacts with |
|---|---|---|---|
| Control board firmware | `src/stellaris_mcu_board/mcu_sw` | receive ring, connection pointer, stream flags, IMU double buffer, servo pulses | telnet commands from McuHandler or simple_client; IMU interrupt; SysTick |
| McuHandler | `src/components/carousel1/mcuHandler` | socket, expected byte count, surface references, counts of deadlines missed and checksums wrong | the board (TCP); controllers (ports); RTT's life cycle |
| BeagleBone programs | `src/bbones/{planebone,armbone,trailerbone,server}` | message structs in two halves, ping-pong log buffers, UART frames | the Lisa autopilot (UART); each other (UDP); the carousel2 components |
| Carousel control chain | `src/components/carousel2`, `src/lua/carousel2` | set points, integrators, ramp state, last drive sample | Siemens drives (UDP); each other (ports); the Lua scripts |
| Estimation and prediction | `src/components/main/{DynamicMhe,DynamicMpc}` | horizon buffers, run and failure counters | sensors, LED tracker, McuHandler |
| Cameras and triggers | `src/components/main/{LEDTracker,masterTimer,cameraTrigger}` | frames, marker positions, trigger times | the estimators |
| Winch and carousel1 sensors | `src/components/carousel1/{winchControl,encoder,lineAngleSensor,voltageController}` | CANopen state machine of the drive, encoder counts | serial, CAN and EtherCAT |
| Simulators, filters, identification, plots | `src/components/carousel2/*Simulator`, `src/carousel_identification`, `src/cletus_vis` | continuous states | nothing that runs during a flight |

Third-party and generated code (lwIP, StellarisWare, SOEM, qpOASES, exported
solvers) is not modelled. Where the code relies on it, its behaviour is an
external definition.

### What is hard in each part, and what makes it correct

* **Control board.** Everything happens in interrupt handlers of three
  priorities, and the Ethernet handler, which does the most, has the lowest. Bytes
  arrive in segments cut anywhere, the ring has no test for room, the handlers
  share a global connection pointer that closing, failing, timing out, accepting
  and upgrading all change. Correct: no byte is lost or overwritten and packets
  are found independently of the cuts, a reply goes to its sender, a sensor reply
  is one sample, an idle connection is reset, the interrupt returns.
* **McuHandler.** `exception()` runs `stopHook` inside the hook that failed and
  returns to it, so that a socket may be closed, and the expected byte count
  changed, in the middle of an exchange. Correct: surfaces are neutral after every
  stop, board and host agree, a sample belongs to its trigger, hooks return.
* **Logs of the planebone.** Two threads, two buffers, two pointers and a flag,
  no lock. Correct: no read of an empty buffer, no overwrite, each message
  accounted for, the log in order.
* **Ramps.** Generator, script and drive run on their own; commands and samples
  are lost or late; the script recognises the end of a ramp by a text. Correct: no
  command beyond the soft limit, towards the target, without a jump, and the
  script goes on, when the ramp has reached its goal.
* **Message decoding.** A writer and a reader half per message and an explicit
  exchange; the order of exchange and fetch differs between programs, error packets
  are longer than the arrays they are received in, and failed receives are decoded
  like the others. Correct: the halves hold the last two messages, and how old a
  published value can be is known.
* **UART framing.** Start byte, length, two running checksums, a flush after each
  error, and a time stamp put in where the checksums were. Correct: frames are
  delivered whole, in order, at most once or not at all; the reader finds back to
  the beginning of a frame; what is sent on can be decoded.
* **Estimator and controller.** Measurements come up to a horizon late and are put
  into a window that is shifted, or not shifted when an update fails; two
  components start and stop each other by way of a port. Correct: a measurement
  with a weight stands beside the others of its instant; the controls are neutral
  unless the controller has solved its problem.
* **The carousel's drive in open loop.** Two generators, each with a connection of
  its own to the port `controls`, the actuators, the sensors and a script, all in
  threads of their own, hand the drive over to each other. Correct: the drive is
  never told to jump unless somebody asks for it, a speed set by hand is the last
  word, a ramp ends.
* **Closed-loop speed controllers, cameras and timers, winch** (not modelled, see
  section 6). Integrators kept over stop and start, trigger and answer in
  different threads, the states of the CANopen machine.

Every such hazard is in `PROJECT.json` at its line, with the properties that
would catch it or the reason why none does.

## 2. The modules

| Module | Models | Role |
|---|---|---|
| `CircularBuffer` | `bbones/shared/circular_buffer.c` | operators, one per statement of cbWrite and cbRead |
| `DroppingQueue` | the comment above `cbWrite` | abstract first-in first-out queue that drops its oldest element |
| `CircularQueue` | one buffer used by one thread | shown to implement `DroppingQueue` |
| `PingPongLog` | the log threads of `bbones/planebone/main_plane.c` | composes two buffers with the two threads |
| `ReceiveRing` | `UIEthernetReceive`, `UIEthernetScanReceive` | bytes of commands |
| `ControlBoard` | the rest of `ui_ethernet.c`, `imu.c`, `rcservo.c` | connection, interrupts, effect of the commands |
| `McuHandler` | `mcuHandler.cpp` | host side of the control board |
| `SpeedRamp` | `rampGenerator.cpp`, two functions of `experiment_helpers.lua` | generator, script and drive |
| `DataDecoding` | `bbones/shared/data_decoding.c`: the two halves | operators, one per function |
| `Receivers` | `bbones/server`, `lineAngleSensor2`, `armboneLisaSensors` | four programs with their senders, the socket's buffer and the array received into |
| `LossyLine` | what the serial line promises | abstract channel of whole frames |
| `UartFraming` | `serial_input_get_lisa_data`, `add_timestamp`, `strip_timestamp` | shown to implement `LossyLine` |
| `Estimator` | `DynamicMhe.cpp`, `DynamicMpc.cpp` without numerics | composes estimator and controller |
| `CarouselDrive` | `functionGenerator`, `rampGenerator`, `siemensActuators`, `siemensDrives`, `siemensSensors`, `experiment_helpers.lua` | composes generators, actuators, sensors and script |
| `MC*` | | values of the constants for TLC |
| `*_proofs` | | theorems about the module before the underscore; `ByteStreams_proofs` is about `ReceiveRing` and `UartFraming`, which need the same lemmas on sequences and induction |

An operator whose comment begins with "Fault:" is not part of any specification.
It is the plausible slip of the definition that follows it, and `PROJECT.json`
names the property that detects it; each property has at least one.

### CircularBuffer, CircularQueue, DroppingQueue

`cb` is the struct: `size`, `start`, `end` and `elems`, with one slot always open.
`Write(e)` and `Read` are `cbWrite` and, behind the caller's `cbIsEmpty`, `cbRead`.
The refinement mapping is `cbContents(cb)`, the elements from `start` to `end`.

### PingPongLog

The step is one access to shared data, in program order, which is what threads on
the BeagleBone's single core can show. `wpc` and `rpc` are the places the
communication thread and the logging thread have reached. The argument of `cbRead`
is evaluated at the call (`CallRead`) and used after it (`CopyElem`,
`AdvanceStart`), while the pointer may change. `LISA` selects the direction: `lisa`
ends the program when the buffer is full and the logging thread busy,
`groundstation` drops the message. Messages are numbered by arrival, so that loss,
repetition and order are visible. Left out: sockets, the UART, the error handlers.

`PROMPT` states the timing assumption that the code makes silently: the logging
thread has raised its flag, or drained its buffer, before the other buffer (16384
messages) holds its last free slot. Runs say whether they use it.

### ReceiveRing

The steps are one byte copied (`CopyByte`), one turn of the scanning loop (`Skip`,
`HandlePacket`, `StopScan`), and the changes of connection. `Pbufs` cuts a segment
into lwIP's chain. `PucData` models that the code reads all of it through the
first payload's pointer (`ui_ethernet.c:1546`): of a longer segment, the first payload
is copied again, and beyond its end any byte. So the cuts do matter for segments longer
than the first pbuf, and only for those: `passed` is what was received, `fitted`
says that no segment has been longer, and `CutsDoNotMatter` is claimed while it is so.
`written`, `taken`, `handled` and `before` are history too.
`Consumed` models the overwriting of `ucSize` by CMD_GET_PARAM_DESC, after which
the scan resumes inside the packet. `Parse` is the reference: what one pass over all
bytes would find, written from the packet format of the file's comment and not from
the loop. `NoTagInRequest` says of the protocol's numbers that the scan finds no
packet where it resumes. It holds of the firmware's (tag 0xff; size 5, command 0x11,
parameter 0; a tag in place of the checksum makes the sum 20), and TLC evaluates it
for the run's (`NumbersHideNoTag`).

### ControlBoard

A handler that nothing using its data can pre-empt is one action. The Ethernet
handler alone is not, and has a control state `eth`: between its steps
`IMUIntHandler` and `UIEthernetSendRealTimeData` (SysTick) may run. The commands of
a segment are the sequence `pending`. Commands that only answer are represented by
three; the hooks of the application behind them are empty in `planepower.c`. lwIP
is modelled by the connections it calls back for and by unacknowledged data.
`queued`, `latest` and `out` are history. A second CMD_UPGRADE in one segment uses the
control block that the first has cleared; the processor faults and the handler, in
the model, goes no further.

`MaxPreempt = 1` bounds the IMU interrupts during one sensor reply. The sensor
samples at 819 Hz, every 1.2 ms, and a reply is a few dozen copies at 50 MHz; two
interrupts would rewrite the buffer being copied, and `SensorReplyWhole` would
fail. `Versions` lets samples be compared and is larger than what can be confused.

### McuHandler

`stack` holds the hooks in progress, so that `exception()` is a push of `stopHook`
and its return a pop into the interrupted exchange. A step is one system call or
the code between two. `SPLIT` and `BREAKS` allow replies in pieces and broken
connections. The three surfaces are handled alike and are one; `Ts` is 1. The
controls port is written only while the component runs, as the controllers do,
which are started after it.

### SpeedRamp

`Update` is `updateHook` as a whole: reading the drive, choosing the set point
(`Regulate`), counting retries (`Retrys`), aborting, writing the text (`Publish`)
and the command. `Refuse` is its first branch. `info` is the state in which the
text on the port was written, as every state but 1 has one text.
`ramp_with`, `SeeGoal` and `wait_till_ramp_is_done` are the script: it sets the
properties and starts the generator, reads the text, and stops the generator,
which may have run in between. `Apply` and `Follow` are the drive: a command that
is overtaken by the next is lost, one that is not is late, and a drive that takes
no step of `Follow` is stuck. Speeds are integers; `stepheight` stands for
`dt * acceleration`. Stopping the controllers before a ramp is left out: no other
component commands the drive during one.

### DataDecoding, Receivers

A decoder has two halves, `ping` and `pong`, each with a field per message. A
stream is the content of the array received into, reduced to what `data_decode`
tells apart: start byte, checksums, sender, kind, and `n`, which of the packets it
is. `Receptions` is what `recvfrom` may do: fail and leave the array as it was, or
return the next packet, cut to the array's size, in which case the checksums are
compared with the memory behind the array and may agree or not. `ErrorPacket` is
the whole array of 255 bytes that `sendError` sends. No receive times out: the
timeout that `openUDPSocket` sets has too many microseconds and is refused.

`ServerLoop` is a round of `main_server.c` or `main_line_angle.c`, `updateHook` and
`startHook` with `read` are those of the components. The difference between them is
one line: a server calls `get_read_pointer` after `switch_read_write`
(`ReadByServer`), a component before (`ReadByComponent`). `main_server` takes packets
of 30 bytes only (`RightLength`), which leaves out the gyroscope's messages. Both
servers exit at a message that they cannot decode (`TaskAfter`).

### UartFraming, LossyLine

`ReadStart`, `ReadLength` and `ReadMessage` are the three reads of
`serial_input_get_lisa_data`; each error flushes the line. Bytes are lost, changed or
invented anywhere, also inside a frame, and a read may fail once it has bytes enough.
Two sums do not detect every such fault: with `Base = 16`, an invented byte can make of
a frame the bytes 9, 7, 12, 9, 6, 2, 8, which the reader returns although nobody sent
them. `LossyLine` therefore does not promise that only sent frames arrive. After a
disturbance what arrives is a `Guess`; but a frame sent undisturbed when reader and line
were idle, or behind such a frame, is owed, and while frames are owed the next one
returned is the first of them. The refinement mapping takes `waiting` for the frames
owed, and `~aligned` for `disturbed`. `Base` is 16 so that bytes of a length, a start byte
and a sum collide.

### Estimator

A measurement is its age in sampling periods; position `k` of the window is row `k`
of `y` and `W`, `N` is `yN` and `WN`. `MheUpdate` is `updateHook` as a whole while the
window fills (`Fill`) and when it is full (`Embed`, the solver, `Shift`), `MheSkip` the
round that lacks a measurement, `MheOverrun` a trigger that comes while the last
round still runs, for which the code has no check. After too many failures `stop()`
is called and the round goes on with the measurements of an earlier period, as in
the code; `numOfFailures` is never reset by a success. `MpcUpdate` is the controller's
`updateHook`; its numerics are the choice of `status` and `late`. `Grace` stands for
the 5 rounds in which lateness is forgiven. The flag of the first sample on the port
`stateEstimate` is not initialised and is chosen in `Init`.

Assumed: a picture is at least one period old (a picture without delay would be
written behind the last row of `y`, line 211), and no delay exceeds the horizon.

### CarouselDrive

A port with two writers has two connections that hold one sample each (`chan`); a
reader looks at the one it read last and, if there is nothing new, at the other
(`ReadFrom`). `updateHook` is that of `SiemensActuators` with the clipping, sending and
remembering of `SiemensSender` (`Send`), where a command may fail or get lost.
`FunctionUpdate` and `RampUpdate` are the generators; retries and a drive that is
stuck are in `SpeedRamp`, here the drive's speed is its setpoint. A function of
`experiment_helpers.lua` is a sequence of instructions in `todo`, done one at a time
with everything else in between; the sine's properties are set in one step, as the
generator that reads them is stopped, or the call asks for a jump. `StopComponent`
resets `begun` at once, which the code does when the generator starts again; nothing reads it in between.
The winch is left out, its soft limit being zero, but its operation, which resends
the carousel's command, is there (`setWinchSpeed`).

`PROMPT` is the timing assumption about the generators: the actuators, which events
trigger, and the drive's report are quicker than a generator's period. Nothing is assumed
of the script, neither of its `sleep` nor of what it reads:
`sin_around_current_setpoint` takes its offset from the last report right behind a ramp's
last command, or a winch operation, and the report may be older than either. `Reach`
is what remains of "avoid jumps" then: the width of the sine, and its amplitude more once a command
was lost or not sent. `smooth` is the history of what `NoJump` leaves out: a speed
set by hand, a sine begun while another one runs, and a winch operation before anything
was sent, until everything is quiet again. The last two are jumps that the
repository says do not happen (`AvoidsJumps`, section 4).

`NoJump` needs `MaxFaults <= 1`. With two faults TLC finds a jump of 4 where 3 is allowed:
the last command of a sine is lost; while a sample of a ramp waits, a winch operation
repeats that command, so that the sample takes the drive three steps instead of one; a
sine begins around the report from before, its zero is lost, and its next command comes
from the other side. What is remembered is the last command sent, not the last that
arrived.

## 3. The runs

| Run | Properties | What it shows |
|---|---|---|
| `CircularQueue` | `ImplementsQueue` | the buffer implements the queue, for every wrap-around |
| `LogRaces` | `ReadNonEmpty`, `NeverOverwrites`, `EveryMessageOnce` | groundstation direction, no timing assumption: no interleaving corrupts the buffers, and each message is in exactly one place |
| `LogLisa` | `LogInOrder`, `OneLossPerBuffer`, `SwappedIsLogged` | lisa direction with `PROMPT`: order, bounded loss, and what a swap hands over reaches the file |
| `RingScan` | `RoomToCopy`, `RingHoldsUnread`, `CutsDoNotMatter`, `ReceiveReturns` | no overflow, no lost byte and a return, however the bytes are cut; the same packets as one pass over the bytes received while segments fit their first pbuf |
| `BoardISR` | `TypeOK`, `OneConnection`, `RepliesToTheSender`, `SensorReplyWhole`, `StreamHandshake`, `StreamPacketStable`, `IdleIsReset` | interrupts between any two steps of the Ethernet handler, two connections; servo pulses stay in range (part of `TypeOK`) |
| `McuUpdate` | `TypeOK`, `NeutralWhenStopped`, `ServoHoldsControls`, `OneExchange`, `FreshSample`, `HookReturns` | replies in pieces, connections that break at any point |
| `McuErrorHook` | `ErrorHook` violated | section 4 |
| `Ramp` | `WithinSoftLimit`, `TowardsTarget`, `NoJump`, `RampEnds` | every sequence of ramps with commands and samples lost or late, and aborts |
| `Receivers` | `LastTwoKept`, `OneBehind` | packets lost, dropped, cut, failed receives, restarts: the halves hold the last two messages accepted, and a line angle is one packet late (behind an error packet it is older) |
| `Uart` | `UartTypeOK`, `StampedIsDecodable`, `ImplementsLossyLine`, `CleanFramesArrive` | one fault anywhere in or between three frames: frames that are owed arrive whole, once, in order and before whatever is made of the others, and they do arrive |
| `Estimator` | `LateAreAligned`, `NeutralUnlessReady`, `FailureNeutralises` | late measurements of every age, lost and failed periods, restarts of both components |
| `CarouselDrive` | `LastWordHolds`, `NoJump`, `RampEnds` | sines, ramps, winch operations and speeds set by hand in every order, with sines begun from old reports, one command lost or not sent |

The type invariants of `BoardISR`, `McuUpdate` and `Uart` are proved too (section 5); the
other runs leave theirs to the proofs.

### Bounds, and why they are enough

* `CircularQueue`: capacity 3, three values. Indices wrap around, and full and
  empty occur at every index. The theorems cover every capacity.
* `LogRaces`, `LogLisa`: capacity 2 and `MaxMessages = 10`: more than three times
  what both buffers hold, so that each is filled, swapped, drained and swapped
  again. `CHECK_DEADLOCK FALSE` in `LogLisa`, where the program may exit.
* `RingScan`: a ring of 6 bytes of 8 values, so that the longest packet (5) and the
  tag, length, command and checksum bytes collide in value. `Conversations` joins
  two of five parts (a packet with a tag inside, the request that overwrites
  `ucSize`, noise, a cut packet, a length out of range) over two connections, cut
  into segments in every way. The first pbuf of a segment has 4 bytes, a further one 5,
  so that there are segments that fit, segments whose second pbuf is read within the
  first payload, and segments whose second pbuf is read beyond it. Deadlock is not checked because a
  host may have said everything.
* `BoardISR`: two connections, a timeout of 2 polls, references at both ends of
  Q15, one command per segment and an upgrade with a command behind it.
* `McuUpdate`: a surface of travel 2, positions inside and beyond it, derivatives
  that pass its end in two samples. The component may be stopped, configured and
  started again without limit; the state space is finite as it is.
* `Ramp`: limit 5, threshold 2, 2 retries; ramps to both ends, to rest and beyond
  the limit, with steps that do and do not divide the way. In the code the
  numbers are 3.1415 rad/s, 0.05 rad/s and 10 retries; the theorems hold for all.
* `Receivers`: four packets, three of which the socket's buffer holds: both halves are
  written twice, and an error packet may come first, last or in between. Deadlock is
  not checked: a server waits for packets for ever.
* `Uart`: three numbered frames, of a body that looks like any other and one that looks
  like the beginning of a frame; one fault. After it there is a frame to find
  back to, and one behind that.
* `Estimator`: a horizon of two, so that a cable length is late by none, one or two
  periods, a picture by one or two; one overrun, so that a trigger is lost at every
  point; skipped rounds are bounded by the code's own limit of failures. `Grace` is 1.
* `CarouselDrive`: a limit of 3, a sine of amplitude 1 and a drive found at the limit, with
  ramps to rest and to the limit: several steps of a ramp fit into what a sine may
  jump, and a jump over the whole range does not.

### Fairness

* `PingPongLog`: both threads are scheduled; messages need not come.
* `ReceiveRing`, `ControlBoard`: a handler that has begun goes on; lwIP polls an
  open connection again and again (strong fairness of the poll, because a handler
  may be running when the timer fires).
* `McuHandler`: the component's thread runs, and the board answers a request.
* `SpeedRamp`: the generator is periodic and the script loops (weak fairness of
  `Update`, `SeeGoal`, `wait_till_ramp_is_done`); samples keep coming (`Update(TRUE)`),
  not every command is lost (`Apply`), and the drive is enabled (`Follow`). Nothing
  is assumed of how these are timed against each other, so that retries and aborts
  occur in `RampEnds` too.
* `UartFraming`: the reader runs when it is not blocked, and the autopilot sends a
  frame to its end.
* `Estimator`: the controller's thread runs when it is triggered. Nothing is assumed of
  the estimator.
* `CarouselDrive`: generator, actuators, sensors and script go on. The script's waiting is
  for a text, so that its fairness does not presume an end. `RampEnds` needs running
  actuators: `set_carousel_speed` stops them and `ramp_with` does not start them, so
  that a ramp after a speed set by hand waits for ever.

## 4. What the code says of itself and does not do

One disagreement is a run, `McuErrorHook`: `mcuHandler.cpp:408` says "In case of ANY
error, it triggers the error hook.", but when the board has closed the connection
stopHook's own exchange receives for ever.

Eight more are stated as properties beside the others, each under the comment it is
taken from. TLC finds each violated when a configuration is changed as follows.

| Property | Module | What the repository says | What happens | Configuration |
|---|---|---|---|---|
| `StartsOver` | `MCReceiveRing` | `ui_ethernet.c:1672` "kill it and start over" | the ring is not emptied for a new connection, and the beginning of its first command may complete an old packet | `RingScan.cfg` with `MaxParts = 1`, `SPECIFICATION Spec` |
| `CopiesWhatCame` | `MCReceiveRing` | `ui_ethernet.c:1551` "Copy the next character into the receive buffer." | `pucData` is set once and not advanced with the chain: of a segment's further pbufs the first payload is copied, and what lies behind it | `RingScan.cfg` with `Spec` |
| `TransmitsOnConnection` | `ControlBoard` | `ui_ethernet.c:328` writes to the connection | the stream outlives its connection and is written with a null control block | `BoardISR.cfg` with `Batches <- MCStreamBatches`, `Spec` |
| `DeadlineAborts` | `McuHandler` | `mcuHandler.cpp:183` "In case we do not meet the deadline, abort." | the counter of missed deadlines is reset by the branch that counts, and never passes one | `McuErrorHook.cfg` with `BREAKS = FALSE`, `Spec` |
| `DoneMeansThere` | `SpeedRamp` | `rampGenerator.cpp:89` "Ramp goal achieved!" | an abort sets the target to zero and ramps on, so that a ramp that got stuck ends with the text of success; without `PATIENT`, the assumption that the script's sleep outlasts the first update, the text of the ramp before ends the next one at once | `Ramp.cfg` with `PATIENT = TRUE`, `Requests <- MCPossible`, `Spec` |
| `StampedIsNew` | `Receivers` | `lineAngleSensor2.cpp:42` "Do blocking wait for new line angle measurements here" | a failed receive is decoded like the others and the old angle is published with a new time stamp | `Receivers.cfg` |
| `AbortsWithMhe` | `Estimator` | `DynamicMpc.cpp` "Abort if MHE is not ready!" | an estimator that stops for too many failed measurements publishes one more estimate as ready; the controller, which runs on estimates, leaves its last controls on the port | `Estimator.cfg` with `N = 1`, `MaxOverruns = 0` |
| `AvoidsJumps` | `MCCarouselDrive` | `experiment_helpers.lua:164` "make sure the sin will start at currentspeed to avoid jumps" | the offset of a sine that runs is changed before the generator is stopped, and the old sine swings around the new offset | `CarouselDrive.cfg` with `InitSpeeds = {0}`, `HandSpeeds = {}`, `MaxFaults = 0`, `Spec` |
| `AvoidsJumps` | `MCCarouselDrive` | `siemens_communication.cpp:36` "we do NOT want to send a zero command at startup" | a winch command repeats the carousel's, which is zero until one has been sent: a drive left turning is told to stop at once | `CarouselDrive.cfg` with `HandSpeeds = {}`, `MaxFaults = 0`, `Spec` |

`StampedIsNew`, `AbortsWithMhe` and `AvoidsJumps` are `PROPERTY`s, the others `INVARIANT`s.

## 5. The proofs

The theorems hold for all values of the constants that satisfy the modules' named
assumptions, which say no more than the code: a buffer has a slot, a ring has at
least four bytes, a parameter has one to four bytes, a frame's length fits its length
byte, a limit is not negative, a step is positive, a horizon has a period, targets are
within the soft limit.

* **`PingPongLog_proofs`** has four parts.
  *The operators.* What each statement of `cbWrite` and `cbRead` does to types, count,
  indices and contents; the modulo of the wrap-around is met in `WrapAround` only.
  *One buffer, one thread.* `TestsAreExact`, and `Refinement`: the initial buffer maps
  to the empty queue, reading to removing the head (`ReadContents`), writing to
  appending (`AppendContents`) and, in a full buffer, dropping the oldest (`WriteFull`).
  *Two threads, whatever their timing.* `NeverReadsEmpty` and `WriteNeverOverwrites`.
  Neither is inductive: that the buffer being read is not empty depends on who may
  have emptied it. `LogInv` adds where the two pointers are during a swap
  (`PointersInv`, `SwapInv`), that the flag is up while the logging thread is between
  raising it and writing (`FlagInv`), and what the writer has established
  (`WriterInv`). The reading thread works on the writer's buffer only if the swap
  began before the flag was raised; then that buffer was full, or the writer has not
  passed its test yet. `NoneLostNoneTwice`: each step moves a message from one of the
  six places it can be in to another or none at all (`Moves`, `MovedOnce`). That
  `AdvanceStart` removes from the buffer what `CopyElem` has copied, several steps of
  the other thread later, is `HandInv`: the copy is still the oldest element.
  *A prompt logging thread* (`PROMPT`). `SwapIsClean` by `PromptInv`: once the writer's
  buffer is full, the other is drained or the flag is up, so that a swap finds it
  drained and nobody reading. `LogKeepsOrder` by `OrderInv`: what is logged came before
  what the reader holds, that before its buffer, that before the writer's; swapping the
  pointers keeps this because one of the buffers is empty. `LossesArePaid`, which is
  about lisa's direction (`LISA`), by `LossInv`: each loss has been paid for by a whole
  buffer written before, and what came since is in the buffer that fills.
* **`ByteStreams_proofs`** has a common part and one for each of the two readers.
  *Sequences and numbers.* The library's induction takes an operator, which no
  installed prover instantiates; here it is over a set of numbers (`SetInduction`,
  from `SmallestOf`, from the library's well-foundedness of `<`), and the set is what a
  proof chooses. With it the recursive functions of the sums and of the parser are
  shown to exist, and so to satisfy their equations.
  *The ring.* `AlwaysRoom` by `RoomInv`: outside the scan there is
  room. The step that matters is the end of a scan (`StopLeavesRoom`): it stops in a
  full ring only for want of bytes of a packet, and no packet is as long as the
  ring. `RingIsFaithful`: the bytes between the indices are those written and not yet
  taken; storing one (`CopyKeepsUnread`) and passing some (`AdvanceKeepsUnread`) are
  the two steps that disturb it. `CutsAreInvisible` is not inductive, as it speaks of the
  handler at rest only. `PassedInv` says that, while segments have fitted, what is copied
  is what was received, up to what is left of the segment being copied; a segment that
  does not fit ends this claim and not the two before. The invariant of the scan is about
  every step, and about what has not come yet: whatever bytes may follow, what is handled
  and what the parser will find from the scanner's place on are together what it finds
  from the beginning. That the scan may resume inside a packet is where the hypothesis
  `NoTagInRequest` is used.
  *The serial line.* `UartIInv` has the sender's part (`SentInv`), the reader's
  (`ReaderInv`), what was returned and sent on (`ArrivedInv`) and the history
  (`HistoryInv`). `DatagramsAreDecodable`: what `WithSums` makes agrees with its sums, and
  a stamp put where the sums were is taken out again. It leaves out frames whose length
  byte wraps with the stamp, longer than 239 bytes in the code, which does not look: the
  stamped message is then read at the wrong place. The run's frames are shorter.
  `NoCleanFrameIsLost` and `NoFlushBeforeCleanFrame` by
  `KeptInv`: the bytes that the reader has and those that wait, taken together
  (`Pending`), hold the undisturbed frames that have not been returned, one behind the
  other, and the first of them at their very beginning, so that the reader is always at
  a frame's beginning while one waits. `UartIsLossyLine` is the refinement, from the same
  invariant, on a line with any number of faults: the message that the reader takes while
  a frame is owed is the first one owed, and what it makes of other bytes is a `Guess`. It is
  the safety half of `CleanFramesArrive`. `UndisturbedFramesArriveInOrder` is what
  remains of it without a fault.
* **`SpeedRamp_proofs`**: `NeverBeyondLimit` by the invariant `IInv`: a command is
  computed from a sample, which shows the drive as an earlier command left it, so
  command, drive and sample all stay within the limit, also while a target is
  refused. `SteersTowardsTarget` and `NeverTears` are action properties from the
  same invariant and `RegulateCases`, the five ways to choose a set point.
  `InfoIsCurrent` needs no strengthening.

* **`Receivers_proofs`**: `KeepsTheLastTwo` is inductive with the types, because every
  accepted message exchanges the halves and no other step touches them.
  `ServersAreCurrent` follows for the programs that exchange before they read.
  `OneBehindUnlessError` is an action property: a component reads the half that
  was written before, which by `KeepsTheLastTwo` holds the message before; where that
  is an error packet, the half has an older angle, and nothing is claimed.
  `KindsDoNotMix` needs `Genuine`: every field of every half, the array, the socket's
  buffer and the ports hold numbers of packets sent, under their own kind.
* **`Estimator_proofs`**: `LateMeasurementsAreAligned` by `Aligned`: the other
  measurements at `k` are as old as the distance to the last instant, plus at most
  the periods lost since the window began to fill (`Times`); what has a weight was
  measured and is not farther from them than that (`WeightedAt`); and nothing has a
  weight where no update has been yet. The lemmas follow an update: a period passes
  (`AgedAligned`), the instant is begun (`DefaultsAligned`), a picture goes to its place
  (`PictureAligned`), the cable length to its own (`CableAligned`), the window is
  shifted (`ShiftEffect`). An update with the measurements of an earlier period stops
  the component, so that nothing is claimed of it. `NoControlsWithoutReadiness` is
  inductive with the types.
* **`CarouselDrive_proofs`**: `ByHandIsTheLastWord` by `IInv`: while a speed set by hand
  holds, the actuators are stopped; and the script sets one only when they are, or
  right behind the instruction that stops them (`ByHand`). A winch operation resends
  what is already remembered, because clipping does not change it twice (`ClipType`).
  `WithinSoftLimit` is the type invariant. `NoJumps` (`PROMPT`, `MaxFaults <= 1`) is an
  action property that needs two invariants. `ScriptInv` says which of the three
  functions the script is in, what of it is left, and which generator can run there;
  it is proved by instructions (`RampScript`, `SineScript`, `HandScript`). `SmoothInv`
  says how far apart things are: the remembered command from the drive's setpoint,
  which differ only once the fault has been spent (`SenderInv`); a sample that waits
  from both, since a winch operation may bring one to the other (`WaitingInv`); and
  everything from the offset of a sine that runs or is being set up. That is the
  amplitude (`WithinSine`); as long as the sine stands at its zero, as far as an old report
  or a lost command can be (`BeforeSine`); and when that zero is the command that
  was lost, the drive stays where it was until the next one (`MissedZero`). With stopped actuators nothing may move but the sample of a
  ramp (`StoppedInv`), which is why a sine can begin right behind.
* **`ControlBoard_proofs`**: `OneTelnetSession`, `RepliesReachTheSender` by `SessionInv`: a
  handler that is interrupted still replies to the connection it was called for or,
  after an upgrade in the same segment, to nobody; and a session that has timed out is
  over, so that a timeout never meets a new one. `OnePacketAtATime` and
  `PacketIsStable` by `StreamInv`. `ReplyIsOneSample` by `SampleInv`: the first interrupt
  during a reply writes to the other buffer and leaves the one being copied alone. Its
  hypothesis `MaxPreempt \in {0, 1}` is the time a reply takes (section 2), and it is
  needed: the second interrupt comes back to the first buffer. The others hold for
  every number of interrupts. `TypeCorrect` has the arithmetic of the servo pulses
  (`PulseInRange`).
* **`McuHandler_proofs`**: `StackInv` says where `exception()` may have put `stopHook`
  upon another hook, and that this happens once, because neither counter of errors
  passes zero (`HooksNestOnce`); with it the stack has two shapes and each step is
  proved for both. `RequestsAlternate` by `ExchangeInv`: what is on the way belongs to the
  innermost hook's exchange, until the connection is reset. `LastResort` and
  `ServosFollow` by `PositionInv`: an answered motor command has put the servo where
  `execControls` says, and for `stopHook` that is neutral. `SamplesAreFresh` by
  `IntactInv`: while replies arrive whole, the pieces on the way and in the buffer are
  those of the current trigger, in order.

Every module under proof has its type invariant as a theorem or lemma:
`CircularQueue`, `PingPongLog`, `ReceiveRing`, `UartFraming`, `ControlBoard`, `McuHandler`, `SpeedRamp`,
`Receivers`, `Estimator`, `CarouselDrive`.

Only model-checked: every liveness property and whatever involves fairness or
ENABLED (`SwappedIsLogged`, `ReceiveReturns`, `IdleIsReset`, `HookReturns`, `RampEnds`,
`CleanFramesArrive`, `FailureNeutralises`).

## 6. What is not modelled

* Most of the repository by lines: lwIP, StellarisWare, SOEM, qpOASES and the
  exported solvers are third-party or generated, the register headers of the board
  and the simulators, filters, identification and plots hold no protocol. The
  modules cover the parts where threads, interrupts, packets and life cycles meet.
* The closed-loop controllers (`pidController`, `lqrController`, `resampler`): floating
  point between two ports. What is hard in them is listed as a hazard (an integrator
  that integrates over a stop).
* Cameras, LED tracker, master timer, camera trigger: the delays they cause are
  inputs of `Estimator`, their threads are not modelled.
* Winch control and the EPOS CANopen machine, encoder, line angle sensor and voltage
  controller of carousel1, supervisor script: sequential programs around a device.
* The readers of wind sensor and line angle sensor on the BeagleBones, which have the
  shape of `UartFraming` with other terminators, and the loops that only forward.
* Timing in seconds. Where the code depends on it, a constant says so: `PROMPT`,
  `MaxPreempt`, `PATIENT`.
* A board that never answers: `McuHandler` blocks in `recv`, its timeout properties
  being unused. `HookReturns` assumes an answer.
* File descriptors, log files, wording, and the sharing of one socket by the
  error handlers of all threads (`main_plane.c:391`).
* Steps, multisines and closed-loop experiments of `experiment_helpers.lua`.
* Numerics: floating point, filters, solvers, simulators.

## 7. The plan

| | Modules | State |
|---|---|---|
| 1 | `CircularBuffer`, `CircularQueue`, `PingPongLog` | checked and proved |
| 2 | `ReceiveRing` | checked and proved |
| 3 | `ControlBoard` | checked and proved |
| 4 | `McuHandler` | checked and proved |
| 5 | `SpeedRamp` | checked and proved |
| 6 | `DataDecoding`, `Receivers` | checked and proved |
| 7 | `UartFraming`, implementing `LossyLine` | checked and proved, with the refinement |
| 8 | `Estimator` | checked and proved |
| 9 | `CarouselDrive` | checked and proved |
| 10 | closed-loop controllers over stop and start, cameras and master timer, winch control | open |
