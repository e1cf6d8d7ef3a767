# Verification of the flight-control firmware

TLA+ models, TLC runs and TLAPS proofs for the first-party firmware under
`src/src`: an RT-Thread application on an STM32F103C8 that reads a BMI088
accelerometer and gyroscope, calibrates, estimates the attitude, and sends it
as 40-byte frames over USART2 with DMA; a debug build also streams 104-byte
frames over the console line to a Python bridge on the host.  Paths below are relative to
`src/src/` unless they start with `docs/` or `vendor/` (then to `src/`).

Everything runs on one core.  What makes the program hard is not parallelism
but *preemption*: five threads (IMU 5, main 10, telemetry 15, log 20, debug
stream 25; a smaller number is more urgent) and four interrupt lines
(`EXTI15_10` and `TIM2` at 5, `DMA1_Channel7` and `USART2` at 6) share flags,
latches, a double buffer and the state of the vendored HAL.

## 1. Inventory

| Component | State | Operations | Talks to |
|---|---|---|---|
| **DMA transmit state** `modules/transport/dma_tx_state.c` | `busy`, `failure_pending` | reset, reserve, release, async_error, take_failure | UART adapter (thread and interrupts) |
| **Telemetry UART adapter** `platform/transport/telemetry_uart_stm32.c` | `uart_initialized`, the DMA state, HAL handles | init, send, two IRQ handlers, two HAL callbacks, cleanup | HAL, DMA channel 7, USART2 |
| **Telemetry service** `kernel/telemetry/` | sequence number and sticky drop bit, two frame buffers, thread flags | init, 200 Hz loop, deinit | snapshot (reads), adapter (sends), IMU service (counts drops) |
| **IMU snapshot** `kernel/imu/imu_service.c:63-65,364-432` | two buffers, active index, drop counter | publish, read, record drop | IMU thread writes; telemetry and debug threads read |
| **Monotonic clock** `platform/time/`, `modules/timing/` | 16-bit counter, update flag, 16-bit high word | init, now_us, TIM2 handler, cleanup | every time stamp of the firmware |
| **IMU service thread** `kernel/imu/imu_service.c`, `imu_policy.c` | `imu_runtime_t`: state, conditions, failure count, baselines, estimate | housekeeping, sensor initialisation, resynchronisation, gyro and accel handlers, fault retry, init, deinit | latches and events from the interrupt; driver; snapshot; log |
| **Calibration, attitude** `modules/attitude/` | accumulated samples; quaternion, bias, valid flag | push, update, invalidate | IMU thread only |
| **BMI088 platform adapter** `platform/devices/bmi088_stm32.c` | per-sensor latch (sequence, time stamp), chip selects | data-ready handler, read latch, SPI transfers, init, cleanup | clock, IMU event object |
| **BMI088 driver** `modules/devices/bmi088/` | bus callbacks | retries, verified writes, initialisation, sample reads | adapter |
| **Service lifecycle** `kernel/service_lifecycle.h` and each service's deinit | `service_started`, `thread_should_run`, `thread_stopped`, detached flag | ordered start, bounded wait, cleanup in order | RT-Thread scheduler, idle thread |
| **IMU log service** `kernel/logging/` | message queue of 8, dropped counter, thread flags | submit, drain loop, format, init, deinit | IMU thread submits; the console prints |
| **Application entry** `app/main.c` | none | start telemetry, IMU, debug service; undo | all services |
| **Telemetry encoding** `modules/protocols/imu_telemetry/` | none | encode a snapshot to 40 bytes | telemetry thread |
| **Status LED** `imu_policy.c:218-241` | phase, next toggle | step | IMU thread |
| **Debug stream** `debug/` | sequence number, drop counter, thread flags | 50 Hz loop, encode, init, deinit | reads the snapshot; debug build only |
| **Host bridge** `tools/foxglove_debug_bridge.py` (in the root of the repository) | parser buffer, last sequence number, counters | feed | the debug stream's other end |
| **Board support** `platform/board/` | none | clocks and pins | - |

What is hard, and what makes each part correct:

* *Telemetry link.*  The transfer started by the thread is finished, or failed,
  by interrupts that may fall between any two instructions of the start
  sequence; `busy`, the HAL's `gState` and the DMA channel must stay in step,
  the buffer under DMA must not be touched, an asynchronous failure must be
  reported exactly once before the next transfer, a gap in the sequence numbers
  must be flagged, `busy` must be released, and stopping must leave the
  peripherals quiet.
* *Snapshot.*  Thirty words are copied by a thread others preempt.  A reader must
  see one publication, and drops must not be taken back.
* *Clock.*  A 16-bit counter is extended in software; its wrap races the reads.
* *IMU thread.*  Event flags and latches are two channels for one fact.  The
  thread must not miss a sample, must not integrate or calibrate over a lost
  one, must not treat a repeated notification as a new sample, and must
  invalidate its estimate when the gyro falls silent.
* *Housekeeping.*  LED, diagnostics, gyro expiry and fault retry share one timeout,
  computed over a tick counter that wraps and from an age measured by another
  clock; handlers delay it and samples cut it short.
* *Data.*  Encoders must clamp, round and wrap at the ends of 16 bits; a frame must
  be found again after damage; a log line crosses two buffers of different size;
  only rotations may pass as an axis map.
* *Lifecycle.*  Every step of every start may fail and must be undone in reverse.
  A stop may time out, be repeated, fail half way, and races the exit of the
  worker and the idle thread that reaps it.

The hazards, each at its source line with the properties that cover it, are the
`hazards` of `PROJECT.json`.  One of them has no property; the reason is noted
there.

## 2. Modules

| Module | Models | Abstract or reference specification |
|---|---|---|
| `TelemetryLink` | telemetry thread, attempt policy, DMA state, adapter, HAL transmit path, DMA channel, USART, start/stop | - |
| `Frames` | both encoders byte by byte, the CRC, damage on the line | an independent decoder at the documented offsets |
| `DebugStream` | debug thread, a lossy line, the host's frame parser | what a parser that knows the frame borders would deliver |
| `SnapshotRegister` | what `imu_snapshot.h` promises: one atomic register | it is the abstract specification |
| `SnapshotBuffer` | publish, read, drop count and restart, word by word | implements `SnapshotRegister` |
| `SampleLatch` | latch, event and overrun account of one sensor, with wrapping sequence numbers | the true order of the samples |
| `MonotonicClock` | counter, update interrupt, the three reads, init and cleanup | true time (`period`, `counter`) |
| `ImuService` | IMU thread and data-ready interrupt | the documented calibration run, as history |
| `Housekeeping` | LED, diagnostics, expiry and retry over wrapping ticks | the documented pattern at a time since entry |
| `SensorDriver` | `bmi088_init`, sample reads, the SPI transfers and chip selects, over a bus that fails, loses and garbles | - |
| `BodyFrame` | decoding, axis map and saturation of a sample | cross products of the axes' images |
| `LossyLog` | what the log service promises the IMU thread | it is the abstract specification |
| `LogQueue` | submission, the logger's loop, start and stop, over the message queue of RT-Thread | implements `LossyLog` |
| `LogText` | formatting of an event into a buffer, printing through the console's | the whole line |
| `ServiceThread` | stop of the IMU service, worker exit, idle reaping | - |
| `Startup` | main, and every init and deinit down to the resources they take | - |
| `MC*` | the instances of the runs; `MCSnapshotBuffer` and `MCSensorDriver` are the two-part specifications the proofs speak of, whose parts `MCSamplePath` checks | - |
| `Subject` | nothing of the code: which part of a joint run a behaviour follows | - |
| `SnapshotBufferProofs` | theorems about `SnapshotBuffer` and `SampleLatch` | - |
| `TelemetryLinkProofs` | theorems about `TelemetryLink` and `DebugStream` | - |
| `ServiceThreadProofs` | theorems about `ServiceThread` and `Startup` | - |
| `SensorDriverProofs` | theorems about `SensorDriver` and `BodyFrame` | - |
| `MonotonicClockProofs`, `ImuServiceProofs`, `LogQueueProofs`, `HousekeepingProofs` | theorems about the module they are named for | - |

### How modules are run together

Four of the passing runs check two to five modules.  `MCTelemetryLink`, `MCLogQueue`
and `MCServiceThread` extend one and instantiate the others; `MCSamplePath` extends
`MCSnapshotBuffer`, `MCSensorDriver` and `MonotonicClock`, and so joins what a sample
passes through around the IMU thread (snapshot, latch, driver, body frame, clock).
Clock and driver name their initial predicate, next-state relation and specification
`ClockStart`, `ClockNext`, `ClockSpec` and `DriverStart`, `DriverNext`, `DriverSpec`,
so that one module can extend both.  The parts of such a run share no state, so nothing is learnt from
their interleavings and the product of their state spaces is not explored: a
variable `subject`, chosen at the start and never changed, says which part a
behaviour follows, and the others rest in their initial state.  A run's instance
therefore is the union of the parts' instances.  A part whose bounded inputs are
used up may stutter (`Rests`), so that deadlock stays checked for the parts that
must go on.  Components that do share state are composed within one module
(telemetry thread, HAL and peripherals in `TelemetryLink`; IMU thread and interrupt
in `ImuService`; two threads and the kernel's queue in `LogQueue`).

### How state and actions correspond to the code

`TelemetryLink`.  The variables carry the names of the code; `gState`, `dmat`,
`tcie`, `tc` are the UART handle's state and the register bits the HAL sets,
`dma_channel` the buffer the enabled channel reads, `dma_flag` its pending flag.
A thread action is a stretch no interrupt can usefully split: the critical
section of `telemetry_uart_send` is `SendReserved` or `SendRejected`,
`HAL_UART_Transmit_DMA` is split at the point where the channel is already on
but the USART does not request yet (`HalTransmit`, `HalEnableRequests`), and the
buffer switch after it is `FrameQueued`.  Interrupt lines are level sensitive: an
action of a thread is enabled only while no enabled line is asserted (`IrqTaken`),
and a handler that returns early leaves its line asserted (`IgnoredIrq`).
A frame is its sequence number and its dropped bit.

`SnapshotBuffer`.  `publish_snapshot` is `BeginPublish`, one `WriteWord` per
word, then the masked section `MaskPublish`, `StoreDrops`, `FlipActive`.
`imu_snapshot_read` masks in `BeginRead` and copies by `ReadWord`.  Masking is
`masked_by`: while it names somebody nobody else takes a step.  Priorities are
not used, so the model has more interleavings than the firmware.  A restart
(`ServiceRestart`, the assignments at the top of `imu_service_init`) happens
with no reader inside its copy, because a copy is made with interrupts off.

`MonotonicClock`.  `Tick` advances the counter even while interrupts are masked.
`ReadHigh`, `ReadCounter`, `ReadFlag` are the three reads of
`monotonic_clock_now_us` in program order, `ReadReturns` is the composition and
the return.  The TIM2 handler is split where the HAL has cleared the flag but not
yet called back.

`ImuService`.  The interrupt (`DataReady`) can fire between any two steps of the
thread.  `unread[s]` is the latch's sequence number minus the consumed one, the
only thing the code asks of either.  The thread's steps end where it shares
state: receive events, read the latch (`BeginGyro`, `BeginAccel`), then the whole
rest of the handler (`ProcessGyro`, `ProcessAccel`) which decides whether the
latch changed during the SPI read, consumes, classifies, updates and publishes.
Between reading and processing the interrupt may fire: that is the torn sample.
The numbers are abstracted to the verdicts on them: read succeeded, interval in
`[500, 2000]` us / older than 20 ms / neither, accel recent, sample stationary.
`Status`, `ExpiryDue`, `Admission` and the rest are the operators of
`imu_policy.c` under their names.

`Housekeeping`.  Time is a variable: `PassTime` advances the tick counter, the ages
and the true times since entry and since the last diagnostics, while the thread
sleeps or is delayed by a handler for at most `MaxLate` ticks.  The thread's steps
are the parts of `imu_thread_entry` and `wait_fault_retry` between two looks at
the clock; `ServiceHousekeeping` is `update_state_led`, the diagnostics, the expiry
check and the computation of the timeout, as the loop makes them.  `Transition` is
`transition_state`.

`SampleLatch`.  The same steps as in `ImuService`, for one sensor and with sequence
numbers that wrap where `ImuService` has the number of unread samples.  Samples
are counted by arrival, so that the sample a time stamp was taken of and the
sample whose data was read can be compared.

`SensorDriver`.  `bmi088_init` is the sequence `InitStep` of bus operations: wake,
two resets, two IDs, then the entries of the two configuration tables.  An
operation is one or two transactions (`Select`, `WriteTransfer` or
`ReadTransfer`, `Deselect`, from `bus_read` and `bus_write`), and `ReadBack`,
`Retry` and the actions of `bmi088_init` decide what follows one: `read_retry`,
`write_retry` and `write_and_verify` differ only in what `Failed` and `ReadBack`
ask.  Of a register the model keeps whether it holds its configured value, and of
the sensor's environment nothing: any transfer may be reported as failed or as
done whether or not it reached the chip, and a reply may be garbage.  The one
thing taken for granted is that garbage does not equal the expected value.

`LogQueue`.  RT-Thread's queue moves blocks between a free list and a linked
list in critical sections and copies outside of them.  A submission is
`SubmitTakesBlock`, `FillBlock`, `LinkBlock` (or `SubmitDropped`); a reception is
`UnlinkBlock`, `CopyBlock`, `FreeBlock` (or `ReceiveTimesOut`); `LoopTest`,
`StopTest` and `PrintEvent` are the rest of `imu_log_thread_entry`.  `DeinitRequest`,
`DeinitTimesOut` and `DeinitDetaches` are `imu_log_service_deinit`, which its only
caller on a running logger enters after the IMU thread has stopped.  The abstract
`LossyLog` accepts an event when its block is linked and has it out of the queue
when it is printed, so the event in the logger's hands counts as pending; a
requested stop discards what waits.

`Frames`.  A frame is built as the code builds it, by writes of one, two or four
bytes at offsets (`TelemetryWrites`, `DebugWrites`, `Apply`) into a buffer that
holds an earlier frame, then the CRC over the bytes the code names.  Measured
values are thousandths; a 32-bit word is the pair of its halves.  `DebugStream`
takes a frame as seven symbols whose data looks like the synchronisation; the
parser's loop is `NoSync`, `Incomplete`, `Reject`, `Deliver`.  `LogText` writes
characters known by the text they belong to; `BodyFrame` is one step from the
six data bytes to the vector.

`Startup`.  A call of main is the list of the steps it still has to make; a failing
step replaces the rest by the code's branch for that failure (`Undo`), written out
branch by branch as in the source.  Threads stop by themselves, late or never.

`ServiceThread`.  `Switch` is preemption.  The end of the worker is three steps:
it reports that it stopped, it suspends itself (which does not reschedule), and
its entry returns into `_thread_exit`.  `IdleTakes` and `IdleReaps` are the idle
thread's half of `rt_defunct_execute`, `DefunctExecute` the caller's.  `type` is
the object type the kernel decides by whether to free the thread;
`corrupted` is set when it would free static storage or link a node twice,
and nothing is claimed from there on.

## 3. Runs

| Run | Instance | Shows |
|---|---|---|
| `telemetry_link` | link: `SeqMod = 4`, `MaxDrops = 1`, fair; frames: 12 samples, 6 kinds of damage at every place; stream: 4 frames, sequence range 3, 2 damages | `TypeOK`, `BufferStable`, `BusyCoversTransfer`, `FailureBeforeReuse`, `QuietWhenStopped`, `GapIsFlagged`, `BusyIsReleased`, `FramesDecode`, `StreamRecovers`, `FeedReturns` |
| `telemetry_deinit` | link only, `SeqMod = 2`, `MaxDrops = 0` | **violated**: `DeinitReturns` (finding 1) |
| `sample_path` | driver: 3 attempts, 2 registers per chip, fair; body: all maps with axes 0..3, signs -1..1, four values an axis; clock: `Half = 3`, `HighMod = 3`; latch: sequence range 4, 9 samples; snapshot: 2 readers, 2 values, 2 words, `MaxDrops = 1` | `SampleFromConfigured`, `OneChipSelected`, `FailureHasCause`, `InitTerminates`, `BodySampleSound`, `StampExact`, `HighWordTracks`, `SamplesAccounted`, `NoTornRead`, `DropsNeverGoBack`, refinement `ImplementsRegister` |
| `clock_cleanup` | clock only, fair | **violated**: `CleanupStops` (finding 5) |
| `imu_service` | `MaxUnread = 2`, `Calibration = 2`, `Expiry = 1`, fair | `NoLostSample`, `PublishedCurrent`, `ExpiryHolds`, `CalibrationUnbroken`, `RunningIsEarned`, `SilentGyroExpires` |
| `imu_fault` | as `imu_service` | **violated**: `SuccessClearsFailures` (finding 2) |
| `housekeeping` | 10 ticks a second, a counter of 40, 2 units a tick, `MaxLate = 1` | `LedShowsState`, `OnTime`, `NotEarly` |
| `fault_diagnostics` | as `housekeeping`, `MaxLate = 0` | **violated**: `DiagnosticsEverySecond` (finding 6) |
| `log_queue` | 2 blocks, 2 events, `MaxDrops = 1`, fair; text: all events, three buffer sizes | `QueueIntact`, `EventsAreDrained`, refinement `ImplementsLossyLog`, `LineIsWhole` |
| `log_console` | text only, five-digit counters, buffers of 192 and 128 | **violated**: `FieldsPrinted` (finding 4) |
| `service_thread` | `Timeout = 2`, fair; startup: every step may fail, debug build | `WorkerStopsFirst`, `StoppedIsReleased`, `DeinitReturns`, `StartupOrdered`, `MainIsHonest` |
| `service_detach` | thread only, `Timeout = 2` | **violated**: `DetachesSystemObject` (finding 3) |

Each property is stated in words, with the code it is about, in its module, and
each of a passing run has a mutant in `PROJECT.json`: a faulty form of a mapped definition under
which its run fails.  A name such as `OnTime`, `ExpiryHolds`, `QueueIntact` or
`StartupOrdered` stands for the named parts it is a conjunction of, the module's
type invariant among them.  The type invariants of the snapshot, the clock, the
driver and the service thread are not repeated in the runs: they are proved.

What some of them come to:

* `StreamRecovers`: no sequence of damaged, shortened and swallowed bytes makes the
  parser lose a later intact frame, deliver one twice or miscount a gap, unless a
  whole range of sequence numbers is missing; `FeedReturns`: nor makes it loop.
* `SamplesAccounted`: a sample that overtakes another counts as an overrun at least
  once and, because a torn read and the next event may both see it, at most twice.
* `RunningIsEarned`: running is entered only with a whole run of qualifying samples
  behind it, and a notification for a sample already consumed (the flag stays set
  when a second sample came in before the latch was read) never advances the
  calibration, makes the estimate valid or takes back an expiry.
* `OnTime`: the expiry is noticed within a tick although it is waited for in ticks
  and measured in microseconds, the loop never sleeps past a second since the last
  diagnostics, and no timeout of zero ticks is followed by another.  That the
  diagnostics come every second in every state, a fault included, is
  `DiagnosticsEverySecond`; the code breaks it (finding 6).

### Bounds, and why they are enough

* `SeqMod = 4`: a receiver can miss one, two or three frames and still tell them
  from the next one; the only arithmetic on the number is `+ 1` modulo the range.
  `SeqMod = 2` in `telemetry_deinit`: its property does not read it.
* `MaxDrops = 1` saturates at once and still has a value below saturation.
* Two words are the least a torn copy needs, two values the least that tell one
  publication from another; two readers contend for the mask.
* `Half = 3`: the lower and the upper half each have a first, a middle and a last
  value.  The proof covers every `Half` and `HighMod`, the code's `0x8000` and
  `2^16` included.
* `MaxUnread = 2`: overrun begins at two (`Overrun` compares with one), and the
  sensor cannot overrun further without the state repeating.  It bounds samples
  that arrive *before they are consumed*, not samples in a run.
* `Calibration = 2`: one sample counted, one to complete.
* `Expiry = 1`: a time stamp is younger than 20 ms or not.
* Three attempts as in the code; two registers per chip, so that one is set while
  its neighbour is not.  The proof covers every number of either.
* Two blocks: one can wait, or be filled, while the other is being copied out, and
  the queue can be full or empty with the logger at every step; two events tell
  order and overwriting.  Nothing in the code compares the capacity with a number.
* Frames: each channel takes zero, both sides of a rounding tie, both ends of the
  16-bit range and values beyond them, and a non-finite one; damage is every pair
  of adjacent bytes changed by six patterns, one a multiple of the generator without
  its constant term.  Damage that is split between data and CRC may by its nature
  escape, so the property confines itself to two adjacent bytes within either.
* Stream: four frames over a sequence range of three wrap once; the line is read one
  symbol or eight at a time.
* Latch: nine samples wrap a range of four twice.
* Housekeeping: the counter's half is just above the longest delay, 19 ticks and one
  of lateness (`HousekeepingAssumption`); in the code it is far above, so the run has
  wraps at every point of every wait.
* Text: counters of one, three and ten digits; buffers of one character, too short
  and of the code's size.
* `Timeout = 2`: the worker stops before the first, between and after the last tick.

The violation runs use the same or smaller instances.

### Deadlock

Checked in every run.  After `corrupted` is set in `ServiceThread` the kernel has no
defined next step and nothing is claimed; there, as for a part whose bounded input
is used up, `Rests` stutters.

### Fairness

* Telemetry: the thread and the deinit caller are scheduled (each is weakly fair;
  above them only the IMU thread and short interrupts run), the DMA channel
  finishes or fails, the shift register drains, asserted enabled interrupts are
  served.  Nobody has to start or stop the service and no transfer has to fail.
* Clock: the thread in the cleanup is strongly fair in getting the core
  (`CleanupTimer`), the strongest that could be asked for; `CleanupStops` fails
  nevertheless, because the handler never gives the core back.
* Debug stream: the parser's loop is ordinary code and goes on.
* IMU: the thread is weakly fair (it has the highest application priority, and
  every wait in it is bounded: `housekeeping_wait` never waits forever), the
  clock runs.  Data-ready interrupts owe nothing.
* Sensor driver: every step is one of the IMU thread; SPI transfers end by their
  timeout.
* Log: the logger is weakly fair.  It is the least urgent thread of the release
  build, but each thread above it sleeps between its periods.
* Service stop: the tick ends delays; the caller is strongly fair in getting the
  core, because a delay of a tick by the worker or an interrupt may take it away
  again and again but not for good.  The worker owes nothing; it may be stuck.

## 4. Proofs

All theorems hold for every value of the constants that satisfies the named
assumption of the module.  `ClockAssumption`, `SnapshotAssumption`,
`TelemetryAssumption`, `DriverAssumption`, `TimeoutAssumption`, `ImuAssumption`
and `LogAssumption` say that ranges are not empty, the thread names differ, the
zero snapshot is a snapshot, `NoFrame` is not a frame.  `HousekeepingAssumption`
says that half the range of the tick counter covers the longest delay, 1.9 s and
the lateness of the handlers: the comparison of wrapped ticks means nothing
beyond (the code's half is 24 days).  `LatchAssumption`, `SampleAssumption`,
`StreamAssumption` and `FrameAssumption` give the inputs of the further parts of a
run their types: a range has at least one number, a byte is in 0..255, a sign is an
integer, a sample has the fields of its struct, each of its width, and damage changes
at least one bit.  `TextAssumption` says that a counter has at most ten digits, which is
what `write_uint` has room for and more than 32 bits need, and that the logger's buffer
holds 92 characters of labels, seven such counters, the newline and the terminator;
the code's has 192.

Each proof is the same three facts about an inductive invariant: it holds at the
start, every step keeps it, and it implies the property.  TLC checked the
invariant on the run's instance, or a slightly smaller one, before it was proved.
A theorem about the second part of a module that joins two speaks of its
specification, `MCSpec` or `SensorSpec`.

| Module | Theorem | States |
|---|---|---|
| `MonotonicClockProofs` | `ClockTypeOK`, `ClockStampExact`, `ClockHighWordTracks` | `ClockSpec => []...` |
| `SnapshotBufferProofs` | `SnapshotTypeOK`, `SnapshotNoTornRead` | `Spec => []...` |
| | `SnapshotDropsNeverGoBack` | an action property |
| | `SnapshotImplementsRegister` | refinement of `SnapshotRegister` |
| | `LatchSamplesAccounted` | `MCSpec => SamplesAccounted` |
| `TelemetryLinkProofs` | `TelemetryTypeOK`, `TelemetryBufferStable`, `TelemetryBusyCoversTransfer`, `TelemetryFailureBeforeReuse`, `TelemetryQuietWhenStopped` | `Spec => []...` |
| | `TelemetryGapIsFlagged` | an action property |
| | `TelemetryStreamRecovers` | `MCSpec => []StreamRecovers` |
| | `TelemetryFramesDecode` | `MCSpec => []FramesDecode` |
| `SensorDriverProofs` | `DriverTypeOK`, `DriverSampleFromConfigured`, `DriverOneChipSelected`, `DriverFailureHasCause` | `DriverSpec => []...` |
| | `DriverBodySampleSound` | `SensorSpec => []BodySampleSound` |
| `ServiceThreadProofs` | `ServiceTypeOK`, `ServiceWorkerStopsFirst`, `ServiceStoppedIsReleased` | `Spec => []...` |
| | `StartupIsOrdered` | `MCSpec => []StartupOrdered` |
| | `MainHonest` | `MCSpec => MainIsHonest`, an action property |
| `ImuServiceProofs` | `ImuTypeOK`, `ImuNoLostSample`, `ImuPublishedCurrent`, `ImuExpiryHolds`, `ImuCalibrationUnbroken` | `Spec => []...` |
| | `ImuRunningIsEarned` | an action property |
| `LogQueueProofs` | `LogQueueIntact` | `Spec => []...` |
| | `LogImplementsLossyLog` | refinement of `LossyLog` |
| | `LogLineIsWhole` | `MCSpec => []LineIsWhole` |
| `HousekeepingProofs` | `HousekeepingOnTime`, `HousekeepingLedShowsState` | `Spec => []...` |
| | `HousekeepingNotEarly` | an action property |

**Clock.**  `StampExact` is not inductive: it speaks of the end of the read, while
the wrap may come at its beginning.  `IInv` adds `HighWordTracks` (the high word
is one behind exactly while an update is flagged or being counted), `UpdateInv`
(while an update is outstanding the counter is in its lower half, and it is not
both flagged and being counted) and `ReaderInv` (between the reads of the counter
and of the flag, either the counter has not wrapped, or it has wrapped from a
value in the upper half and the flag is set).

Two assumptions about the rest of the firmware are guards of `Tick`: an update
is served within half a period (32.8 ms; the longest masked section is a
snapshot copy), and the masked read takes less than half a period.  Without the
first no software could extend the counter.

**Snapshot.**  `NoTornRead` speaks of finished reads only.  `IInv` ties who has
masked interrupts to where publisher and readers are (`MaskInv`), says that the
words written so far are those of the publication in progress and that between
the two masked stores the spare buffer is complete with the current drop count
(`PublishInv`), that the active buffer is one publication with a count not above
the counter (`ActiveInv`), and that the words a reader has copied are those of
the active buffer, which cannot have been exchanged meanwhile (`ReadInv`).  The
refinement maps the flip to `Publish` and the end of a copy to `Read`; every
other step of publisher and readers leaves the register alone.

**Latch.**  `LatchInv` counts samples by arrival.  While the newest sample is less
than a range ahead, equal distances are equal sequence numbers (`LatchNumbers`,
`Distance`), so the code's comparison of wrapped numbers finds what happened; and
`LatchBudget` charges each overrun to a sample that was disturbed, the overruns
still owed by what has already come (`Owed`) included.  That last term is what makes
"at most twice" inductive.

**Telemetry.**  `IInv` says when a thread exists and when cleanup may run
(`LifecycleInv`), that `busy` is exactly "the handle is `BUSY_TX` or the thread
has just reserved", and `BUSY_TX` exactly "the channel is on or the last bytes are
draining" (`TransferInv`), and that the channel reads the buffer of the attempt
while the thread is starting it and the *other* buffer at any other time
(`BufferInv`).  The last is why switching after the start, and not before,
is safe, and why a rejected attempt may reuse its buffer.

`GapIsFlagged` relates what a receiver got to what it gets next, with the thread,
the channel and two losses in between.  `FlagInv` names what has to be followed:
`Ahead` is the frame the channel is reading, or else the last one received.  The
frame being read follows the received one or is flagged; the attempt follows what
is ahead of it, or is flagged, or a failure is pending that will reject it
(`FrameLost`); and between attempts the sticky bit and the next number do.
`FailureBeforeReuse` is what makes the third alternative sound.

**Sensor driver.**  `IInv` says who may be inside a transaction (`CallInv`), that an
expected reply is the chip's state (`ReplyInv`), that during an initialisation the
registers of all finished steps are set (`ProgressInv`; a reset, which clears them,
comes before the first), and that each failed attempt, or attempt that can no
longer succeed because its write was lost, has cost a fault (`FaultInv`).
`EveryRegisterHasAStep` turns "every step is done" into "every register is set".

**Body frame.**  The code takes a determinant of signs and a parity of axes; the
property is about cross products of the images of the axes.  `SampleInv` says that a
map is accepted exactly if it is right-handed, which the lemmas derive from the six
permutations and the parity of the signs.  It does not depend on which axes, signs
and bytes are tried.

**Service.**  `IInv` says that a worker which has reported its end does not run again
before the next start (`StopInv`), how far a call of deinit can be given what is
already down (`CallInv`), and that the resources go last (`ResourceInv`).  It holds
over any number of calls that timed out or failed half way, which is what makes
`WorkerStopsFirst` more than the order of statements in one call.

**Startup.**  `StartupOrdered` says nothing of a call that is half way, so the invariant
does: `StartupInv` names every list of steps a call can still have to make and gives,
for each, what every service holds, whether its thread runs and what its flags are
(`PlainAt`, `ImuAt`), while the services the call is not about rest (`Calls`).  Lemmas
show that the lists the code builds, the rollback after each failing step included, are
these lists (`InitLists`, `DeinitLists`, `PlainFailing`, `ImuFailing`), and what each
kind of step does to them (`AcquireAt`, `ReleaseAt`, `WaitAt` and so on); one case for
each point of each call remains.  A thread may stop at any of them or never, which is
why a service that was told to stop counts as holding everything until it has.

The reverse order of release needs one thing more.  A service that is up was started
among others and its resources stay anywhere in `order`; but what services that are
*not* up hold was taken in the order of their ranks (`Stacked`), because a start
takes only what ranks above all of it (`Topped`).  A rollback gives back the
highest rank, so it gives back the last that was taken (`ToppedIsLast`).  `MainAt` says
what main knows at each of its calls: that the telemetry is still up when the IMU has
failed to start, and that after the deinit of the telemetry nothing is left of it but a
thread that did not stop in time.

The theorems hold for every set of resources that may fail and of threads that may not
start, with and without the debug service.

**IMU thread.**  The step of a handler is a composition of updates of `imu_runtime_t`,
so most lemmas are about one update: `Good` is what each leaves true of the record
(a running estimate has a time stamp, an expired one is invalid, no count is past
its threshold), and two relations say what a whole handler did: `Lost` (the sample
was lost, and a calibration starts again) and `InStep` (the sample counted exactly as
documented).  Around that, `IInv` says which state of the machine each program
counter goes with (`PcInv`), that a sample which is unread is signalled *or* lies
where the thread will take it before it waits (`SignalInv`; this is why the events
are cleared before the latches are taken and not after), and that what is published
is current except between the reset and the end of a resynchronisation
(`PublishInv`).  `NoGain` and its lemmas are the same for a repeated notification.

**Log.**  `BlocksConserved` is not inductive: `FreeBlock` adds one to the free list only
if its block is not there already.  `IInv` adds that no block is in two places
(`ApartInv`), that a thread holds a block exactly between taking it and giving it
away (`HeldInv`), and which flags go with a thread that has ended (`ServiceInv`).

The refinement maps the abstract queue to the contents of the blocks in the
logger's hands and in the list, in that order.  Linking a block appends to it, and
filling, copying or freeing one leaves it alone, because the block is in no
other place (`ApartInv`) and, when it is linked, holds the event that was
submitted (`HandOverInv`).

**Log text.**  `LineIsWhole` is about three things the code computes by loops.

* *Digits.*  `write_uint` gathers the digits from the lowest and writes them from the
  highest; the recursion of the model is unfolded, its solutions agree and together are
  the function (`SolutionsAgree`, `SolutionExists`).  Its digits read back as the number
  (`DecimalSpells`) and are no more than ten (`DecimalFits`).
* *Line.*  The line of the diagnostics is its pieces, one behind the other (`Chain`);
  each stays where it was written (`ChainKeeps`), so a label is followed by its counter,
  and that by something that is no digit (`PieceAt`, `CounterStands`).
* *Buffer.*  `TextInv` says that after formatting the buffer holds as much of the line as
  fits, and then the terminator (`Written`).  No character of a line is a terminator, so
  the text a reader finds is that and no less (`LineReads`).

**Housekeeping.**  The proof replaces wrapped numbers by `Lead`, the signed distance
from the tick to a deadline; the lemmas about it are the only place where the wrap
of the counter matters.  `PatternInv` says that the time since entry and the lead
of the LED's deadline together are the toggles made so far, up to whole periods of
the pattern: this is why a late toggle does not shift the pattern.
`SleepInv` and `ExpiryInv` bound the timeout by everything that is due, the second
across the two clocks, and `ServicedInv` says that after housekeeping nothing is due
before time passes, which is why no wait of zero ticks follows another.  The catch-up
loop of the LED advances its deadline to the least one in the future; its
existence is a least-number argument from `WellFoundedInduction` (`Least`).

**Debug stream.**  The parser may be in the middle of wreckage when a good frame
arrives, so nothing can be said about its buffer alone.  `UnreadInv` is about the
buffer followed by the line: it consists of symbols there are (`Symbols`), its
checks are of later and later frames (`Ordered`), later than any delivered
(`Later`), and each intact frame has been delivered or lies whole in it
(`Reachable`).  The parser's four steps each take a prefix of that stream, and the
lemmas show that the prefix never reaches into a whole frame unless it is the one
delivered: the first synchronisation is not behind a whole frame's own, a rejected
candidate costs one byte, and a valid one that overlapped a whole frame would have
to end in a check where that frame has none.  `CountInv` ties the dropped frames
counted to the numbers delivered, as long as fewer are missing than a range has.

**Frames.**  `FrameInv` says that an undamaged frame holds its sample at the
documented offsets and a damaged one is not accepted; both are facts about what the
encoders compute.

* *Layout.*  The writes are in ascending order and do not overlap (`Laid`), so a byte
  is from the one write that covers it (`WrittenAt`) and a number is read as it was
  written (`ReadU16`, `ReadU32`, `ReadI16`).  They cover the frame up to the CRC,
  so nothing of the earlier frame is left (`WrittenBytes`), and the CRC
  leaves what it covers alone (`Closed`).
* *Quantities.*  `RoundIs`, `EncodeIs`, `WrapIs` and `AngleIs`: rounding is off by at
  most a half, a wrapped angle needs no clamping, and it is off by whole turns only.
* *CRC.*  A word is its bits (`SameBits`), and exclusive or acts on each (`XorBits`).
  One step of the division can be undone, because the generator is odd, so that the
  lowest bit tells which branch was taken (`CrcBitUndone`); and it distributes over
  exclusive or (`CrcBitLinear`).  Eight steps only move a byte from the lower half of
  the word to the upper (`EightShifts`).  Two adjacent bytes therefore act like one
  word that comes in before sixteen steps which lose nothing: different pairs leave
  different remainders (`TwoBytesTold`).  Behind them equal remainders go back, byte
  by byte, to equal
  bytes (`CrcTells`).  The recursion itself is only unfolded: that there is a function
  with its equations, and that all of its values are words, is a least-number argument
  (`IterationExists`, `CrcSum`).

Only model-checked:

* everything under fairness (`BusyIsReleased`, `FeedReturns`, `SilentGyroExpires`,
  `InitTerminates`, `EventsAreDrained`, `DeinitReturns`), which is out of the prover's
  reach, and the six violation runs.

## 5. Findings

1. `telemetry_deinit`: `cleanup_uart` clears `uart_initialized` before it disables
   its two interrupt lines.  An interrupt asserted in between enters a handler
   that returns without clearing its flag; the line is level sensitive, so the
   handler is entered for ever and `telemetry_service_deinit` does not return.
2. `imu_fault`: the documentation says any successful read clears the count of
   consecutive failures.  A successful read whose latch changed meanwhile does
   not, so failure, torn success, failure, failure enters the fault state.
3. `service_detach`: a worker that suspends itself keeps running until the next
   reschedule, so it reaches `_thread_exit`; the idle thread reaps it, and
   deinit then detaches an object that is no longer registered and lists it for
   reaping a second time.
4. `log_console`: a line of diagnostics has up to 163 characters and the logger's
   buffer room for them, but `rt_kprintf` prints through a buffer of 128: with
   five-digit counters the end of the line is lost, with longer ones whole fields.
5. `clock_cleanup`: `cleanup_clock` clears `clock_initialized` before it disables the
   TIM2 interrupt.  An update in between enters a handler that returns without
   clearing it, for ever, as in finding 1: the timer is not stopped, nor its flag
   cleared, as the function's comment says they are
   (`platform/time/monotonic_clock_stm32.c:20`).
6. `fault_diagnostics`: `wait_fault_retry` sleeps until the next toggle of the LED or
   the end of the fault and does not look at the deadline of the diagnostics, which
   are up to 700 ms late in the last, dark phase; by
   `docs/requirements/firmware-behavior.md:71` they come every second.

Observed, without a run of their own:

* A failed read advances the gyro's time baseline (`imu_service.c:798`); after an
  expiry a good sample then needs no second one.  The documentation leaves this open.
* The idle thread may be preempted between taking a stopped worker and detaching it
  and finish after a restart (`imu_service.c:85`): the same defect as finding 3.
* When `rt_thread_startup` fails in `imu_service_init` and the logger does not stop in
  time, the logger stays up while `service_started` is false, so that no later
  deinit reaches it; the next start finds it initialised.
* An angle of 179.996 degrees is sent as 180.00, that is as 18000, and not as
  -18000: the wrap comes before the rounding.

## 6. Not modelled

* The floating-point numerics of the Mahony filter, of the calibration and of the
  scaling of samples: TLC has no reals.  When they run and what they make valid is
  modelled.  Rounding inside float32 is left out of `Frames`.
* Of the BMI088 driver and its adapter: the delays between register writes and the
  configuration of SPI and pins, straight-line code without state of its own.
* `ImuService` takes the result of a read and of an initialisation as a free choice;
  that a successful one leaves the sensor configured is shown in `SensorDriver`.
* Of the debug service, the open flag of the console device that init saves and
  deinit restores; of the host tools, everything but the frame parser.
* Thread and kernel object creation cannot fail in the vendored kernel with the
  arguments the firmware passes; `Startup` lets it fail, because the code checks for
  it and undoes it.
* The stub that replaces the log service in the debug build (`imu_log_service.c:9-30`).
  `Startup` keeps queue and thread of the logger in both builds, so with
  `FoxgloveDebug` it has more that can fail, or not stop, than the debug build:
  what `StartupOrdered` and `MainIsHonest` rule out is ruled out there too, but for
  that build the clause about a running logger speaks of nothing.
* Board support (clock and pin set-up) and vendored code beyond the functions mapped.

## 7. What is left

* Every safety property that a passing run checks is proved.  Liveness is
  model-checked only (section 4).
* Of the parts under section 6, the start of the BMI088 adapter down to SPI and pins is
  the first to model next.
