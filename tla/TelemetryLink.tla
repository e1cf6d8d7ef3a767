---------------------------- MODULE TelemetryLink ----------------------------
(***************************************************************************)
(* The telemetry path: the 200 Hz telemetry thread                         *)
(* (kernel/telemetry/telemetry_service.c), the UART adapter it sends       *)
(* through (platform/transport/telemetry_uart_stm32.c) with its DMA state  *)
(* (modules/transport/dma_tx_state.c), the parts of the vendored STM32 HAL *)
(* the adapter relies on, the DMA channel and the USART, and the caller    *)
(* that starts and stops the service (app/main.c).                         *)
(*                                                                         *)
(* The firmware runs on one core.  A thread step is a piece of code no     *)
(* interrupt can split: a critical section, one HAL call, one assignment   *)
(* another context reads.  Interrupts arrive between any two of them.  An  *)
(* asserted and enabled interrupt is taken before the next thread step.    *)
(*                                                                         *)
(* A frame is its sequence number and the IMU_STATUS_TELEMETRY_DROPPED     *)
(* bit; the 40 bytes the encoder lays out are not told apart.              *)
(***************************************************************************)
EXTENDS Naturals, FiniteSets

CONSTANTS
  SeqMod,   \* the range of the frame sequence number: 2^16 in the code
  MaxDrops, \* where the drop counter saturates: 2^32 - 1 in the code
  NoFrame   \* a buffer half written or never written, no frame received yet

Buffer == {0, 1}
Frame  == [seq : 0 .. SeqMod - 1, dropped : BOOLEAN]

ASSUME TelemetryAssumption ==
  /\ SeqMod \in Nat \ {0}
  /\ MaxDrops \in Nat
  /\ NoFrame \notin Frame

VARIABLES
  service_started, thread_should_run, thread_stopped,
  thread,               \* where the telemetry thread is in its loop
  caller,               \* where the caller of telemetry_service_deinit is
  telemetry_attempt,    \* next_sequence and drop_sticky
  attempt,              \* the frame of the attempt in progress
  next_buffer,
  telemetry_tx_buffers,
  telemetry_drop_count,
  uart_initialized,
  telemetry_dma_state,  \* busy and failure_pending
  nvic_enabled,         \* DMA1_Channel7 and USART2 interrupts enabled
  gState,               \* state of the HAL's UART handle
  dmat,                 \* USART_CR3_DMAT: the USART requests DMA transfers
  tcie,                 \* USART_CR1_TCIE: transmission-complete interrupt on
  tc,                   \* the last byte has left the shift register
  dma_channel,          \* the buffers the enabled DMA channel reads: {} or {b}
  dma_flag,             \* pending flag of the channel
  received              \* the last frame the receiver got in this session

service  == <<service_started, thread_should_run, thread_stopped, caller>>
policy   == <<telemetry_attempt, attempt, next_buffer, telemetry_tx_buffers,
              telemetry_drop_count>>
uart     == <<uart_initialized, telemetry_dma_state, nvic_enabled>>
hal      == <<gState, dmat, tcie>>
hardware == <<tc, dma_channel, dma_flag, received>>
vars     == <<service, thread, policy, uart, hal, hardware>>

-----------------------------------------------------------------------------
(* dma_tx_state.c and telemetry_policy.c *)

DmaIdle == [busy |-> FALSE, failure_pending |-> FALSE]

(* Faulty forms: busy never set or never cleared, an error that does not     *)
(* free the state.                                                           *)
KeepState(s)       == s
AsyncErrorHolds(s) == [s EXCEPT !.failure_pending = TRUE]

Reserve(s)     == [s EXCEPT !.busy = TRUE]
Release(s)     == [s EXCEPT !.busy = FALSE]
AsyncError(s)  == IF s.busy THEN [busy |-> FALSE, failure_pending |-> TRUE] ELSE s
TakeFailure(s) == [s EXCEPT !.failure_pending = FALSE]

AttemptReset == [next_sequence |-> 0, drop_sticky |-> FALSE]

(* Faulty forms: a sequence number that does not wrap, a drop not recorded. *)
AttemptBeginUnbounded(t) == [t EXCEPT !.next_sequence = @ + 1]
DropForgotten(t)         == t

AttemptBegin(t)   == [t EXCEPT !.next_sequence = (@ + 1) % SeqMod]
AttemptDropped(t) == [t EXCEPT !.drop_sticky = TRUE]
AttemptQueued(t)  == [t EXCEPT !.drop_sticky = FALSE]

(* Faulty form: the buffer just handed to the DMA is used again. *)
SameBuffer(b)  == b
OtherBuffer(b) == 1 - b

(* imu_service_record_telemetry_drop: the counter saturates. *)
CountDrop(n) == IF n = MaxDrops THEN n ELSE n + 1

-----------------------------------------------------------------------------
(* Interrupt lines.  Both are level sensitive: a line stays asserted until  *)
(* the handler clears the flag that asserts it.                             *)

DmaIrqAsserted   == dma_flag # "none"
UsartIrqAsserted == tcie /\ tc
IrqTaken         == nvic_enabled /\ (DmaIrqAsserted \/ UsartIrqAsserted)

(* A thread runs only while no enabled interrupt is asserted. *)
ThreadAt(pc)   == thread = pc /\ ~IrqTaken
CallerAt(pc)   == caller = pc /\ ~IrqTaken

-----------------------------------------------------------------------------
(* The telemetry thread *)

(* The delay is over and the service still runs: take the snapshot, consume *)
(* a sequence number, and start encoding into the next buffer.              *)
BeginAttempt ==
  /\ ThreadAt("delay")
  /\ thread_should_run
  /\ attempt' = [seq     |-> telemetry_attempt.next_sequence,
                 dropped |-> telemetry_attempt.drop_sticky]
  /\ telemetry_attempt' = AttemptBegin(telemetry_attempt)
  /\ telemetry_tx_buffers' = [telemetry_tx_buffers EXCEPT ![next_buffer] = NoFrame]
  /\ thread' = "encode"
  /\ UNCHANGED <<service, next_buffer, telemetry_drop_count, uart, hal, hardware>>

FinishEncode ==
  /\ ThreadAt("encode")
  /\ telemetry_tx_buffers' = [telemetry_tx_buffers EXCEPT ![next_buffer] = attempt]
  /\ thread' = "send"
  /\ UNCHANGED <<service, telemetry_attempt, attempt, next_buffer,
                 telemetry_drop_count, uart, hal, hardware>>

(* The critical section of telemetry_uart_send.  SendRejected covers its    *)
(* three early returns: not initialised, an asynchronous error to report,   *)
(* and a transfer still in flight.                                          *)
SendReserved ==
  /\ ThreadAt("send")
  /\ uart_initialized
  /\ ~telemetry_dma_state.failure_pending
  /\ ~telemetry_dma_state.busy
  /\ telemetry_dma_state' = Reserve(telemetry_dma_state)
  /\ thread' = "start"
  /\ UNCHANGED <<service, policy, uart_initialized, nvic_enabled, hal, hardware>>

SendRejected ==
  /\ ThreadAt("send")
  /\ \/ ~uart_initialized
     \/ telemetry_dma_state.failure_pending
     \/ telemetry_dma_state.busy
  /\ telemetry_dma_state' = IF uart_initialized
                            THEN TakeFailure(telemetry_dma_state)
                            ELSE telemetry_dma_state
  /\ thread' = "rejected"
  /\ UNCHANGED <<service, policy, uart_initialized, nvic_enabled, hal, hardware>>

(* HAL_UART_Transmit_DMA up to HAL_DMA_Start_IT.  When the HAL refuses, the *)
(* adapter releases what it reserved.                                       *)
HalTransmit ==
  /\ ThreadAt("start")
  /\ IF gState = "READY"
     THEN /\ gState' = "BUSY_TX"
          /\ dma_channel' = {next_buffer}
          /\ thread' = "enable"
          /\ UNCHANGED telemetry_dma_state
     ELSE /\ telemetry_dma_state' = Release(telemetry_dma_state)
          /\ thread' = "rejected"
          /\ UNCHANGED <<gState, dma_channel>>
  /\ UNCHANGED <<service, policy, uart_initialized, nvic_enabled, dmat, tcie,
                 tc, dma_flag, received>>

(* The end of HAL_UART_Transmit_DMA: clear TC, let the USART request DMA. *)
HalEnableRequests ==
  /\ ThreadAt("enable")
  /\ tc' = FALSE
  /\ dmat' = TRUE
  /\ thread' = "started"
  /\ UNCHANGED <<service, policy, uart, gState, tcie, dma_channel, dma_flag, received>>

FrameQueued ==
  /\ ThreadAt("started")
  /\ next_buffer' = OtherBuffer(next_buffer)
  /\ telemetry_attempt' = AttemptQueued(telemetry_attempt)
  /\ thread' = "delay"
  /\ UNCHANGED <<service, attempt, telemetry_tx_buffers, telemetry_drop_count,
                 uart, hal, hardware>>

RecordDrop ==
  /\ ThreadAt("rejected")
  /\ telemetry_attempt' = AttemptDropped(telemetry_attempt)
  /\ telemetry_drop_count' = CountDrop(telemetry_drop_count)
  /\ thread' = "delay"
  /\ UNCHANGED <<service, attempt, next_buffer, telemetry_tx_buffers, uart, hal, hardware>>

ThreadStops ==
  /\ ThreadAt("delay")
  /\ ~thread_should_run
  /\ thread_stopped' = TRUE
  /\ thread' = "none"
  /\ UNCHANGED <<service_started, thread_should_run, caller, policy, uart, hal, hardware>>

ThreadStep ==
  \/ BeginAttempt \/ FinishEncode \/ SendReserved \/ SendRejected
  \/ HalTransmit \/ HalEnableRequests \/ FrameQueued \/ RecordDrop \/ ThreadStops

-----------------------------------------------------------------------------
(* Hardware: the DMA channel drains its buffer into the USART, or stops on a *)
(* transfer error; then the shift register empties.                          *)

DmaReading == dmat /\ dma_flag = "none"

(* The channel has read its buffer to the end; the receiver gets the frame. *)
DmaCompletes ==
  /\ DmaReading
  /\ \E b \in dma_channel : received' = telemetry_tx_buffers[b]
  /\ dma_flag' = "TC"
  /\ UNCHANGED <<service, thread, policy, uart, hal, tc, dma_channel>>

DmaFails ==
  /\ DmaReading
  /\ dma_channel # {}
  /\ dma_flag' = "TE"
  /\ UNCHANGED <<service, thread, policy, uart, hal, tc, dma_channel, received>>

(* The USART may run dry between two bytes as well as after the last. *)
ShiftOut ==
  /\ ~tc
  /\ tc' = TRUE
  /\ UNCHANGED <<service, thread, policy, uart, hal, dma_channel, dma_flag, received>>

-----------------------------------------------------------------------------
(* Interrupt handlers *)

(* DMA1_Channel7_IRQHandler, transfer complete: UART_DMATransmitCplt. *)
DmaCompleteIrq ==
  /\ nvic_enabled /\ uart_initialized
  /\ dma_flag = "TC"
  /\ dma_flag' = "none"
  /\ dma_channel' = {}
  /\ dmat' = FALSE
  /\ tcie' = TRUE
  /\ UNCHANGED <<service, thread, policy, uart, gState, tc, received>>

(* DMA1_Channel7_IRQHandler, transfer error: UART_DMAError, then            *)
(* HAL_UART_ErrorCallback.  DMAT stays set.                                 *)
DmaErrorIrq ==
  /\ nvic_enabled /\ uart_initialized
  /\ dma_flag = "TE"
  /\ dma_flag' = "none"
  /\ dma_channel' = {}
  /\ IF gState = "BUSY_TX" /\ dmat
     THEN gState' = "READY" /\ tcie' = FALSE
     ELSE UNCHANGED <<gState, tcie>>
  /\ telemetry_dma_state' = AsyncError(telemetry_dma_state)
  /\ UNCHANGED <<service, thread, policy, uart_initialized, nvic_enabled, dmat,
                 tc, received>>

(* USART2_IRQHandler: UART_EndTransmit_IT, then HAL_UART_TxCpltCallback. *)
UsartIrq ==
  /\ nvic_enabled /\ uart_initialized
  /\ UsartIrqAsserted
  /\ tcie' = FALSE
  /\ gState' = "READY"
  /\ telemetry_dma_state' = Release(telemetry_dma_state)
  /\ UNCHANGED <<service, thread, policy, uart_initialized, nvic_enabled, dmat, hardware>>

(* Either handler once the adapter is marked uninitialised: it returns       *)
(* without clearing the flag, so the line stays asserted.                    *)
IgnoredIrq ==
  /\ IrqTaken /\ ~uart_initialized
  /\ UNCHANGED vars

Interrupt == DmaCompleteIrq \/ DmaErrorIrq \/ UsartIrq \/ IgnoredIrq

-----------------------------------------------------------------------------
(* telemetry_service_init and telemetry_service_deinit, called from main *)

ResetService ==
  /\ telemetry_attempt' = AttemptReset
  /\ next_buffer' = 0
  /\ thread_stopped' = FALSE
  /\ telemetry_dma_state' = DmaIdle

ServiceInit ==
  /\ CallerAt("idle") /\ ~service_started
  /\ ResetService
  /\ uart_initialized' = TRUE
  /\ nvic_enabled' = TRUE
  /\ gState' = "READY"
  /\ thread_should_run' = TRUE
  /\ service_started' = TRUE
  /\ thread' = "delay"
  /\ received' = NoFrame
  /\ UNCHANGED <<caller, attempt, telemetry_tx_buffers, telemetry_drop_count,
                 dmat, tcie, tc, dma_channel, dma_flag>>

(* HAL_DMA_Init, HAL_UART_Init, rt_thread_init or rt_thread_startup fails;   *)
(* what was set up is rolled back.                                           *)
ServiceInitFails ==
  /\ CallerAt("idle") /\ ~service_started
  /\ ResetService
  /\ thread_should_run' = FALSE
  /\ UNCHANGED <<service_started, caller, thread, attempt, telemetry_tx_buffers,
                 telemetry_drop_count, uart_initialized, nvic_enabled, hal, hardware>>

DeinitRequest ==
  /\ CallerAt("idle") /\ service_started
  /\ thread_should_run' = FALSE
  /\ caller' = "wait"
  /\ UNCHANGED <<service_started, thread_stopped, thread, policy, uart, hal, hardware>>

(* service_wait_for_thread_stop gives up; the caller may try again. *)
DeinitTimesOut ==
  /\ CallerAt("wait") /\ ~thread_stopped
  /\ caller' = "idle"
  /\ UNCHANGED <<service_started, thread_should_run, thread_stopped, thread,
                 policy, uart, hal, hardware>>

(* cleanup_uart, in its order: mark the adapter, disable the interrupts,     *)
(* release the UART and the DMA channel, clear the state.                    *)
CleanupMark ==
  /\ CallerAt("wait") /\ thread_stopped
  /\ uart_initialized' = FALSE
  /\ caller' = "disable"
  /\ UNCHANGED <<service_started, thread_should_run, thread_stopped, thread,
                 policy, telemetry_dma_state, nvic_enabled, hal, hardware>>

(* Faulty form: the interrupts stay enabled. *)
CleanupKeepsIrq ==
  /\ CallerAt("disable")
  /\ caller' = "release"
  /\ UNCHANGED <<service_started, thread_should_run, thread_stopped, thread,
                 policy, uart, hal, hardware>>

CleanupDisableIrq ==
  /\ CallerAt("disable")
  /\ nvic_enabled' = FALSE
  /\ caller' = "release"
  /\ UNCHANGED <<service_started, thread_should_run, thread_stopped, thread,
                 policy, uart_initialized, telemetry_dma_state, hal, hardware>>

CleanupRelease ==
  /\ CallerAt("release")
  /\ gState' = "RESET"
  /\ dmat' = FALSE /\ tcie' = FALSE
  /\ dma_channel' = {} /\ dma_flag' = "none"
  /\ telemetry_dma_state' = DmaIdle
  /\ service_started' = FALSE
  /\ caller' = "idle"
  /\ UNCHANGED <<thread_should_run, thread_stopped, thread, policy,
                 uart_initialized, nvic_enabled, tc, received>>

DeinitStep == CleanupMark \/ CleanupDisableIrq \/ CleanupRelease

-----------------------------------------------------------------------------

Init ==
  /\ service_started = FALSE /\ thread_should_run = FALSE /\ thread_stopped = FALSE
  /\ thread = "none" /\ caller = "idle"
  /\ telemetry_attempt = AttemptReset
  /\ attempt = [seq |-> 0, dropped |-> FALSE]
  /\ next_buffer = 0
  /\ telemetry_tx_buffers = [b \in Buffer |-> NoFrame]
  /\ telemetry_drop_count = 0
  /\ uart_initialized = FALSE
  /\ telemetry_dma_state = DmaIdle
  /\ nvic_enabled = FALSE
  /\ gState = "RESET" /\ dmat = FALSE /\ tcie = FALSE
  /\ tc = TRUE /\ dma_channel = {} /\ dma_flag = "none"
  /\ received = NoFrame

Next ==
  \/ ThreadStep
  \/ DmaCompletes \/ DmaFails \/ ShiftOut
  \/ Interrupt
  \/ ServiceInit \/ ServiceInitFails \/ DeinitRequest \/ DeinitTimesOut \/ DeinitStep

(* The thread and the deinit caller are scheduled, the hardware finishes     *)
(* what it started, and an asserted interrupt is served.  Nobody is obliged  *)
(* to start or to stop the service, and no transfer is obliged to fail.      *)
Fairness ==
  /\ WF_vars(ThreadStep)
  /\ WF_vars(DeinitStep)
  /\ WF_vars(DmaCompletes \/ DmaFails)
  /\ WF_vars(ShiftOut)
  /\ WF_vars(Interrupt)

Spec     == Init /\ [][Next]_vars
FairSpec == Spec /\ Fairness
-----------------------------------------------------------------------------
(* Properties *)

TypeOK ==
  /\ service_started \in BOOLEAN
  /\ thread_should_run \in BOOLEAN
  /\ thread_stopped \in BOOLEAN
  /\ thread \in {"none", "delay", "encode", "send", "start", "enable",
                 "started", "rejected"}
  /\ caller \in {"idle", "wait", "disable", "release"}
  /\ telemetry_attempt \in [next_sequence : 0 .. SeqMod - 1, drop_sticky : BOOLEAN]
  /\ attempt \in Frame
  /\ next_buffer \in Buffer
  /\ telemetry_tx_buffers \in [Buffer -> Frame \cup {NoFrame}]
  /\ telemetry_drop_count \in 0 .. MaxDrops
  /\ uart_initialized \in BOOLEAN
  /\ telemetry_dma_state \in [busy : BOOLEAN, failure_pending : BOOLEAN]
  /\ nvic_enabled \in BOOLEAN
  /\ gState \in {"RESET", "READY", "BUSY_TX"}
  /\ dmat \in BOOLEAN /\ tcie \in BOOLEAN /\ tc \in BOOLEAN
  /\ dma_channel \in SUBSET Buffer
  /\ dma_flag \in {"none", "TC", "TE"}
  /\ received \in Frame \cup {NoFrame}

(* The buffer handed to the DMA channel keeps its content until the channel *)
(* has read it (telemetry_uart.h:41): the thread never encodes into it, and *)
(* what the channel reads is a whole frame.                                 *)
BufferStable ==
  /\ thread = "encode" => next_buffer \notin dma_channel
  /\ \A b \in dma_channel : telemetry_tx_buffers[b] # NoFrame

(* dma_tx_state tells the truth about the HAL: while the adapter is          *)
(* initialised, the channel and the handle are only in use when busy is set, *)
(* and a thread that reserved the state finds the HAL ready.                 *)
BusyCoversTransfer ==
  /\ uart_initialized /\ ~telemetry_dma_state.busy =>
        gState = "READY" /\ dma_channel = {} /\ ~tcie
  /\ thread = "start" => gState = "READY"

(* An asynchronous failure is reported before the next transfer starts: it   *)
(* is never pending while a transfer is in flight.                           *)
FailureBeforeReuse == ~(telemetry_dma_state.busy /\ telemetry_dma_state.failure_pending)

(* No interrupt and no transfer outlives the service: once deinit has        *)
(* finished, or before init, the peripherals are quiet.                      *)
QuietWhenStopped ==
  ~service_started =>
     ~nvic_enabled /\ dma_channel = {} /\ dma_flag = "none" /\ ~tcie /\ gState = "RESET"

(* A receiver that sees a gap in the sequence numbers sees it flagged: the   *)
(* frame after the gap carries IMU_STATUS_TELEMETRY_DROPPED, whichever of    *)
(* busy, start failure or asynchronous error lost the frames between.        *)
GapIsFlagged ==
  [][ received # NoFrame /\ received' # NoFrame /\ received' # received =>
        \/ received'.seq = (received.seq + 1) % SeqMod
        \/ received'.dropped ]_received

(* A transfer that was started is released, by completion or by error, as    *)
(* long as nobody tears the adapter down.                                    *)
BusyIsReleased ==
  telemetry_dma_state.busy /\ uart_initialized
     ~> ~telemetry_dma_state.busy \/ ~uart_initialized

(* telemetry_service_deinit returns, with the UART released or after its     *)
(* timeout (telemetry_service.h:24-26).                                      *)
DeinitReturns == caller = "wait" ~> caller = "idle"
=============================================================================
