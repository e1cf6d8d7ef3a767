------------------------- MODULE TelemetryLinkProofs -------------------------
(***************************************************************************)
(* For every range of the sequence number and of the drop counter: the     *)
(* buffer under DMA is stable, the DMA state matches the HAL, a failure is *)
(* reported before the next transfer, a gap in the numbers is flagged, and *)
(* a stopped service is quiet.                                             *)
(*                                                                         *)
(* The second part is about the debug stream: for every range of the       *)
(* sequence number, number of frames, amount of damage and way of reading, *)
(* its parser loses no frame that came through whole.                      *)
(*                                                                         *)
(* The third is about the contents of the frames: for all samples, of the  *)
(* types of the two structs, a frame holds what was measured, and its CRC  *)
(* tells the damage of any two adjacent bytes.                             *)
(***************************************************************************)
EXTENDS MCTelemetryLink, SequenceTheorems, WellFoundedInduction, TLAPS

-----------------------------------------------------------------------------
(* The inductive invariant *)

busy == telemetry_dma_state.busy

(* Who runs when: a thread exists only in a started service, and cleanup    *)
(* begins only after it has stopped.                                        *)
LifecycleInv ==
  /\ thread # "none" => /\ service_started /\ uart_initialized /\ ~thread_stopped
                        /\ caller \in {"idle", "wait"}
  /\ service_started /\ thread_stopped => thread = "none"
  /\ uart_initialized => service_started /\ nvic_enabled
  /\ service_started /\ caller \in {"idle", "wait"} => uart_initialized
  /\ caller = "disable" => nvic_enabled
  /\ caller # "idle" => service_started
  /\ caller \in {"disable", "release"} => thread = "none" /\ ~uart_initialized
  /\ caller = "release" => ~nvic_enabled

(* The channel is on, or the last bytes are draining, only while busy, and  *)
(* never both; the HAL's handle is busy exactly then.  A state that is busy  *)
(* with the handle ready has just been reserved.                            *)
TransferInv ==
  /\ uart_initialized =>
       /\ gState \in {"READY", "BUSY_TX"}
       /\ gState = "BUSY_TX" <=> dma_channel # {} \/ tcie
       /\ busy <=> gState = "BUSY_TX" \/ thread = "start"
       /\ tcie => dma_channel = {}
       /\ dma_flag # "none" => dma_channel # {} /\ dmat
  /\ thread = "start" => gState = "READY"

(* The channel reads the buffer of the attempt while the thread is starting  *)
(* it, and the other one at any other time; what it reads has been encoded.  *)
BufferInv ==
  /\ thread \in {"enable", "started"} => dma_channel \subseteq {next_buffer}
  /\ thread \notin {"enable", "started"} => dma_channel \subseteq {1 - next_buffer}
  /\ thread \in {"send", "start", "enable", "started"} =>
       telemetry_tx_buffers[next_buffer] # NoFrame
  /\ \A b \in dma_channel : telemetry_tx_buffers[b] # NoFrame

IInv == /\ TypeOK /\ LifecycleInv /\ TransferInv /\ BufferInv
        /\ FailureBeforeReuse /\ QuietWhenStopped

-----------------------------------------------------------------------------
(* The operators on the two records, the buffer index and the counter *)

DmaState == [busy : BOOLEAN, failure_pending : BOOLEAN]
Attempt  == [next_sequence : 0 .. SeqMod - 1, drop_sticky : BOOLEAN]

(* dma_tx_state.c stays within its two flags. *)
LEMMA DmaStateType ==
  ASSUME NEW s \in DmaState
  PROVE  /\ DmaIdle \in DmaState
         /\ Reserve(s) \in DmaState /\ Release(s) \in DmaState
         /\ AsyncError(s) \in DmaState /\ TakeFailure(s) \in DmaState
  BY DEF DmaState, DmaIdle, Reserve, Release, AsyncError, TakeFailure

(* telemetry_policy.c keeps the sequence number in range. *)
LEMMA AttemptType ==
  ASSUME NEW t \in Attempt
  PROVE  /\ AttemptReset \in Attempt
         /\ AttemptBegin(t) \in Attempt
         /\ AttemptDropped(t) \in Attempt /\ AttemptQueued(t) \in Attempt
<1>1. AttemptReset \in Attempt
  BY TelemetryAssumption DEF Attempt, AttemptReset
<1>2. AttemptBegin(t) \in Attempt
  <2>1. t.next_sequence \in Nat /\ SeqMod \in Nat /\ SeqMod > 0
    BY TelemetryAssumption DEF Attempt
  <2>2. (t.next_sequence + 1) % SeqMod \in 0 .. SeqMod - 1
    BY <2>1, Z3
  <2> QED BY <2>2 DEF Attempt, AttemptBegin
<1>3. AttemptDropped(t) \in Attempt /\ AttemptQueued(t) \in Attempt
  BY DEF Attempt, AttemptDropped, AttemptQueued
<1> QED BY <1>1, <1>2, <1>3

LEMMA OtherBufferType ==
  /\ 0 \in Buffer
  /\ \A b \in Buffer : OtherBuffer(b) \in Buffer
  BY DEF Buffer, OtherBuffer

(* imu_service_record_telemetry_drop: the drop counter saturates. *)
LEMMA CountDropType == \A n \in 0 .. MaxDrops : CountDrop(n) \in 0 .. MaxDrops
  BY TelemetryAssumption DEF CountDrop

-----------------------------------------------------------------------------
(* telemetry_thread_entry and telemetry_uart_send *)

LEMMA ThreadIInv == ASSUME IInv, ThreadStep PROVE IInv'
<1> USE TelemetryAssumption DEF IInv
<1>1. CASE BeginAttempt
  <2>1. TypeOK'
    <3>1. attempt' \in Frame
      BY <1>1 DEF BeginAttempt, TypeOK, Frame
    <3>2. telemetry_attempt' \in Attempt
      BY <1>1, AttemptType DEF BeginAttempt, TypeOK, Attempt
    <3>3. telemetry_tx_buffers' \in [Buffer -> Frame \cup {NoFrame}]
      BY <1>1 DEF BeginAttempt, TypeOK
    <3> QED BY <1>1, <3>1, <3>2, <3>3
            DEF BeginAttempt, service, uart, hal, hardware, TypeOK, Attempt
  <2>2. LifecycleInv'
    BY <1>1 DEF BeginAttempt, service, uart, hal, hardware, ThreadAt,
        AttemptBegin, LifecycleInv, TypeOK, QuietWhenStopped
  <2>3. TransferInv'
    BY <1>1 DEF BeginAttempt, service, uart, hal, hardware, ThreadAt,
        AttemptBegin, TransferInv, LifecycleInv, QuietWhenStopped, TypeOK,
        busy
  <2>4. BufferInv'
    BY <1>1 DEF BeginAttempt, service, uart, hal, hardware, ThreadAt,
        AttemptBegin, BufferInv, TypeOK, LifecycleInv, TransferInv,
        QuietWhenStopped, Buffer, Frame, busy
  <2>5. FailureBeforeReuse' /\ QuietWhenStopped'
    BY <1>1 DEF BeginAttempt, service, uart, hal, hardware, ThreadAt,
        AttemptBegin, FailureBeforeReuse, QuietWhenStopped, TypeOK,
        LifecycleInv, TransferInv, busy
  <2> QED BY <2>1, <2>2, <2>3, <2>4, <2>5
<1>2. CASE FinishEncode
  <2>1. TypeOK'
    BY <1>2 DEF FinishEncode, service, uart, hal, hardware, ThreadAt, TypeOK,
        DmaState, Attempt
  <2>2. LifecycleInv'
    BY <1>2 DEF FinishEncode, service, uart, hal, hardware, ThreadAt,
        LifecycleInv, TypeOK, QuietWhenStopped
  <2>3. TransferInv'
    BY <1>2 DEF FinishEncode, service, uart, hal, hardware, ThreadAt,
        TransferInv, LifecycleInv, QuietWhenStopped, TypeOK, busy
  <2>4. BufferInv'
    BY <1>2 DEF FinishEncode, service, uart, hal, hardware, ThreadAt,
        BufferInv, TypeOK, LifecycleInv, TransferInv, QuietWhenStopped,
        Buffer, Frame, busy
  <2>5. FailureBeforeReuse' /\ QuietWhenStopped'
    BY <1>2 DEF FinishEncode, service, uart, hal, hardware, ThreadAt,
        FailureBeforeReuse, QuietWhenStopped, TypeOK, LifecycleInv,
        TransferInv, busy
  <2> QED BY <2>1, <2>2, <2>3, <2>4, <2>5
<1>3. CASE SendReserved
  <2>1. TypeOK'
    BY <1>3, DmaStateType DEF SendReserved, service, policy, hal, hardware,
        ThreadAt, TypeOK, DmaState, Attempt
  <2>2. LifecycleInv'
    BY <1>3 DEF SendReserved, service, policy, hal, hardware, ThreadAt,
        Reserve, LifecycleInv, TypeOK, QuietWhenStopped
  <2>3. TransferInv'
    BY <1>3 DEF SendReserved, service, policy, hal, hardware, ThreadAt,
        Reserve, TransferInv, LifecycleInv, QuietWhenStopped, TypeOK, busy
  <2>4. BufferInv'
    BY <1>3 DEF SendReserved, service, policy, hal, hardware, ThreadAt,
        Reserve, BufferInv, TypeOK, LifecycleInv, TransferInv,
        QuietWhenStopped, Buffer, Frame, busy
  <2>5. FailureBeforeReuse' /\ QuietWhenStopped'
    BY <1>3 DEF SendReserved, service, policy, hal, hardware, ThreadAt,
        Reserve, FailureBeforeReuse, QuietWhenStopped, TypeOK, LifecycleInv,
        TransferInv, busy
  <2> QED BY <2>1, <2>2, <2>3, <2>4, <2>5
<1>4. CASE SendRejected
  <2>1. TypeOK'
    BY <1>4, DmaStateType DEF SendRejected, service, policy, hal, hardware,
        ThreadAt, TypeOK, DmaState, Attempt
  <2>2. LifecycleInv'
    BY <1>4 DEF SendRejected, service, policy, hal, hardware, ThreadAt,
        TakeFailure, LifecycleInv, TypeOK, QuietWhenStopped
  <2>3. TransferInv'
    BY <1>4 DEF SendRejected, service, policy, hal, hardware, ThreadAt,
        TakeFailure, TransferInv, LifecycleInv, QuietWhenStopped, TypeOK, busy
  <2>4. BufferInv'
    BY <1>4 DEF SendRejected, service, policy, hal, hardware, ThreadAt,
        TakeFailure, BufferInv, TypeOK, LifecycleInv, TransferInv,
        QuietWhenStopped, Buffer, Frame, busy
  <2>5. FailureBeforeReuse' /\ QuietWhenStopped'
    BY <1>4 DEF SendRejected, service, policy, hal, hardware, ThreadAt,
        TakeFailure, FailureBeforeReuse, QuietWhenStopped, TypeOK,
        LifecycleInv, TransferInv, busy
  <2> QED BY <2>1, <2>2, <2>3, <2>4, <2>5
<1>5. CASE HalTransmit
  <2>1. TypeOK'
    BY <1>5, DmaStateType DEF HalTransmit, service, policy, ThreadAt, TypeOK,
        DmaState, Attempt
  <2>2. LifecycleInv'
    BY <1>5 DEF HalTransmit, service, policy, ThreadAt, Release, LifecycleInv,
        TypeOK, QuietWhenStopped
  <2>3. TransferInv'
    BY <1>5 DEF HalTransmit, service, policy, ThreadAt, Release, TransferInv,
        LifecycleInv, QuietWhenStopped, TypeOK, busy
  <2>4. BufferInv'
    BY <1>5 DEF HalTransmit, service, policy, ThreadAt, Release, BufferInv,
        TypeOK, LifecycleInv, TransferInv, QuietWhenStopped, Buffer, Frame,
        busy
  <2>5. FailureBeforeReuse' /\ QuietWhenStopped'
    BY <1>5 DEF HalTransmit, service, policy, ThreadAt, Release,
        FailureBeforeReuse, QuietWhenStopped, TypeOK, LifecycleInv,
        TransferInv, busy
  <2> QED BY <2>1, <2>2, <2>3, <2>4, <2>5
<1>6. CASE HalEnableRequests
  <2>1. TypeOK'
    <3>1. dmat' \in BOOLEAN /\ tc' \in BOOLEAN
      BY <1>6 DEF HalEnableRequests, service, policy, uart
    <3> QED BY <1>6, <3>1 DEF HalEnableRequests, service, policy, uart,
                ThreadAt, TypeOK, DmaState, Attempt
  <2>2. LifecycleInv'
    BY <1>6 DEF HalEnableRequests, service, policy, uart, ThreadAt,
        LifecycleInv, TypeOK, QuietWhenStopped
  <2>3. TransferInv'
    BY <1>6 DEF HalEnableRequests, service, policy, uart, ThreadAt,
        TransferInv, LifecycleInv, QuietWhenStopped, TypeOK, busy
  <2>4. BufferInv'
    BY <1>6 DEF HalEnableRequests, service, policy, uart, ThreadAt, BufferInv,
        TypeOK, LifecycleInv, TransferInv, QuietWhenStopped, Buffer, Frame,
        busy
  <2>5. FailureBeforeReuse' /\ QuietWhenStopped'
    BY <1>6 DEF HalEnableRequests, service, policy, uart, ThreadAt,
        FailureBeforeReuse, QuietWhenStopped, TypeOK, LifecycleInv,
        TransferInv, busy
  <2> QED BY <2>1, <2>2, <2>3, <2>4, <2>5
<1>7. CASE FrameQueued
  <2>1. TypeOK'
    BY <1>7, AttemptType, OtherBufferType DEF FrameQueued, service, uart, hal,
        hardware, ThreadAt, TypeOK, DmaState, Attempt
  <2>2. LifecycleInv'
    BY <1>7 DEF FrameQueued, service, uart, hal, hardware, ThreadAt,
        AttemptQueued, OtherBuffer, LifecycleInv, TypeOK, QuietWhenStopped
  <2>3. TransferInv'
    BY <1>7 DEF FrameQueued, service, uart, hal, hardware, ThreadAt,
        AttemptQueued, OtherBuffer, TransferInv, LifecycleInv,
        QuietWhenStopped, TypeOK, busy
  <2>4. BufferInv'
    BY <1>7 DEF FrameQueued, service, uart, hal, hardware, ThreadAt,
        AttemptQueued, OtherBuffer, BufferInv, TypeOK, LifecycleInv,
        TransferInv, QuietWhenStopped, Buffer, Frame, busy
  <2>5. FailureBeforeReuse' /\ QuietWhenStopped'
    BY <1>7 DEF FrameQueued, service, uart, hal, hardware, ThreadAt,
        AttemptQueued, OtherBuffer, FailureBeforeReuse, QuietWhenStopped,
        TypeOK, LifecycleInv, TransferInv, busy
  <2> QED BY <2>1, <2>2, <2>3, <2>4, <2>5
<1>8. CASE RecordDrop
  <2>1. TypeOK'
    BY <1>8, AttemptType, CountDropType DEF RecordDrop, service, uart, hal,
        hardware, ThreadAt, TypeOK, DmaState, Attempt
  <2>2. LifecycleInv'
    BY <1>8 DEF RecordDrop, service, uart, hal, hardware, ThreadAt,
        AttemptDropped, CountDrop, LifecycleInv, TypeOK, QuietWhenStopped
  <2>3. TransferInv'
    BY <1>8 DEF RecordDrop, service, uart, hal, hardware, ThreadAt,
        AttemptDropped, CountDrop, TransferInv, LifecycleInv,
        QuietWhenStopped, TypeOK, busy
  <2>4. BufferInv'
    BY <1>8 DEF RecordDrop, service, uart, hal, hardware, ThreadAt,
        AttemptDropped, CountDrop, BufferInv, TypeOK, LifecycleInv,
        TransferInv, QuietWhenStopped, Buffer, Frame, busy
  <2>5. FailureBeforeReuse' /\ QuietWhenStopped'
    BY <1>8 DEF RecordDrop, service, uart, hal, hardware, ThreadAt,
        AttemptDropped, CountDrop, FailureBeforeReuse, QuietWhenStopped,
        TypeOK, LifecycleInv, TransferInv, busy
  <2> QED BY <2>1, <2>2, <2>3, <2>4, <2>5
<1>9. CASE ThreadStops
  <2>1. TypeOK'
    <3>1. thread_stopped' \in BOOLEAN
      BY <1>9 DEF ThreadStops, policy, uart, hal, hardware
    <3> QED BY <1>9, <3>1 DEF ThreadStops, policy, uart, hal, hardware,
                ThreadAt, TypeOK, DmaState, Attempt
  <2>2. LifecycleInv'
    BY <1>9 DEF ThreadStops, policy, uart, hal, hardware, ThreadAt,
        LifecycleInv, TypeOK, QuietWhenStopped
  <2>3. TransferInv'
    BY <1>9 DEF ThreadStops, policy, uart, hal, hardware, ThreadAt,
        TransferInv, LifecycleInv, QuietWhenStopped, TypeOK, busy
  <2>4. BufferInv'
    BY <1>9 DEF ThreadStops, policy, uart, hal, hardware, ThreadAt, BufferInv,
        TypeOK, LifecycleInv, TransferInv, QuietWhenStopped, Buffer, Frame,
        busy
  <2>5. FailureBeforeReuse' /\ QuietWhenStopped'
    BY <1>9 DEF ThreadStops, policy, uart, hal, hardware, ThreadAt,
        FailureBeforeReuse, QuietWhenStopped, TypeOK, LifecycleInv,
        TransferInv, busy
  <2> QED BY <2>1, <2>2, <2>3, <2>4, <2>5
<1> QED BY <1>1, <1>2, <1>3, <1>4, <1>5, <1>6, <1>7, <1>8, <1>9 DEF ThreadStep

-----------------------------------------------------------------------------
(* DMA channel and shift register *)

LEMMA HardwareIInv == ASSUME IInv, DmaCompletes \/ DmaFails \/ ShiftOut PROVE IInv'
<1> USE TelemetryAssumption DEF IInv
<1>1. CASE DmaCompletes
  <2>1. TypeOK'
    BY <1>1 DEF DmaCompletes, service, policy, uart, hal, DmaReading, TypeOK,
        DmaState, Attempt
  <2>2. LifecycleInv'
    BY <1>1 DEF DmaCompletes, service, policy, uart, hal, DmaReading,
        LifecycleInv, TypeOK, QuietWhenStopped
  <2>3. TransferInv'
    BY <1>1 DEF DmaCompletes, service, policy, uart, hal, DmaReading,
        TransferInv, LifecycleInv, QuietWhenStopped, TypeOK, busy
  <2>4. BufferInv'
    BY <1>1 DEF DmaCompletes, service, policy, uart, hal, DmaReading,
        BufferInv, TypeOK, LifecycleInv, TransferInv, QuietWhenStopped,
        Buffer, Frame, busy
  <2>5. FailureBeforeReuse' /\ QuietWhenStopped'
    BY <1>1 DEF DmaCompletes, service, policy, uart, hal, DmaReading,
        FailureBeforeReuse, QuietWhenStopped, TypeOK, LifecycleInv,
        TransferInv, busy
  <2> QED BY <2>1, <2>2, <2>3, <2>4, <2>5
<1>2. CASE DmaFails
  <2>1. TypeOK'
    BY <1>2 DEF DmaFails, service, policy, uart, hal, DmaReading, TypeOK,
        DmaState, Attempt
  <2>2. LifecycleInv'
    BY <1>2 DEF DmaFails, service, policy, uart, hal, DmaReading,
        LifecycleInv, TypeOK, QuietWhenStopped
  <2>3. TransferInv'
    BY <1>2 DEF DmaFails, service, policy, uart, hal, DmaReading, TransferInv,
        LifecycleInv, QuietWhenStopped, TypeOK, busy
  <2>4. BufferInv'
    BY <1>2 DEF DmaFails, service, policy, uart, hal, DmaReading, BufferInv,
        TypeOK, LifecycleInv, TransferInv, QuietWhenStopped, Buffer, Frame,
        busy
  <2>5. FailureBeforeReuse' /\ QuietWhenStopped'
    BY <1>2 DEF DmaFails, service, policy, uart, hal, DmaReading,
        FailureBeforeReuse, QuietWhenStopped, TypeOK, LifecycleInv,
        TransferInv, busy
  <2> QED BY <2>1, <2>2, <2>3, <2>4, <2>5
<1>3. CASE ShiftOut
  <2>1. TypeOK'
    <3>1. tc' \in BOOLEAN
      BY <1>3 DEF ShiftOut, service, policy, uart, hal
    <3> QED BY <1>3, <3>1 DEF ShiftOut, service, policy, uart, hal, TypeOK,
                DmaState, Attempt
  <2>2. LifecycleInv'
    BY <1>3 DEF ShiftOut, service, policy, uart, hal, LifecycleInv, TypeOK,
        QuietWhenStopped
  <2>3. TransferInv'
    BY <1>3 DEF ShiftOut, service, policy, uart, hal, TransferInv,
        LifecycleInv, QuietWhenStopped, TypeOK, busy
  <2>4. BufferInv'
    BY <1>3 DEF ShiftOut, service, policy, uart, hal, BufferInv, TypeOK,
        LifecycleInv, TransferInv, QuietWhenStopped, Buffer, Frame, busy
  <2>5. FailureBeforeReuse' /\ QuietWhenStopped'
    BY <1>3 DEF ShiftOut, service, policy, uart, hal, FailureBeforeReuse,
        QuietWhenStopped, TypeOK, LifecycleInv, TransferInv, busy
  <2> QED BY <2>1, <2>2, <2>3, <2>4, <2>5
<1> QED BY <1>1, <1>2, <1>3

-----------------------------------------------------------------------------
(* The interrupt handlers *)

LEMMA InterruptIInv == ASSUME IInv, Interrupt PROVE IInv'
<1> USE TelemetryAssumption DEF IInv
<1>1. CASE DmaCompleteIrq
  <2>1. TypeOK'
    <3>1. dmat' \in BOOLEAN /\ tcie' \in BOOLEAN
      BY <1>1 DEF DmaCompleteIrq, service, policy, uart
    <3> QED BY <1>1, <3>1 DEF DmaCompleteIrq, service, policy, uart, TypeOK,
                DmaState, Attempt
  <2>2. LifecycleInv'
    BY <1>1 DEF DmaCompleteIrq, service, policy, uart, LifecycleInv, TypeOK,
        QuietWhenStopped
  <2>3. TransferInv'
    BY <1>1 DEF DmaCompleteIrq, service, policy, uart, TransferInv,
        LifecycleInv, QuietWhenStopped, TypeOK, busy
  <2>4. BufferInv'
    BY <1>1 DEF DmaCompleteIrq, service, policy, uart, BufferInv, TypeOK,
        LifecycleInv, TransferInv, QuietWhenStopped, Buffer, Frame, busy
  <2>5. FailureBeforeReuse' /\ QuietWhenStopped'
    BY <1>1 DEF DmaCompleteIrq, service, policy, uart, FailureBeforeReuse,
        QuietWhenStopped, TypeOK, LifecycleInv, TransferInv, busy
  <2> QED BY <2>1, <2>2, <2>3, <2>4, <2>5
<1>2. CASE DmaErrorIrq
  <2>1. TypeOK'
    <3>1. tcie' \in BOOLEAN
      BY <1>2 DEF DmaErrorIrq, TypeOK, service, policy
    <3> QED BY <1>2, <3>1, DmaStateType DEF DmaErrorIrq, service, policy,
                TypeOK, DmaState, Attempt
  <2>2. LifecycleInv'
    BY <1>2 DEF DmaErrorIrq, service, policy, AsyncError, LifecycleInv,
        TypeOK, QuietWhenStopped
  <2>3. TransferInv'
    BY <1>2 DEF DmaErrorIrq, service, policy, AsyncError, TransferInv,
        LifecycleInv, QuietWhenStopped, TypeOK, busy
  <2>4. BufferInv'
    BY <1>2 DEF DmaErrorIrq, service, policy, AsyncError, BufferInv, TypeOK,
        LifecycleInv, TransferInv, QuietWhenStopped, Buffer, Frame, busy
  <2>5. FailureBeforeReuse' /\ QuietWhenStopped'
    BY <1>2 DEF DmaErrorIrq, service, policy, AsyncError, FailureBeforeReuse,
        QuietWhenStopped, TypeOK, LifecycleInv, TransferInv, busy
  <2> QED BY <2>1, <2>2, <2>3, <2>4, <2>5
<1>3. CASE UsartIrq
  <2>1. TypeOK'
    <3>1. tcie' \in BOOLEAN
      BY <1>3 DEF UsartIrq, service, policy, hardware
    <3> QED BY <1>3, <3>1, DmaStateType DEF UsartIrq, service, policy,
                hardware, UsartIrqAsserted, TypeOK, DmaState, Attempt
  <2>2. LifecycleInv'
    BY <1>3 DEF UsartIrq, service, policy, hardware, Release,
        UsartIrqAsserted, LifecycleInv, TypeOK, QuietWhenStopped
  <2>3. TransferInv'
    BY <1>3 DEF UsartIrq, service, policy, hardware, Release,
        UsartIrqAsserted, TransferInv, LifecycleInv, QuietWhenStopped, TypeOK,
        busy
  <2>4. BufferInv'
    BY <1>3 DEF UsartIrq, service, policy, hardware, Release,
        UsartIrqAsserted, BufferInv, TypeOK, LifecycleInv, TransferInv,
        QuietWhenStopped, Buffer, Frame, busy
  <2>5. FailureBeforeReuse' /\ QuietWhenStopped'
    BY <1>3 DEF UsartIrq, service, policy, hardware, Release,
        UsartIrqAsserted, FailureBeforeReuse, QuietWhenStopped, TypeOK,
        LifecycleInv, TransferInv, busy
  <2> QED BY <2>1, <2>2, <2>3, <2>4, <2>5
<1>4. CASE IgnoredIrq
  BY <1>4 DEF IgnoredIrq, vars, service, policy, uart, hal, hardware, TypeOK,
     LifecycleInv, TransferInv, BufferInv, FailureBeforeReuse, QuietWhenStopped, busy
<1> QED BY <1>1, <1>2, <1>3, <1>4 DEF Interrupt

-----------------------------------------------------------------------------
(* telemetry_service_init and telemetry_service_deinit *)

LEMMA ServiceIInv == ASSUME IInv, ServiceInit \/ ServiceInitFails \/ DeinitRequest \/ DeinitTimesOut \/ DeinitStep PROVE IInv'
<1> USE TelemetryAssumption DEF IInv
<1>1. CASE ServiceInit
  <2>1. TypeOK'
    <3>1. nvic_enabled' \in BOOLEAN /\ service_started' \in BOOLEAN /\
          thread_should_run' \in BOOLEAN /\ thread_stopped' \in BOOLEAN /\
          uart_initialized' \in BOOLEAN
      BY <1>1 DEF ServiceInit, ResetService
    <3> QED BY <1>1, <3>1, DmaStateType, AttemptType, OtherBufferType DEF
                ServiceInit, CallerAt, ResetService, TypeOK, DmaState, Attempt
  <2>2. LifecycleInv'
    BY <1>1 DEF ServiceInit, CallerAt, ResetService, AttemptReset, DmaIdle,
        LifecycleInv, TypeOK, QuietWhenStopped
  <2>3. TransferInv'
    BY <1>1 DEF ServiceInit, CallerAt, ResetService, AttemptReset, DmaIdle,
        TransferInv, LifecycleInv, QuietWhenStopped, TypeOK, busy
  <2>4. BufferInv'
    BY <1>1 DEF ServiceInit, CallerAt, ResetService, AttemptReset, DmaIdle,
        BufferInv, TypeOK, LifecycleInv, TransferInv, QuietWhenStopped,
        Buffer, Frame, busy
  <2>5. FailureBeforeReuse' /\ QuietWhenStopped'
    BY <1>1 DEF ServiceInit, CallerAt, ResetService, AttemptReset, DmaIdle,
        FailureBeforeReuse, QuietWhenStopped, TypeOK, LifecycleInv,
        TransferInv, busy
  <2> QED BY <2>1, <2>2, <2>3, <2>4, <2>5
<1>2. CASE ServiceInitFails
  <2>1. TypeOK'
    <3>1. thread_should_run' \in BOOLEAN /\ thread_stopped' \in BOOLEAN
      BY <1>2 DEF ServiceInitFails, ResetService, hal, hardware
    <3> QED BY <1>2, <3>1, DmaStateType, AttemptType, OtherBufferType DEF
                ServiceInitFails, hal, hardware, CallerAt, ResetService,
                TypeOK, DmaState, Attempt
  <2>2. LifecycleInv'
    BY <1>2 DEF ServiceInitFails, hal, hardware, CallerAt, ResetService,
        AttemptReset, DmaIdle, LifecycleInv, TypeOK, QuietWhenStopped
  <2>3. TransferInv'
    BY <1>2 DEF ServiceInitFails, hal, hardware, CallerAt, ResetService,
        AttemptReset, DmaIdle, TransferInv, LifecycleInv, QuietWhenStopped,
        TypeOK, busy
  <2>4. BufferInv'
    BY <1>2 DEF ServiceInitFails, hal, hardware, CallerAt, ResetService,
        AttemptReset, DmaIdle, BufferInv, TypeOK, LifecycleInv, TransferInv,
        QuietWhenStopped, Buffer, Frame, busy
  <2>5. FailureBeforeReuse' /\ QuietWhenStopped'
    BY <1>2 DEF ServiceInitFails, hal, hardware, CallerAt, ResetService,
        AttemptReset, DmaIdle, FailureBeforeReuse, QuietWhenStopped, TypeOK,
        LifecycleInv, TransferInv, busy
  <2> QED BY <2>1, <2>2, <2>3, <2>4, <2>5
<1>3. CASE DeinitRequest
  <2>1. TypeOK'
    <3>1. thread_should_run' \in BOOLEAN
      BY <1>3 DEF DeinitRequest, policy, uart, hal, hardware
    <3> QED BY <1>3, <3>1 DEF DeinitRequest, policy, uart, hal, hardware,
                CallerAt, TypeOK, DmaState, Attempt
  <2>2. LifecycleInv'
    BY <1>3 DEF DeinitRequest, policy, uart, hal, hardware, CallerAt,
        LifecycleInv, TypeOK, QuietWhenStopped
  <2>3. TransferInv'
    BY <1>3 DEF DeinitRequest, policy, uart, hal, hardware, CallerAt,
        TransferInv, LifecycleInv, QuietWhenStopped, TypeOK, busy
  <2>4. BufferInv'
    BY <1>3 DEF DeinitRequest, policy, uart, hal, hardware, CallerAt,
        BufferInv, TypeOK, LifecycleInv, TransferInv, QuietWhenStopped,
        Buffer, Frame, busy
  <2>5. FailureBeforeReuse' /\ QuietWhenStopped'
    BY <1>3 DEF DeinitRequest, policy, uart, hal, hardware, CallerAt,
        FailureBeforeReuse, QuietWhenStopped, TypeOK, LifecycleInv,
        TransferInv, busy
  <2> QED BY <2>1, <2>2, <2>3, <2>4, <2>5
<1>4. CASE DeinitTimesOut
  <2>1. TypeOK'
    BY <1>4 DEF DeinitTimesOut, policy, uart, hal, hardware, CallerAt, TypeOK,
        DmaState, Attempt
  <2>2. LifecycleInv'
    BY <1>4 DEF DeinitTimesOut, policy, uart, hal, hardware, CallerAt,
        LifecycleInv, TypeOK, QuietWhenStopped
  <2>3. TransferInv'
    BY <1>4 DEF DeinitTimesOut, policy, uart, hal, hardware, CallerAt,
        TransferInv, LifecycleInv, QuietWhenStopped, TypeOK, busy
  <2>4. BufferInv'
    BY <1>4 DEF DeinitTimesOut, policy, uart, hal, hardware, CallerAt,
        BufferInv, TypeOK, LifecycleInv, TransferInv, QuietWhenStopped,
        Buffer, Frame, busy
  <2>5. FailureBeforeReuse' /\ QuietWhenStopped'
    BY <1>4 DEF DeinitTimesOut, policy, uart, hal, hardware, CallerAt,
        FailureBeforeReuse, QuietWhenStopped, TypeOK, LifecycleInv,
        TransferInv, busy
  <2> QED BY <2>1, <2>2, <2>3, <2>4, <2>5
<1>5. CASE CleanupMark
  <2>1. TypeOK'
    <3>1. uart_initialized' \in BOOLEAN
      BY <1>5 DEF CleanupMark, policy, hal, hardware
    <3> QED BY <1>5, <3>1 DEF CleanupMark, policy, hal, hardware, CallerAt,
                TypeOK, DmaState, Attempt
  <2>2. LifecycleInv'
    BY <1>5 DEF CleanupMark, policy, hal, hardware, CallerAt, LifecycleInv,
        TypeOK, QuietWhenStopped
  <2>3. TransferInv'
    BY <1>5 DEF CleanupMark, policy, hal, hardware, CallerAt, TransferInv,
        LifecycleInv, QuietWhenStopped, TypeOK, busy
  <2>4. BufferInv'
    BY <1>5 DEF CleanupMark, policy, hal, hardware, CallerAt, BufferInv,
        TypeOK, LifecycleInv, TransferInv, QuietWhenStopped, Buffer, Frame,
        busy
  <2>5. FailureBeforeReuse' /\ QuietWhenStopped'
    BY <1>5 DEF CleanupMark, policy, hal, hardware, CallerAt,
        FailureBeforeReuse, QuietWhenStopped, TypeOK, LifecycleInv,
        TransferInv, busy
  <2> QED BY <2>1, <2>2, <2>3, <2>4, <2>5
<1>6. CASE CleanupDisableIrq
  <2>1. TypeOK'
    <3>1. nvic_enabled' \in BOOLEAN
      BY <1>6 DEF CleanupDisableIrq, policy, hal, hardware
    <3> QED BY <1>6, <3>1 DEF CleanupDisableIrq, policy, hal, hardware,
                CallerAt, TypeOK, DmaState, Attempt
  <2>2. LifecycleInv'
    BY <1>6 DEF CleanupDisableIrq, policy, hal, hardware, CallerAt,
        LifecycleInv, TypeOK, QuietWhenStopped
  <2>3. TransferInv'
    BY <1>6 DEF CleanupDisableIrq, policy, hal, hardware, CallerAt,
        TransferInv, LifecycleInv, QuietWhenStopped, TypeOK, busy
  <2>4. BufferInv'
    BY <1>6 DEF CleanupDisableIrq, policy, hal, hardware, CallerAt, BufferInv,
        TypeOK, LifecycleInv, TransferInv, QuietWhenStopped, Buffer, Frame,
        busy
  <2>5. FailureBeforeReuse' /\ QuietWhenStopped'
    BY <1>6 DEF CleanupDisableIrq, policy, hal, hardware, CallerAt,
        FailureBeforeReuse, QuietWhenStopped, TypeOK, LifecycleInv,
        TransferInv, busy
  <2> QED BY <2>1, <2>2, <2>3, <2>4, <2>5
<1>7. CASE CleanupRelease
  <2>1. TypeOK'
    <3>1. dmat' \in BOOLEAN /\ service_started' \in BOOLEAN /\ tcie' \in BOOLEAN
      BY <1>7 DEF CleanupRelease, policy
    <3> QED BY <1>7, <3>1, DmaStateType DEF CleanupRelease, policy, CallerAt,
                TypeOK, DmaState, Attempt
  <2>2. LifecycleInv'
    BY <1>7 DEF CleanupRelease, policy, CallerAt, DmaIdle, LifecycleInv,
        TypeOK, QuietWhenStopped
  <2>3. TransferInv'
    BY <1>7 DEF CleanupRelease, policy, CallerAt, DmaIdle, TransferInv,
        LifecycleInv, QuietWhenStopped, TypeOK, busy
  <2>4. BufferInv'
    BY <1>7 DEF CleanupRelease, policy, CallerAt, DmaIdle, BufferInv, TypeOK,
        LifecycleInv, TransferInv, QuietWhenStopped, Buffer, Frame, busy
  <2>5. FailureBeforeReuse' /\ QuietWhenStopped'
    BY <1>7 DEF CleanupRelease, policy, CallerAt, DmaIdle, FailureBeforeReuse,
        QuietWhenStopped, TypeOK, LifecycleInv, TransferInv, busy
  <2> QED BY <2>1, <2>2, <2>3, <2>4, <2>5
<1> QED BY <1>1, <1>2, <1>3, <1>4, <1>5, <1>6, <1>7 DEF DeinitStep

-----------------------------------------------------------------------------

LEMMA InitIInv == Init => IInv
<1> SUFFICES ASSUME Init PROVE IInv
  OBVIOUS
<1>1. TypeOK
  <2>1. 0 \in 0 .. SeqMod - 1
    BY TelemetryAssumption
  <2>2. telemetry_attempt \in Attempt /\ attempt \in Frame
    BY <2>1 DEF Init, AttemptReset, Attempt, Frame
  <2>3. telemetry_dma_state \in DmaState
    BY DEF Init, DmaIdle, DmaState
  <2>4. /\ next_buffer \in Buffer /\ telemetry_drop_count \in 0 .. MaxDrops
        /\ telemetry_tx_buffers \in [Buffer -> Frame \cup {NoFrame}]
        /\ dma_channel \in SUBSET Buffer
    BY TelemetryAssumption DEF Init, Buffer
  <2>5. /\ {service_started, thread_should_run, thread_stopped, uart_initialized,
           nvic_enabled, dmat, tcie, tc} \subseteq BOOLEAN
    BY DEF Init
  <2> QED BY <2>2, <2>3, <2>4, <2>5 DEF Init, TypeOK, Attempt, DmaState
<1>2. LifecycleInv /\ TransferInv /\ FailureBeforeReuse /\ QuietWhenStopped
  BY DEF Init, LifecycleInv, TransferInv, FailureBeforeReuse, QuietWhenStopped,
         DmaIdle, busy
<1>3. BufferInv
  BY DEF Init, BufferInv
<1> QED BY <1>1, <1>2, <1>3 DEF IInv

LEMMA NextIInv == IInv /\ [Next]_vars => IInv'
<1> SUFFICES ASSUME IInv, [Next]_vars
             PROVE  IInv'
  OBVIOUS
<1>1. CASE UNCHANGED vars
  BY <1>1 DEF vars, service, policy, uart, hal, hardware, IInv, TypeOK,
              LifecycleInv, TransferInv, BufferInv, FailureBeforeReuse,
              QuietWhenStopped, busy
<1> QED BY <1>1, ThreadIInv, HardwareIInv, InterruptIInv, ServiceIInv DEF Next

LEMMA Invariance == Spec => []IInv
  BY InitIInv, NextIInv, PTL DEF Spec

-----------------------------------------------------------------------------
(* The gap in the sequence numbers *)

(* A frame was started and has been lost, and the thread has not heard yet. *)
FrameLost == dma_flag = "TE" \/ telemetry_dma_state.failure_pending

(* The frame a new one has to follow: the one the channel is still reading, *)
(* and otherwise the last one the receiver got.                             *)
Ahead == IF dma_channel # {} /\ dma_flag = "none"
         THEN {telemetry_tx_buffers[b] : b \in dma_channel}
         ELSE {received} \ {NoFrame}

Follows(seq, dropped) ==
  dropped \/ FrameLost \/ \A f \in Ahead : seq = (f.seq + 1) % SeqMod

(* What the channel reads may follow what was received.  The attempt in      *)
(* progress may follow the frame ahead of it, unless a loss will reject it;  *)
(* between attempts the next number and the sticky flag may.                 *)
FlagInv ==
  /\ \A b \in dma_channel :
       dma_flag = "none" /\ received # NoFrame =>
          \/ telemetry_tx_buffers[b].seq = (received.seq + 1) % SeqMod
          \/ telemetry_tx_buffers[b].dropped
  /\ thread \in {"send", "start", "enable", "started"} =>
       telemetry_tx_buffers[next_buffer] = attempt
  /\ thread \in {"encode", "send", "start"} => Follows(attempt.seq, attempt.dropped)
  /\ thread \in {"enable", "started"} => FrameLost \/ Ahead = {attempt}
  /\ thread \in {"encode", "send", "start", "enable", "started"} =>
       telemetry_attempt = [next_sequence |-> (attempt.seq + 1) % SeqMod,
                            drop_sticky   |-> attempt.dropped]
  /\ thread = "delay" =>
       Follows(telemetry_attempt.next_sequence, telemetry_attempt.drop_sticky)

LEMMA FlagInit == Init => FlagInv
  BY DEF Init, FlagInv, Follows, Ahead, AttemptReset

(* What IInv says of the frames a thread step can meet. *)
LEMMA ChannelFacts ==
  ASSUME IInv
  PROVE  /\ thread # "none" => uart_initialized /\ nvic_enabled
         /\ thread = "encode" => next_buffer \notin dma_channel
         /\ thread = "start" => dma_channel = {} /\ ~FrameLost
         /\ thread \in {"send", "delay"} /\ ~busy => dma_channel = {} /\ dma_flag = "none"
         /\ thread \in {"enable", "started"} => dma_channel \subseteq {next_buffer}
         /\ next_buffer \in Buffer
         /\ telemetry_tx_buffers \in [Buffer -> Frame \cup {NoFrame}]
         /\ attempt \in Frame /\ NoFrame \notin Frame
         /\ telemetry_attempt \in Attempt
         /\ telemetry_dma_state \in DmaState
         /\ dma_channel \subseteq Buffer
         /\ uart_initialized /\ dma_flag # "none" => busy
  BY TelemetryAssumption DEF IInv, TypeOK, LifecycleInv, TransferInv, BufferInv,
     FailureBeforeReuse, FrameLost, busy, Buffer, Attempt, DmaState

LEMMA ThreadFlagInv == ASSUME IInv, FlagInv, ThreadStep PROVE FlagInv'
<1> USE ChannelFacts
<1>1. CASE BeginAttempt
  <2>1. UNCHANGED <<dma_channel, dma_flag, received, telemetry_dma_state>>
    BY <1>1 DEF BeginAttempt, hardware, uart
  <2>2. next_buffer \notin dma_channel
    BY <1>1 DEF BeginAttempt, ThreadAt, IInv, BufferInv, TypeOK, Buffer
  <2>3. \A b \in dma_channel : telemetry_tx_buffers'[b] = telemetry_tx_buffers[b]
    BY <1>1, <2>2 DEF BeginAttempt
  <2>4. Ahead' = Ahead /\ FrameLost' = FrameLost
    BY <2>1, <2>3 DEF Ahead, FrameLost
  <2>5. Follows(telemetry_attempt.next_sequence, telemetry_attempt.drop_sticky)
    BY <1>1 DEF BeginAttempt, ThreadAt, FlagInv
  <2>6. Follows(attempt.seq, attempt.dropped)'
    BY <1>1, <2>4, <2>5 DEF BeginAttempt, Follows
  <2>7. telemetry_attempt' = [next_sequence |-> (attempt'.seq + 1) % SeqMod,
                              drop_sticky   |-> attempt'.dropped]
    BY <1>1 DEF BeginAttempt, AttemptBegin, Attempt
  <2> QED BY <1>1, <2>1, <2>3, <2>6, <2>7 DEF BeginAttempt, FlagInv
<1>2. CASE FinishEncode
  <2>1. UNCHANGED <<dma_channel, dma_flag, received, telemetry_dma_state,
                    attempt, telemetry_attempt, next_buffer>>
    BY <1>2 DEF FinishEncode, hardware, uart
  <2>2. \A b \in dma_channel : telemetry_tx_buffers'[b] = telemetry_tx_buffers[b]
    BY <1>2 DEF FinishEncode, ThreadAt
  <2>3. Ahead' = Ahead /\ FrameLost' = FrameLost
    BY <2>1, <2>2 DEF Ahead, FrameLost
  <2>4. Follows(attempt.seq, attempt.dropped)'
    BY <1>2, <2>1, <2>3 DEF FinishEncode, ThreadAt, FlagInv, Follows
  <2>5. telemetry_tx_buffers'[next_buffer'] = attempt'
    BY <1>2, <2>1 DEF FinishEncode
  <2> QED BY <1>2, <2>1, <2>2, <2>4, <2>5 DEF FinishEncode, ThreadAt, FlagInv
<1>3. CASE SendReserved
  <2>1. UNCHANGED <<hardware, policy>>
    BY <1>3 DEF SendReserved
  <2>2. Ahead' = Ahead /\ FrameLost' = FrameLost
    BY <1>3, <2>1 DEF SendReserved, Ahead, FrameLost, hardware, policy, Reserve, DmaState
  <2> QED BY <1>3, <2>1, <2>2 DEF SendReserved, ThreadAt, FlagInv, Follows, hardware, policy
<1>4. CASE SendRejected
  BY <1>4 DEF SendRejected, FlagInv, hardware, policy
<1>5. CASE HalTransmit
  <2>1. UNCHANGED <<policy, received, dma_flag>>
    BY <1>5 DEF HalTransmit
  <2>2. CASE gState = "READY"
    <3>1. dma_channel' = {next_buffer} /\ thread' = "enable" /\ dma_channel = {}
      BY <1>5, <2>2 DEF HalTransmit, ThreadAt
    <3>2. telemetry_tx_buffers[next_buffer] = attempt
      BY <1>5 DEF HalTransmit, ThreadAt, FlagInv
    <3>3. received # NoFrame =>
            attempt.seq = (received.seq + 1) % SeqMod \/ attempt.dropped
      BY <1>5, <3>1 DEF HalTransmit, ThreadAt, FlagInv, Follows, Ahead
    <3>4. dma_flag = "none"
      BY <1>5, <3>1 DEF HalTransmit, ThreadAt, IInv, TransferInv
    <3>5. Ahead' = {attempt}
      BY <2>1, <3>1, <3>2, <3>4 DEF Ahead, policy
    <3> QED BY <1>5, <2>1, <3>1, <3>2, <3>3, <3>5
            DEF HalTransmit, ThreadAt, FlagInv, policy
  <2>3. CASE gState # "READY"
    BY <1>5, <2>1, <2>3 DEF HalTransmit, FlagInv, policy
  <2> QED BY <2>2, <2>3
<1>6. CASE HalEnableRequests
  <2>1. Ahead' = Ahead /\ FrameLost' = FrameLost
    BY <1>6 DEF HalEnableRequests, Ahead, FrameLost, policy, uart
  <2> QED BY <1>6, <2>1 DEF HalEnableRequests, ThreadAt, FlagInv, policy, uart
<1>7. CASE FrameQueued
  <2>1. Ahead' = Ahead /\ FrameLost' = FrameLost
    BY <1>7 DEF FrameQueued, Ahead, FrameLost, hardware, uart
  <2>2. telemetry_attempt'.next_sequence = (attempt.seq + 1) % SeqMod
    BY <1>7 DEF FrameQueued, ThreadAt, FlagInv, AttemptQueued
  <2>3. FrameLost \/ Ahead = {attempt}
    BY <1>7 DEF FrameQueued, ThreadAt, FlagInv
  <2>4. Follows(telemetry_attempt.next_sequence, telemetry_attempt.drop_sticky)'
    BY <2>1, <2>2, <2>3 DEF Follows
  <2> QED BY <1>7, <2>4 DEF FrameQueued, FlagInv, hardware
<1>8. CASE RecordDrop
  <2>1. telemetry_attempt'.drop_sticky
    BY <1>8 DEF RecordDrop, AttemptDropped, Attempt
  <2> QED BY <1>8, <2>1 DEF RecordDrop, FlagInv, Follows, hardware
<1>9. CASE ThreadStops
  BY <1>9 DEF ThreadStops, FlagInv, policy, hardware
<1> QED BY <1>1, <1>2, <1>3, <1>4, <1>5, <1>6, <1>7, <1>8, <1>9 DEF ThreadStep

LEMMA HardwareFlagInv ==
  ASSUME IInv, FlagInv, DmaCompletes \/ DmaFails \/ ShiftOut
  PROVE  FlagInv'
<1> USE ChannelFacts
<1>1. CASE DmaCompletes
  <2>1. PICK b \in dma_channel : received' = telemetry_tx_buffers[b]
    BY <1>1 DEF DmaCompletes
  <2>2. dma_channel = {b}
    BY DEF IInv, BufferInv
  <2>3. Ahead = {telemetry_tx_buffers[b]}
    BY <1>1, <2>2 DEF DmaCompletes, DmaReading, Ahead
  <2>4. telemetry_tx_buffers[b] # NoFrame
    BY DEF IInv, BufferInv
  <2>5. Ahead' = Ahead
    BY <1>1, <2>1, <2>3, <2>4 DEF DmaCompletes, Ahead
  <2>6. FrameLost' = FrameLost
    BY <1>1 DEF DmaCompletes, DmaReading, FrameLost, uart
  <2> QED BY <1>1, <2>5, <2>6 DEF DmaCompletes, FlagInv, Follows, policy
<1>2. CASE DmaFails
  <2>1. FrameLost'
    BY <1>2 DEF DmaFails, FrameLost
  <2> QED BY <1>2, <2>1 DEF DmaFails, FlagInv, Follows, policy
<1>3. CASE ShiftOut
  BY <1>3 DEF ShiftOut, FlagInv, Follows, Ahead, FrameLost, policy, uart
<1> QED BY <1>1, <1>2, <1>3

LEMMA InterruptFlagInv == ASSUME IInv, FlagInv, Interrupt PROVE FlagInv'
<1> USE ChannelFacts
<1>1. CASE DmaCompleteIrq
  <2>1. Ahead' = Ahead /\ (FrameLost' <=> FrameLost)
    BY <1>1 DEF DmaCompleteIrq, Ahead, FrameLost, uart
  <2> QED BY <1>1, <2>1 DEF DmaCompleteIrq, FlagInv, Follows, policy
<1>2. CASE DmaErrorIrq
  <2>1. FrameLost'
    BY <1>2 DEF DmaErrorIrq, FrameLost, AsyncError, busy
  <2> QED BY <1>2, <2>1 DEF DmaErrorIrq, FlagInv, Follows, policy
<1>3. CASE UsartIrq
  <2>1. Ahead' = Ahead /\ (FrameLost' <=> FrameLost)
    BY <1>3 DEF UsartIrq, Ahead, FrameLost, hardware, policy, Release, DmaState
  <2> QED BY <1>3, <2>1 DEF UsartIrq, FlagInv, Follows, policy, hardware
<1>4. CASE IgnoredIrq
  BY <1>4 DEF IgnoredIrq, FlagInv, Follows, Ahead, FrameLost,
              vars, policy, uart, hardware
<1> QED BY <1>1, <1>2, <1>3, <1>4 DEF Interrupt

LEMMA ServiceFlagInv ==
  ASSUME IInv, FlagInv,
         ServiceInit \/ ServiceInitFails \/ DeinitRequest \/ DeinitTimesOut \/ DeinitStep
  PROVE  FlagInv'
<1> USE ChannelFacts
<1>1. CASE ServiceInit
  BY <1>1 DEF ServiceInit, IInv, QuietWhenStopped, FlagInv, Follows, Ahead
<1>2. CASE ServiceInitFails
  BY <1>2 DEF ServiceInitFails, IInv, QuietWhenStopped, LifecycleInv, FlagInv, hardware
<1>3. CASE DeinitRequest
  BY <1>3 DEF DeinitRequest, FlagInv, Follows, Ahead, FrameLost, policy, uart, hardware
<1>4. CASE DeinitTimesOut
  BY <1>4 DEF DeinitTimesOut, FlagInv, Follows, Ahead, FrameLost, policy, uart, hardware
<1>5. CASE CleanupMark
  BY <1>5 DEF CleanupMark, FlagInv, Follows, Ahead, FrameLost, policy, hardware
<1>6. CASE CleanupDisableIrq
  BY <1>6 DEF CleanupDisableIrq, FlagInv, Follows, Ahead, FrameLost, policy, hardware
<1>7. CASE CleanupRelease
  BY <1>7 DEF CleanupRelease, CallerAt, IInv, LifecycleInv, FlagInv, policy
<1> QED BY <1>1, <1>2, <1>3, <1>4, <1>5, <1>6, <1>7 DEF DeinitStep

LEMMA FlagInvariance == Spec => [](IInv /\ FlagInv)
<1>1. IInv /\ FlagInv /\ [Next]_vars => FlagInv'
  <2> SUFFICES ASSUME IInv, FlagInv, [Next]_vars
               PROVE  FlagInv'
    OBVIOUS
  <2>1. CASE UNCHANGED vars
    BY <2>1 DEF vars, policy, uart, hardware, FlagInv, Follows, Ahead, FrameLost
  <2> QED BY <2>1, ThreadFlagInv, HardwareFlagInv, InterruptFlagInv, ServiceFlagInv
          DEF Next
<1> QED BY <1>1, FlagInit, Invariance, PTL DEF Spec

-----------------------------------------------------------------------------

(* Every variable of the telemetry path stays in its range. *)
THEOREM TelemetryTypeOK == Spec => []TypeOK
<1>1. IInv => TypeOK
  BY DEF IInv
<1> QED BY <1>1, Invariance, PTL

(* telemetry_thread_entry: the encoder never writes the buffer the DMA       *)
(* channel reads, and what the channel reads is a whole frame.               *)
THEOREM TelemetryBufferStable == Spec => []BufferStable
<1>1. IInv => BufferStable
  BY DEF IInv, TypeOK, BufferInv, BufferStable, Buffer
<1> QED BY <1>1, Invariance, PTL

(* dma_tx_state.c: not busy means that HAL, channel and shift register are    *)
(* done, and a thread that reserved the state finds the HAL ready.            *)
THEOREM TelemetryBusyCoversTransfer == Spec => []BusyCoversTransfer
<1>1. IInv => BusyCoversTransfer
  BY DEF IInv, TypeOK, TransferInv, BusyCoversTransfer, busy
<1> QED BY <1>1, Invariance, PTL

(* telemetry_uart_send: an asynchronous failure is reported before the next   *)
(* transfer starts.                                                          *)
THEOREM TelemetryFailureBeforeReuse == Spec => []FailureBeforeReuse
<1>1. IInv => FailureBeforeReuse
  BY DEF IInv
<1> QED BY <1>1, Invariance, PTL

(* telemetry_service_deinit: no interrupt and no transfer outlives it.        *)
THEOREM TelemetryQuietWhenStopped == Spec => []QuietWhenStopped
<1>1. IInv => QuietWhenStopped
  BY DEF IInv
<1> QED BY <1>1, Invariance, PTL

(* telemetry_policy.c and telemetry_uart_send: a frame received after a gap   *)
(* in the sequence numbers carries the dropped bit, whatever lost the frames. *)
THEOREM TelemetryGapIsFlagged == Spec => GapIsFlagged
<1>1. ASSUME IInv, FlagInv, [Next]_vars
      PROVE  [ received # NoFrame /\ received' # NoFrame /\ received' # received =>
                 \/ received'.seq = (received.seq + 1) % SeqMod
                 \/ received'.dropped ]_received
  <2>1. CASE DmaCompletes
    BY <1>1, <2>1 DEF DmaCompletes, DmaReading, FlagInv
  <2>2. CASE received' = received \/ received' = NoFrame
    BY <2>2
  <2>3. DmaCompletes \/ received' = received \/ received' = NoFrame
    BY <1>1 DEF Next, vars, hardware, ThreadStep, BeginAttempt, FinishEncode,
       SendReserved, SendRejected, HalTransmit, HalEnableRequests, FrameQueued,
       RecordDrop, ThreadStops, DmaFails, ShiftOut, Interrupt, DmaCompleteIrq,
       DmaErrorIrq, UsartIrq, IgnoredIrq, ServiceInit, ServiceInitFails,
       DeinitRequest, DeinitTimesOut, DeinitStep, CleanupMark, CleanupDisableIrq,
       CleanupRelease
  <2> QED BY <2>1, <2>2, <2>3
<1> QED BY <1>1, FlagInvariance, PTL DEF Spec, GapIsFlagged

-----------------------------------------------------------------------------
(* The debug stream.  Its invariant is about what the parser has not used      *)
(* yet: the bytes in its buffer, and the line behind them.                   *)

Unread == buffer \o line

SequenceSymbol(n) == <<"sequence", n>>
CheckOf(id) == <<"check", <<(id - 1) % SeqRange, D!Data>>, id>>

(* The symbols there are once k frames have been sent. *)
Symbols(k) ==
  {D!S1, D!S2, D!Header} \cup {SequenceSymbol(n) : n \in 0 .. SeqRange - 1}
                         \cup {CheckOf(id) : id \in 1 .. k}

(* The frame id lies whole in the stream s, from place i on. *)
WholeAt(s, i, id) ==
  /\ i + 6 <= Len(s)
  /\ s[i] = D!S1 /\ s[i + 1] = D!S2 /\ s[i + 2] = D!Header
  /\ s[i + 3] = SequenceSymbol((id - 1) % SeqRange)
  /\ s[i + 4] = D!S1 /\ s[i + 5] = D!S2 /\ s[i + 6] = CheckOf(id)

(* The checks ahead are those of later and later frames. *)
Ordered(s, k) ==
  \A i, j \in 1 .. Len(s), c, d \in 1 .. k :
    i < j /\ s[i] = CheckOf(c) /\ s[j] = CheckOf(d) => c < d

(* They are those of later frames than any that was delivered. *)
Later(s, k, del) ==
  \A i \in 1 .. Len(s), c \in 1 .. k, j \in 1 .. Len(del) :
    s[i] = CheckOf(c) => del[j] < c

(* The frames of ids have been delivered or lie whole in the stream. *)
Reachable(s, ids, del) ==
  \A id \in ids : \/ \E j \in 1 .. Len(del) : del[j] = id
                  \/ \E i \in 1 .. Len(s) : WholeAt(s, i, id)

UnreadInv(s, k, ids, del) ==
  /\ s \in Seq(Symbols(k)) /\ Ordered(s, k) /\ Later(s, k, del) /\ Reachable(s, ids, del)

(* The sequence number is that of the frames sent; losses are damage. *)
SenderInv ==
  /\ sent \in 0 .. MaxFrames /\ sequence = sent % SeqRange /\ intact \subseteq 1 .. sent
  /\ damage \in 0 .. MaxDamage /\ drop_count \in 0 .. damage

(* No frame is delivered twice or after a later one. *)
DeliveredInv ==
  /\ delivered \in Seq(1 .. sent)
  /\ \A i, j \in 1 .. Len(delivered) : i < j => delivered[i] < delivered[j]

(* What the parser remembers of the last frame, and what it has counted. *)
CountInv ==
  /\ dropped_frames \in Nat
  /\ delivered = <<>> => last_sequence = SeqRange /\ dropped_frames = 0
  /\ delivered # <<>> => last_sequence = (delivered[Len(delivered)] - 1) % SeqRange
  /\ delivered # <<>> /\ (\A i \in 1 .. Len(delivered) - 1 :
                             delivered[i + 1] - delivered[i] - 1 < SeqRange - 1)
       => dropped_frames = delivered[Len(delivered)] - delivered[1] + 1 - Len(delivered)

StreamInv ==
  /\ buffer \in Seq(Symbols(sent)) /\ line \in Seq(Symbols(sent)) /\ feeding \in BOOLEAN
  /\ UnreadInv(Unread, sent, intact, delivered)
  /\ SenderInv /\ DeliveredInv /\ CountInv

-----------------------------------------------------------------------------
(* The symbols are told apart by their tags. *)

LEMMA TagsDiffer ==
  /\ D!S1 # D!S2 /\ D!S1 # D!Header /\ D!S2 # D!Header
  /\ \A n : /\ SequenceSymbol(n) # D!S1 /\ SequenceSymbol(n) # D!S2
            /\ SequenceSymbol(n) # D!Header
  /\ \A id : /\ CheckOf(id) # D!S1 /\ CheckOf(id) # D!S2 /\ CheckOf(id) # D!Header
             /\ \A n : CheckOf(id) # SequenceSymbol(n)
BY DEF D!S1, D!S2, D!Header, SequenceSymbol, CheckOf

LEMMA Tags ==
  /\ D!S1[1] \notin {"sequence", "check"} /\ D!S2[1] \notin {"sequence", "check"}
  /\ D!Header[1] \notin {"sequence", "check"}
  /\ \A n : SequenceSymbol(n)[1] = "sequence" /\ SequenceSymbol(n)[2] = n
  /\ \A id : /\ CheckOf(id)[1] = "check" /\ CheckOf(id)[3] = id
             /\ CheckOf(id)[2] = <<(id - 1) % SeqRange, D!Data>>
BY DEF D!S1, D!S2, D!Header, SequenceSymbol, CheckOf

LEMMA CheckIsOne == \A c, d : CheckOf(c) = CheckOf(d) => c = d
BY Tags

LEMMA SymbolsGrow == \A k \in Nat : Symbols(k) \subseteq Symbols(k + 1)
BY DEF Symbols

LEMMA CheckIsSymbol ==
  ASSUME NEW k \in Nat, NEW s \in Symbols(k), s[1] = "check"
  PROVE  \E id \in 1 .. k : s = CheckOf(id)
BY Tags DEF Symbols

LEMMA SequenceIsSymbol ==
  ASSUME NEW k \in Nat, NEW s \in Symbols(k), s[1] = "sequence"
  PROVE  \E n \in 0 .. SeqRange - 1 : s = SequenceSymbol(n)
BY Tags DEF Symbols

LEMMA DataIs == D!Data = <<D!S1, D!S2>>
BY DEF D!Data

LEMMA PairsAgree == \A a, b, c, d : <<a, b>> = <<c, d>> => a = c /\ b = d
OBVIOUS

LEMMA Pieces ==
  ASSUME NEW a, NEW b, NEW c, NEW d, NEW e, NEW f, NEW g
  PROVE  <<a, b, c, d>> \o <<e, f>> \o <<g>> = <<a, b, c, d, e, f, g>>
<1> DEFINE X == {a, b, c, d, e, f, g}
           h == <<a, b, c, d>> \o <<e, f>>
<1>1. <<a, b, c, d>> \in Seq(X) /\ <<e, f>> \in Seq(X) /\ <<g>> \in Seq(X)
        /\ <<a, b, c, d, e, f, g>> \in Seq(X)
  OBVIOUS
<1>2. /\ h \in Seq(X) /\ Len(h) = 6 /\ h[1] = a /\ h[2] = b /\ h[3] = c /\ h[4] = d
      /\ h[5] = e /\ h[6] = f
  BY <1>1, ConcatProperties
<1> HIDE DEF h
<1>3. Len(<<g>>) = 1 /\ <<g>>[1] = g
  OBVIOUS
<1>4. /\ h \o <<g>> \in Seq(X) /\ Len(h \o <<g>>) = 7
      /\ \A i \in 1 .. 7 : (h \o <<g>>)[i] = IF i <= 6 THEN h[i] ELSE <<g>>[i - 6]
  <2> DEFINE t == <<g>>
  <2>1. t \in Seq(X) /\ Len(t) = 1
    BY <1>1, <1>3
  <2> HIDE DEF t, X
  <2>2. /\ h \o t \in Seq(X) /\ Len(h \o t) = 7
        /\ \A i \in 1 .. 7 : (h \o t)[i] = IF i <= 6 THEN h[i] ELSE t[i - 6]
    <3>1. h \in Seq(X) /\ Len(h) = 6
      BY <1>2
    <3>2. /\ h \o t \in Seq(X) /\ Len(h \o t) = Len(h) + Len(t)
          /\ \A i \in 1 .. Len(h) + Len(t) :
               (h \o t)[i] = IF i <= Len(h) THEN h[i] ELSE t[i - Len(h)]
      BY <2>1, <3>1, ConcatProperties
    <3> QED BY <2>1, <3>1, <3>2
  <2> QED BY <2>2 DEF t
<1>6. \A i \in 1 .. 7 : (h \o <<g>>)[i] = <<a, b, c, d, e, f, g>>[i]
  BY <1>2, <1>3, <1>4
<1>5. h \o <<g>> = <<a, b, c, d, e, f, g>>
  BY <1>1, <1>4, <1>6, SeqEqual
<1> QED BY <1>5 DEF h

(* The frame that is sent. *)
LEMMA FrameIs ==
  ASSUME NEW id \in Nat \ {0}
  PROVE  LET f == D!Frame((id - 1) % SeqRange, D!Data, id) IN
         /\ f = <<D!S1, D!S2, D!Header, SequenceSymbol((id - 1) % SeqRange),
                  D!S1, D!S2, CheckOf(id)>>
         /\ f \in Seq(Symbols(id)) /\ Len(f) = 7
<1> DEFINE n == (id - 1) % SeqRange
           g == <<D!S1, D!S2, D!Header, SequenceSymbol(n), D!S1, D!S2, CheckOf(id)>>
<1>1. D!Frame(n, D!Data, id) = g
  <2>1. D!Frame(n, D!Data, id)
          = <<D!S1, D!S2, D!Header, SequenceSymbol(n)>> \o <<D!S1, D!S2>> \o <<CheckOf(id)>>
    BY DataIs DEF D!Frame, SequenceSymbol, CheckOf
  <2> HIDE DEF n
  <2> QED BY <2>1, Pieces
<1>2. n \in 0 .. SeqRange - 1
  BY StreamAssumption
<1>3. D!S1 \in Symbols(id) /\ D!S2 \in Symbols(id) /\ D!Header \in Symbols(id)
        /\ SequenceSymbol(n) \in Symbols(id) /\ CheckOf(id) \in Symbols(id)
  <2> HIDE DEF n
  <2> QED BY <1>2 DEF Symbols
<1>4. g \in Seq(Symbols(id)) /\ Len(g) = 7
  <2> HIDE DEF n
  <2> QED BY <1>3
<1> QED BY <1>1, <1>4

-----------------------------------------------------------------------------
(* What sending and reading do to the stream *)

(* The checks among the symbols are those of the frames sent. *)
LEMMA CheckWasSent ==
  ASSUME NEW k \in Nat, NEW s \in Seq(Symbols(k)), NEW i \in 1 .. Len(s), NEW c,
         s[i] = CheckOf(c)
  PROVE  c \in 1 .. k
<1>1. s[i] \in Symbols(k)
  BY ElementOfSeq
<1>2. s[i][1] = "check"
  BY Tags
<1>3. \E id \in 1 .. k : s[i] = CheckOf(id)
  BY <1>1, <1>2, CheckIsSymbol
<1> QED BY <1>3, CheckIsOne

(* Seven symbols of t from j on are those of s from i on. *)
Agree(s, i, t, j) == \A n \in 0 .. 6 : t[j + n] = s[i + n]

(* A whole frame stays one where its symbols are found again. *)
LEMMA WholeMoves ==
  ASSUME NEW s, NEW t, NEW i \in Int, NEW j \in Int, NEW id, WholeAt(s, i, id),
         j + 6 <= Len(t), Agree(s, i, t, j)
  PROVE  WholeAt(t, j, id)
<1>1. t[j] = s[i]
  <2>1. t[j + 0] = s[i + 0] /\ j + 0 = j /\ i + 0 = i
    BY DEF Agree
  <2> QED BY <2>1
<1>2. /\ t[j + 1] = s[i + 1] /\ t[j + 2] = s[i + 2] /\ t[j + 3] = s[i + 3]
      /\ t[j + 4] = s[i + 4] /\ t[j + 5] = s[i + 5] /\ t[j + 6] = s[i + 6]
  BY DEF Agree
<1> QED BY <1>1, <1>2 DEF WholeAt

(* Giving up the first m symbols, where no undelivered whole frame starts. *)
LEMMA SuffixKeeps ==
  ASSUME NEW k \in Nat, NEW ids, NEW del, Len(del) \in Nat,
         NEW s, UnreadInv(s, k, ids, del), NEW m \in 0 .. Len(s),
         NEW t \in Seq(Symbols(k)), Len(t) = Len(s) - m,
         \A i \in 1 .. Len(t) : t[i] = s[i + m],
         \A id \in ids, i \in 1 .. m :
            WholeAt(s, i, id) => \E j \in 1 .. Len(del) : del[j] = id
  PROVE  UnreadInv(t, k, ids, del)
<1>1. Len(s) \in Nat /\ Len(t) \in Nat
  BY LenProperties DEF UnreadInv
<1>2. Ordered(t, k)
  <2> SUFFICES ASSUME NEW i \in 1 .. Len(t), NEW j \in 1 .. Len(t),
                      NEW c \in 1 .. k, NEW d \in 1 .. k,
                      i < j, t[i] = CheckOf(c), t[j] = CheckOf(d)
               PROVE  c < d
    BY DEF Ordered
  <2>1. i + m \in 1 .. Len(s) /\ j + m \in 1 .. Len(s) /\ i + m < j + m
    BY <1>1
  <2>2. s[i + m] = CheckOf(c) /\ s[j + m] = CheckOf(d)
    OBVIOUS
  <2> QED BY <2>1, <2>2 DEF UnreadInv, Ordered
<1>3. Later(t, k, del)
  <2> SUFFICES ASSUME NEW i \in 1 .. Len(t), NEW c \in 1 .. k,
                      NEW j \in 1 .. Len(del), t[i] = CheckOf(c)
               PROVE  del[j] < c
    BY DEF Later
  <2>1. i + m \in 1 .. Len(s) /\ s[i + m] = CheckOf(c)
    BY <1>1
  <2> QED BY <2>1 DEF UnreadInv, Later
<1>4. Reachable(t, ids, del)
  <2>1. ASSUME NEW id \in ids, NEW i \in 1 .. Len(s), WholeAt(s, i, id), i > m
        PROVE  WholeAt(t, i - m, id) /\ i - m \in 1 .. Len(t)
    <3>1. i + 6 <= Len(s)
      BY <2>1 DEF WholeAt
    <3>2. i - m \in 1 .. Len(t) /\ (i - m) + 6 <= Len(t)
      BY <1>1, <2>1, <3>1
    <3>3. ASSUME NEW n \in 0 .. 6 PROVE t[(i - m) + n] = s[i + n]
      <4>1. (i - m) + n \in 1 .. Len(t) /\ ((i - m) + n) + m = i + n
        BY <1>1, <3>2
      <4> QED BY <4>1
    <3>4. Agree(s, i, t, i - m)
      BY <3>3 DEF Agree
    <3>5. i \in Int /\ i - m \in Int
      OBVIOUS
    <3> QED BY <2>1, <3>2, <3>4, <3>5, WholeMoves
  <2> QED BY <1>1, <2>1 DEF UnreadInv, Reachable
<1> QED BY <1>2, <1>3, <1>4 DEF UnreadInv

(* What the sender appends holds a check only in its last place. *)
LEMMA AppendedKeeps ==
  ASSUME NEW k \in Nat, NEW ids, NEW del \in Seq(1 .. k),
         NEW s, UnreadInv(s, k, ids, del),
         NEW f \in Seq(Symbols(k + 1)),
         \A i \in 1 .. Len(f), c \in 1 .. k + 1 :
            f[i] = CheckOf(c) => i = Len(f) /\ c = k + 1,
         NEW t \in Seq(Symbols(k + 1)), Len(t) = Len(s) + Len(f),
         \A i \in 1 .. Len(s) : t[i] = s[i],
         \A i \in 1 .. Len(f) : t[Len(s) + i] = f[i]
  PROVE  /\ UnreadInv(t, k + 1, ids, del)
         /\ WholeAt(f, 1, k + 1) => UnreadInv(t, k + 1, ids \cup {k + 1}, del)
<1>1. Len(s) \in Nat /\ Len(t) \in Nat /\ Len(f) \in Nat
  BY LenProperties DEF UnreadInv
<1>2. \A j \in 1 .. Len(del) : del[j] \in 1 .. k
  BY ElementOfSeq
<1>3. ASSUME NEW i \in 1 .. Len(t), NEW c \in 1 .. k + 1, t[i] = CheckOf(c)
      PROVE  \/ i \in 1 .. Len(s) /\ s[i] = CheckOf(c) /\ c \in 1 .. k
             \/ i = Len(t) /\ c = k + 1
  <2>1. CASE i <= Len(s)
    <3>1. i \in 1 .. Len(s) /\ s[i] = CheckOf(c)
      BY <1>1, <1>3, <2>1
    <3> QED BY <3>1, CheckWasSent DEF UnreadInv
  <2>2. CASE i > Len(s)
    <3>1. i - Len(s) \in 1 .. Len(f) /\ t[Len(s) + (i - Len(s))] = f[i - Len(s)]
      BY <1>1, <2>2
    <3>2. Len(s) + (i - Len(s)) = i
      BY <1>1
    <3>3. f[i - Len(s)] = CheckOf(c)
      BY <1>3, <3>1, <3>2
    <3>4. i - Len(s) = Len(f) /\ c = k + 1
      BY <3>1, <3>3
    <3> QED BY <1>1, <3>4
  <2> QED BY <1>1, <2>1, <2>2
<1>4. Ordered(t, k + 1)
  <2> SUFFICES ASSUME NEW i \in 1 .. Len(t), NEW j \in 1 .. Len(t),
                      NEW c \in 1 .. k + 1, NEW d \in 1 .. k + 1,
                      i < j, t[i] = CheckOf(c), t[j] = CheckOf(d)
               PROVE  c < d
    BY DEF Ordered
  <2>1. i \in 1 .. Len(s) /\ s[i] = CheckOf(c) /\ c \in 1 .. k
    BY <1>1, <1>3
  <2>2. CASE j \in 1 .. Len(s) /\ s[j] = CheckOf(d) /\ d \in 1 .. k
    BY <2>1, <2>2 DEF UnreadInv, Ordered
  <2>3. CASE d = k + 1
    BY <2>1, <2>3
  <2> QED BY <1>3, <2>2, <2>3
<1>5. Later(t, k + 1, del)
  <2> SUFFICES ASSUME NEW i \in 1 .. Len(t), NEW c \in 1 .. k + 1,
                      NEW j \in 1 .. Len(del), t[i] = CheckOf(c)
               PROVE  del[j] < c
    BY DEF Later
  <2>1. CASE i \in 1 .. Len(s) /\ s[i] = CheckOf(c) /\ c \in 1 .. k
    BY <2>1 DEF UnreadInv, Later
  <2>2. CASE c = k + 1
    BY <1>2, <2>2
  <2> QED BY <1>3, <2>1, <2>2
<1>6. Reachable(t, ids, del)
  <2>1. ASSUME NEW id \in ids, NEW i \in 1 .. Len(s), WholeAt(s, i, id)
        PROVE  WholeAt(t, i, id) /\ i \in 1 .. Len(t)
    <3>1. i + 6 <= Len(s)
      BY <2>1 DEF WholeAt
    <3>2. \A n \in 0 .. 6 : t[i + n] = s[i + n]
      BY <1>1, <3>1
    <3>3. Agree(s, i, t, i)
      BY <3>2 DEF Agree
    <3>4. i \in Int /\ i + 6 <= Len(t) /\ i \in 1 .. Len(t)
      BY <1>1, <3>1
    <3> QED BY <2>1, <3>3, <3>4, WholeMoves
  <2> QED BY <2>1 DEF UnreadInv, Reachable
<1>7. ASSUME WholeAt(f, 1, k + 1) PROVE Reachable(t, ids \cup {k + 1}, del)
  <2>1. WholeAt(t, Len(s) + 1, k + 1) /\ Len(s) + 1 \in 1 .. Len(t)
    <3>1. 1 + 6 <= Len(f)
      BY <1>7 DEF WholeAt
    <3>2. ASSUME NEW n \in 0 .. 6 PROVE t[(Len(s) + 1) + n] = f[1 + n]
      <4>1. 1 + n \in 1 .. Len(f) /\ Len(s) + (1 + n) = (Len(s) + 1) + n
        BY <1>1, <3>1
      <4> QED BY <4>1
    <3>3. Len(s) + 1 \in 1 .. Len(t) /\ (Len(s) + 1) + 6 <= Len(t)
      BY <1>1, <3>1
    <3>4. Agree(f, 1, t, Len(s) + 1)
      BY <3>2 DEF Agree
    <3>5. 1 \in Int /\ Len(s) + 1 \in Int
      BY <1>1
    <3> QED BY <1>7, <3>3, <3>4, <3>5, WholeMoves
  <2> QED BY <1>6, <2>1 DEF Reachable
<1> QED BY <1>4, <1>5, <1>6, <1>7 DEF UnreadInv

(* Nothing can start inside a whole frame: its first two data look like the  *)
(* synchronisation, and the header does not follow them.                    *)
LEMMA NoFrameInside ==
  ASSUME NEW s, Len(s) \in Nat, NEW p \in 1 .. Len(s), NEW id, WholeAt(s, p, id),
         NEW i \in p + 1 .. p + 6, NEW other
  PROVE  ~WholeAt(s, i, other)
<1> SUFFICES ASSUME WholeAt(s, i, other) PROVE FALSE
  OBVIOUS
<1>1. s[i] = D!S1 /\ s[i + 2] = D!Header
  BY DEF WholeAt
<1>2. i # p + 4
  BY <1>1, TagsDiffer DEF WholeAt
<1>3. i \notin {p + 1, p + 2, p + 3, p + 5, p + 6}
  BY <1>1, TagsDiffer DEF WholeAt
<1> QED BY <1>2, <1>3

SuffixOf(t, s, m) ==
  Len(t) = Len(s) - m /\ \A i \in 1 .. Len(t) : t[i] = s[i + m]

NoSyncBefore(s, p) == \A i \in 1 .. p - 1 : ~(s[i] = D!S1 /\ s[i + 1] = D!S2)

(* Delivering the first whole frame. *)
LEMMA DeliveredKeeps ==
  ASSUME NEW k \in Nat, NEW ids, NEW del \in Seq(1 .. k),
         NEW s, UnreadInv(s, k, ids, del),
         NEW p \in 1 .. Len(s), NEW id \in 1 .. k, WholeAt(s, p, id), NoSyncBefore(s, p),
         NEW t \in Seq(Symbols(k)), SuffixOf(t, s, p + 6)
  PROVE  /\ UnreadInv(t, k, ids, Append(del, id))
         /\ \A j \in 1 .. Len(del) : del[j] < id
<1>1. Len(s) \in Nat /\ Len(t) \in Nat /\ Len(del) \in Nat
  BY LenProperties DEF UnreadInv
<1> USE DEF SuffixOf, NoSyncBefore
<1> DEFINE now == Append(del, id)
<1>2. /\ Len(now) = Len(del) + 1 /\ now[Len(del) + 1] = id
      /\ \A j \in 1 .. Len(del) : now[j] = del[j]
  BY AppendProperties
<1> HIDE DEF now
<1>3. p + 6 \in 1 .. Len(s) /\ s[p + 6] = CheckOf(id)
  BY <1>1 DEF WholeAt
<1>4. \A j \in 1 .. Len(del) : del[j] < id
  BY <1>3 DEF UnreadInv, Later
<1>5. Ordered(t, k)
  <2> SUFFICES ASSUME NEW i \in 1 .. Len(t), NEW j \in 1 .. Len(t),
                      NEW c \in 1 .. k, NEW d \in 1 .. k,
                      i < j, t[i] = CheckOf(c), t[j] = CheckOf(d)
               PROVE  c < d
    BY DEF Ordered
  <2>1. /\ i + (p + 6) \in 1 .. Len(s) /\ j + (p + 6) \in 1 .. Len(s)
        /\ i + (p + 6) < j + (p + 6)
    BY <1>1, <1>3
  <2>2. s[i + (p + 6)] = CheckOf(c) /\ s[j + (p + 6)] = CheckOf(d)
    OBVIOUS
  <2> QED BY <2>1, <2>2 DEF UnreadInv, Ordered
<1>6. Later(t, k, now)
  <2> SUFFICES ASSUME NEW i \in 1 .. Len(t), NEW c \in 1 .. k, NEW j \in 1 .. Len(now),
                      t[i] = CheckOf(c)
               PROVE  now[j] < c
    BY DEF Later
  <2>1. /\ i + (p + 6) \in 1 .. Len(s) /\ p + 6 < i + (p + 6)
        /\ s[i + (p + 6)] = CheckOf(c)
    BY <1>1, <1>3
  <2>2. id < c
    BY <1>3, <2>1 DEF UnreadInv, Ordered
  <2>3. CASE j \in 1 .. Len(del)
    BY <1>2, <2>1, <2>3 DEF UnreadInv, Later
  <2>4. CASE j = Len(del) + 1
    BY <1>2, <2>2, <2>4
  <2>5. j \in 1 .. Len(del) \/ j = Len(del) + 1
    <3> HIDE DEF SuffixOf, NoSyncBefore
    <3>1. Len(now) = Len(del) + 1 /\ Len(del) \in Nat
      BY <1>1, <1>2
    <3> QED BY <3>1
  <2> QED BY <2>3, <2>4, <2>5
<1>7. Reachable(t, ids, now)
  <2>1. ASSUME NEW x \in ids, NEW i \in 1 .. Len(s), WholeAt(s, i, x)
        PROVE  x = id \/ (WholeAt(t, i - (p + 6), x) /\ i - (p + 6) \in 1 .. Len(t))
    <3>1. CASE i < p
      <4>1. i \in 1 .. p - 1 /\ s[i] = D!S1 /\ s[i + 1] = D!S2
        BY <1>1, <2>1, <3>1 DEF WholeAt
      <4> QED BY <4>1 DEF NoSyncBefore
    <3>2. CASE i = p
      BY <2>1, <3>2, CheckIsOne DEF WholeAt
    <3>3. CASE i \in p + 1 .. p + 6
      BY <1>1, <2>1, <3>3, NoFrameInside
    <3>4. CASE i > p + 6
      <4>1. i + 6 <= Len(s)
        BY <2>1 DEF WholeAt
      <4>2. i - (p + 6) \in 1 .. Len(t) /\ (i - (p + 6)) + 6 <= Len(t)
        BY <1>1, <3>4, <4>1
      <4>3. ASSUME NEW n \in 0 .. 6 PROVE t[(i - (p + 6)) + n] = s[i + n]
        <5>1. (i - (p + 6)) + n \in 1 .. Len(t)
              /\ ((i - (p + 6)) + n) + (p + 6) = i + n
          BY <1>1, <4>1, <4>2
        <5> QED BY <5>1
      <4>4. Agree(s, i, t, i - (p + 6))
        BY <4>3 DEF Agree
      <4>5. i \in Int /\ i - (p + 6) \in Int
        OBVIOUS
      <4> QED BY <2>1, <4>2, <4>4, <4>5, WholeMoves
    <3> QED BY <1>1, <3>1, <3>2, <3>3, <3>4
  <2>2. ASSUME NEW x \in ids
        PROVE  \/ \E j \in 1 .. Len(now) : now[j] = x
               \/ \E i \in 1 .. Len(t) : WholeAt(t, i, x)
    <3>1. CASE \E j \in 1 .. Len(del) : del[j] = x
      BY <1>1, <1>2, <3>1
    <3>2. CASE x = id
      BY <1>1, <1>2, <3>2
    <3> QED BY <2>1, <2>2, <3>1, <3>2 DEF UnreadInv, Reachable
  <2> QED BY <2>2 DEF Reachable
<1> QED BY <1>4, <1>5, <1>6, <1>7 DEF UnreadInv, now

-----------------------------------------------------------------------------
(* The sender *)

(* A check, and then that of frame k, stands in the last place only. *)
CheckIsLast(f, k) ==
  \A i \in 1 .. Len(f), c \in 1 .. k : f[i] = CheckOf(c) => i = Len(f) /\ c = k

FrameOf(id) == D!Frame((id - 1) % SeqRange, D!Data, id)

LEMMA FrameHasCheckLast ==
  ASSUME NEW id \in Nat \ {0}
  PROVE  /\ FrameOf(id) \in Seq(Symbols(id)) /\ Len(FrameOf(id)) = 7
         /\ FrameOf(id)[7] = CheckOf(id)
         /\ \A i \in 1 .. 6 : \A c : FrameOf(id)[i] # CheckOf(c)
         /\ CheckIsLast(FrameOf(id), id) /\ WholeAt(FrameOf(id), 1, id)
<1> DEFINE f == FrameOf(id)
           n == (id - 1) % SeqRange
<1>1. f \in Seq(Symbols(id)) /\ Len(f) = 7
  BY FrameIs DEF FrameOf
<1>2. f = <<D!S1, D!S2, D!Header, SequenceSymbol(n), D!S1, D!S2, CheckOf(id)>>
  BY FrameIs DEF FrameOf
<1>3. /\ f[1] = D!S1 /\ f[2] = D!S2 /\ f[3] = D!Header /\ f[4] = SequenceSymbol(n)
      /\ f[5] = D!S1 /\ f[6] = D!S2 /\ f[7] = CheckOf(id)
  <2> HIDE DEF n, f
  <2> QED BY <1>2
<1> HIDE DEF f
<1>4. \A i \in 1 .. 6 : \A c : f[i] # CheckOf(c)
  <2> HIDE DEF n
  <2> TAKE i \in 1 .. 6
  <2> TAKE c
  <2>1. i \in {1, 2, 3, 4, 5, 6}
    OBVIOUS
  <2> QED BY <1>3, <2>1, TagsDiffer
<1>5. CheckIsLast(f, id)
  <2> SUFFICES ASSUME NEW i \in 1 .. 7, NEW c \in 1 .. id, f[i] = CheckOf(c)
               PROVE  i = 7 /\ c = id
    BY <1>1 DEF CheckIsLast
  <2>1. i = 7
    BY <1>4
  <2>2. CheckOf(c) = CheckOf(id)
    BY <1>3, <2>1
  <2> QED BY <2>1, <2>2, CheckIsOne
<1>6. WholeAt(f, 1, id)
  BY <1>1, <1>3 DEF WholeAt
<1> QED BY <1>1, <1>3, <1>4, <1>5, <1>6 DEF f

(* The sequence number, and the distance of two of them *)

LEMMA Division ==
  ASSUME NEW M \in Nat \ {0}, NEW x \in Int
  PROVE  x = M * (x \div M) + (x % M) /\ x \div M \in Int /\ x % M \in 0 .. M - 1
OBVIOUS

LEMMA RemainderIs ==
  ASSUME NEW M \in Nat \ {0}, NEW q \in Int, NEW r \in 0 .. M - 1, NEW x \in Int,
         x = M * q + r
  PROVE  x % M = r
<1> DEFINE d == x \div M
           e == x % M
<1>1. x = M * d + e /\ d \in Int /\ e \in 0 .. M - 1
  BY Division
<1> HIDE DEF d, e
<1>2. M * q + r = M * d + e /\ M * (q - d) = M * q - M * d
  BY <1>1
<1>3. M * (q - d) = e - r
  BY <1>1, <1>2
<1>4. ~(q - d >= 1)
  <2> SUFFICES ASSUME q - d >= 1 PROVE M * (q - d) >= M
    BY <1>1, <1>3
  <2> QED BY <1>1
<1>5. ~(q - d <= -1)
  <2> SUFFICES ASSUME q - d <= -1 PROVE M * (q - d) <= -M
    BY <1>1, <1>3
  <2> QED BY <1>1
<1>6. q = d
  BY <1>1, <1>4, <1>5
<1>7. e = r
  BY <1>1, <1>2, <1>6
<1> QED BY <1>7 DEF e

LEMMA NumberWraps ==
  ASSUME NEW M \in Nat \ {0}, NEW n \in Nat
  PROVE  ((n % M) + 1) % M = (n + 1) % M
<1> DEFINE q == n \div M
           r == n % M
<1>1. n = M * q + r /\ q \in Int /\ r \in 0 .. M - 1
  BY Division
<1> HIDE DEF q, r
<1>2. CASE r + 1 < M
  <2>1. n + 1 = M * q + (r + 1) /\ r + 1 \in 0 .. M - 1 /\ n + 1 \in Int
    BY <1>1, <1>2
  <2>2. (n + 1) % M = r + 1
    BY <1>1, <2>1, RemainderIs
  <2>3. r + 1 = M * 0 + (r + 1) /\ 0 \in Int /\ r + 1 \in Int
    BY <1>1
  <2>4. (r + 1) % M = r + 1
    BY <2>1, <2>3, RemainderIs
  <2> QED BY <2>2, <2>4 DEF r
<1>3. CASE r + 1 = M
  <2>1. n + 1 = M * (q + 1) + 0 /\ q + 1 \in Int /\ 0 \in 0 .. M - 1 /\ n + 1 \in Int
    BY <1>1, <1>3
  <2>2. (n + 1) % M = 0
    BY <2>1, RemainderIs
  <2>3. r + 1 = M * 1 + 0 /\ 1 \in Int /\ r + 1 \in Int
    BY <1>1, <1>3
  <2>4. (r + 1) % M = 0
    BY <2>1, <2>3, RemainderIs
  <2> QED BY <2>2, <2>4 DEF r
<1> QED BY <1>1, <1>2, <1>3

(* The frames missing between two of them, as the parser counts them: right   *)
(* while their number is less than the range.                                *)
LEMMA GapIs ==
  ASSUME NEW M \in Nat \ {0}, NEW old \in Nat \ {0}, NEW new \in Nat \ {0},
         new > old, new - old - 1 < M - 1
  PROVE  /\ (new - 1) % M # (old - 1) % M
         /\ (((new - 1) % M) + M - ((old - 1) % M) - 1) % M = new - old - 1
<1> DEFINE q == (old - 1) \div M
           a == (old - 1) % M
           b == (new - 1) % M
           g == new - old - 1
<1>1. old - 1 = M * q + a /\ q \in Int /\ a \in 0 .. M - 1
  BY Division
<1>2. g \in 0 .. M - 2 /\ new - 1 = (old - 1) + (g + 1) /\ new - 1 \in Int
  OBVIOUS
<1> HIDE DEF q, a, b, g
<1>3. CASE a + g + 1 < M
  <2>1. new - 1 = M * q + (a + g + 1) /\ a + g + 1 \in 0 .. M - 1
    BY <1>1, <1>2, <1>3
  <2>2. b = a + g + 1
    BY <1>1, <1>2, <2>1, RemainderIs DEF b
  <2>3. b + M - a - 1 = M * 1 + g /\ 1 \in Int /\ g \in 0 .. M - 1 /\ b + M - a - 1 \in Int
    BY <1>1, <1>2, <2>2
  <2>4. (b + M - a - 1) % M = g
    BY <2>3, RemainderIs
  <2> QED BY <1>1, <1>2, <2>2, <2>4 DEF a, b, g
<1>4. CASE a + g + 1 >= M
  <2>1. new - 1 = M * (q + 1) + (a + g + 1 - M) /\ a + g + 1 - M \in 0 .. M - 1
        /\ q + 1 \in Int
    BY <1>1, <1>2, <1>4
  <2>2. b = a + g + 1 - M
    BY <1>2, <2>1, RemainderIs DEF b
  <2>3. b + M - a - 1 = M * 0 + g /\ 0 \in Int /\ g \in 0 .. M - 1 /\ b + M - a - 1 \in Int
    BY <1>1, <1>2, <2>2
  <2>4. (b + M - a - 1) % M = g
    BY <2>3, RemainderIs
  <2> QED BY <1>1, <1>2, <2>2, <2>4 DEF a, b, g
<1> QED BY <1>1, <1>2, <1>3, <1>4

(* What is left of a frame that was damaged or cut short. *)
LEMMA WreckHasCheckLast ==
  ASSUME NEW id \in Nat \ {0}
  PROVE  /\ \A w \in 0 .. 6 : LET f == SubSeq(FrameOf(id), 1, w)
                              IN  f \in Seq(Symbols(id)) /\ CheckIsLast(f, id)
         /\ \A i \in 1 .. 7 : LET f == D!Lost(FrameOf(id), i)
                              IN  f \in Seq(Symbols(id)) /\ CheckIsLast(f, id)
         /\ \A i \in 1 .. 7, s \in {D!S1, D!S2} :
              LET f == D!Changed(FrameOf(id), i, s)
              IN  f \in Seq(Symbols(id)) /\ CheckIsLast(f, id)
<1> DEFINE f == FrameOf(id)
<1>1. /\ f \in Seq(Symbols(id)) /\ Len(f) = 7 /\ f[7] = CheckOf(id)
      /\ \A i \in 1 .. 6 : \A c : f[i] # CheckOf(c)
      /\ \A i \in 1 .. 7 : f[i] \in Symbols(id)
  BY FrameHasCheckLast, ElementOfSeq
<1> HIDE DEF f
<1>2. ASSUME NEW w \in 0 .. 6 PROVE /\ SubSeq(f, 1, w) \in Seq(Symbols(id))
                                    /\ CheckIsLast(SubSeq(f, 1, w), id)
  <2> DEFINE g == SubSeq(f, 1, w)
  <2>1. g \in Seq(Symbols(id)) /\ Len(g) = w /\ \A i \in 1 .. w : g[i] = f[i]
    BY <1>1, SubSeqProperties
  <2> HIDE DEF g
  <2>2. CheckIsLast(g, id)
    BY <1>1, <2>1 DEF CheckIsLast
  <2> QED BY <2>1, <2>2 DEF g
<1>3. ASSUME NEW i \in 1 .. 7 PROVE /\ D!Lost(f, i) \in Seq(Symbols(id))
                                    /\ CheckIsLast(D!Lost(f, i), id)
  <2> DEFINE a == SubSeq(f, 1, i - 1)
             b == SubSeq(f, i + 1, 7)
             g == a \o b
  <2>1. a \in Seq(Symbols(id)) /\ Len(a) = i - 1 /\ \A j \in 1 .. i - 1 : a[j] = f[j]
    BY <1>1, SubSeqProperties
  <2>2. /\ b \in Seq(Symbols(id)) /\ Len(b) = 7 - i
        /\ \A j \in 1 .. 7 - i : b[j] = f[i + j]
    <3>1. \A j \in i + 1 .. 7 : f[j] \in Symbols(id)
      BY <1>1
    <3>2. /\ b \in Seq(Symbols(id)) /\ Len(b) = IF i + 1 <= 7 THEN 7 - (i + 1) + 1 ELSE 0
          /\ \A j \in 1 .. 7 - (i + 1) + 1 : b[j] = f[i + 1 + j - 1]
      BY <3>1, SubSeqProperties
    <3>3. ASSUME NEW j \in 1 .. 7 - i PROVE b[j] = f[i + j]
      <4>1. i + 1 + j - 1 = i + j /\ 7 - (i + 1) + 1 = 7 - i
        OBVIOUS
      <4> QED BY <3>2, <4>1
    <3> QED BY <3>2, <3>3
  <2> HIDE DEF a, b
  <2>3. /\ g \in Seq(Symbols(id)) /\ Len(g) = Len(a) + Len(b)
        /\ \A j \in 1 .. Len(a) + Len(b) :
             g[j] = IF j <= Len(a) THEN a[j] ELSE b[j - Len(a)]
    BY <2>1, <2>2, ConcatProperties
  <2> HIDE DEF g
  <2>4. Len(g) = 6
    BY <2>1, <2>2, <2>3
  <2>5. ASSUME NEW j \in 1 .. 6 PROVE g[j] = IF j < i THEN f[j] ELSE f[j + 1]
    <3>1. CASE j < i
      BY <2>1, <2>2, <2>3, <3>1
    <3>2. CASE j >= i
      <4>1. g[j] = b[j - (i - 1)]
        BY <2>1, <2>2, <2>3, <3>2
      <4>2. j - (i - 1) \in 1 .. 7 - i /\ i + (j - (i - 1)) = j + 1
        BY <3>2
      <4>3. b[j - (i - 1)] = f[i + (j - (i - 1))]
        BY <2>2, <4>2
      <4> QED BY <3>2, <4>1, <4>2, <4>3
    <3> QED BY <3>1, <3>2
  <2>6. CheckIsLast(g, id)
    <3> SUFFICES ASSUME NEW j \in 1 .. 6, NEW c \in 1 .. id, g[j] = CheckOf(c)
                 PROVE  j = 6 /\ c = id
      BY <2>4 DEF CheckIsLast
    <3>1. j >= i /\ f[j + 1] = CheckOf(c)
      BY <1>1, <2>5
    <3>2. j = 6
      BY <1>1, <3>1
    <3>3. CheckOf(c) = CheckOf(id)
      BY <1>1, <3>1, <3>2
    <3> QED BY <3>2, <3>3, CheckIsOne
  <2> QED BY <1>1, <2>3, <2>6 DEF D!Lost, g, a, b
<1>4. ASSUME NEW i \in 1 .. 7, NEW s \in {D!S1, D!S2}
      PROVE  /\ D!Changed(f, i, s) \in Seq(Symbols(id))
             /\ CheckIsLast(D!Changed(f, i, s), id)
  <2> DEFINE g == [f EXCEPT ![i] = s]
  <2>1. s \in Symbols(id)
    BY DEF Symbols
  <2>2. /\ g \in Seq(Symbols(id)) /\ Len(g) = 7
        /\ \A j \in 1 .. 7 : g[j] = IF j = i THEN s ELSE f[j]
    <3>1. f \in [1 .. 7 -> Symbols(id)]
      BY <1>1, LenProperties
    <3>2. g \in [1 .. 7 -> Symbols(id)] /\ \A j \in 1 .. 7 : g[j] = IF j = i THEN s ELSE f[j]
      BY <2>1, <3>1
    <3> HIDE DEF g
    <3>3. g \in Seq(Symbols(id))
      <4>1. 7 \in Nat
        OBVIOUS
      <4>2. g \in UNION {[1 .. n -> Symbols(id)] : n \in Nat}
        BY <3>2, <4>1, Zenon
      <4> QED BY <4>2, SeqDef, Zenon
    <3>4. Len(g) = 7
      BY <3>2, <3>3, LenProperties
    <3> QED BY <3>2, <3>3, <3>4
  <2> HIDE DEF g
  <2>3. CheckIsLast(g, id)
    <3> SUFFICES ASSUME NEW j \in 1 .. 7, NEW c \in 1 .. id, g[j] = CheckOf(c)
                 PROVE  j = 7 /\ c = id
      BY <2>2 DEF CheckIsLast
    <3>1. j # i
      BY <2>2, TagsDiffer
    <3>2. f[j] = CheckOf(c)
      BY <2>2, <3>1
    <3>3. j = 7
      BY <1>1, <3>2
    <3>4. CheckOf(c) = CheckOf(id)
      BY <1>1, <3>2, <3>3
    <3> QED BY <3>3, <3>4, CheckIsOne
  <2> QED BY <2>2, <2>3 DEF D!Changed, g
<1> QED BY <1>2, <1>3, <1>4 DEF f

(* The line gets longer behind what the parser has not read. *)
LEMMA LineGrows ==
  ASSUME StreamInv, NEW f \in Seq(Symbols(sent + 1)), CheckIsLast(f, sent + 1),
         sent' = sent + 1, line' = line \o f, buffer' = buffer, delivered' = delivered
  PROVE  /\ buffer' \in Seq(Symbols(sent')) /\ line' \in Seq(Symbols(sent'))
         /\ UnreadInv(Unread', sent', intact, delivered')
         /\ WholeAt(f, 1, sent + 1) =>
              UnreadInv(Unread', sent', intact \cup {sent'}, delivered')
<1> DEFINE k == sent + 1
           t == buffer \o (line \o f)
<1>1. sent \in Nat /\ delivered \in Seq(1 .. sent)
  BY DEF StreamInv, SenderInv, DeliveredInv
<1>2. Symbols(sent) \subseteq Symbols(k)
  BY <1>1, SymbolsGrow
<1>3. /\ buffer \in Seq(Symbols(sent)) /\ line \in Seq(Symbols(sent))
      /\ UnreadInv(Unread, sent, intact, delivered)
  BY DEF StreamInv
<1>4. buffer \in Seq(Symbols(k)) /\ line \in Seq(Symbols(k)) /\ f \in Seq(Symbols(k))
  BY <1>2, <1>3, SeqMonotonic
<1> HIDE DEF k
<1>5. line \o f \in Seq(Symbols(k))
  BY <1>4, ConcatProperties
<1>6. t = Unread \o f
  BY <1>4, ConcatAssociative DEF Unread
<1>7. Unread \in Seq(Symbols(k))
  BY <1>4, ConcatProperties DEF Unread
<1> HIDE DEF t
<1>8. /\ t \in Seq(Symbols(k)) /\ Len(t) = Len(Unread) + Len(f)
      /\ \A i \in 1 .. Len(Unread) + Len(f) :
           t[i] = IF i <= Len(Unread) THEN Unread[i] ELSE f[i - Len(Unread)]
  BY <1>4, <1>6, <1>7, ConcatProperties
<1>9. Len(Unread) \in Nat /\ Len(f) \in Nat
  BY <1>4, <1>7, LenProperties
<1>10. \A i \in 1 .. Len(Unread) : t[i] = Unread[i]
  BY <1>8, <1>9
<1>11. ASSUME NEW i \in 1 .. Len(f) PROVE t[Len(Unread) + i] = f[i]
  <2>1. /\ Len(Unread) + i \in 1 .. Len(Unread) + Len(f) /\ ~(Len(Unread) + i <= Len(Unread))
        /\ (Len(Unread) + i) - Len(Unread) = i
    BY <1>9
  <2> QED BY <1>8, <2>1
<1>12. /\ UnreadInv(t, k, intact, delivered)
       /\ WholeAt(f, 1, k) => UnreadInv(t, k, intact \cup {k}, delivered)
  <2> USE DEF k
  <2>1. \A i \in 1 .. Len(f), c \in 1 .. sent + 1 :
           f[i] = CheckOf(c) => i = Len(f) /\ c = sent + 1
    BY DEF CheckIsLast
  <2> QED BY <1>1, <1>3, <1>8, <1>10, <1>11, <2>1, AppendedKeeps
<1>13. Unread' = t /\ sent' = k
  BY DEF Unread, t, k
<1> QED BY <1>4, <1>5, <1>12, <1>13 DEF k

LEMMA SendKeeps == ASSUME StreamInv, D!SendFrame PROVE StreamInv'
<1> DEFINE id == sent + 1
<1>1. /\ sent < MaxFrames /\ sent' = id /\ sequence' = (sequence + 1) % SeqRange
      /\ buffer' = buffer /\ feeding' = feeding /\ last_sequence' = last_sequence
      /\ dropped_frames' = dropped_frames /\ delivered' = delivered
  BY DEF D!SendFrame, D!NextSequence, D!parser
<1>2. sent \in Nat /\ id \in Nat \ {0} /\ sequence = sent % SeqRange /\ (id - 1) = sent
  BY DEF StreamInv, SenderInv
<1>3. D!Frame(sequence, D!Data, sent') = FrameOf(id)
  BY <1>1, <1>2 DEF FrameOf
<1>4. /\ FrameOf(id) \in Seq(Symbols(id)) /\ CheckIsLast(FrameOf(id), id)
      /\ WholeAt(FrameOf(id), 1, id) /\ DOMAIN FrameOf(id) = 1 .. 7
  BY <1>2, FrameHasCheckLast, LenProperties
<1>5. \E f \in Seq(Symbols(id)) :
         /\ CheckIsLast(f, id) /\ line' = line \o f
         /\ \/ intact' = intact \cup {sent'} /\ f = FrameOf(id) /\ damage' = damage
               /\ drop_count' = drop_count
            \/ /\ intact' = intact /\ damage < MaxDamage /\ damage' = damage + 1
               /\ drop_count' \in {drop_count, drop_count + 1}
  <2>1. CASE /\ D!Transmit(FrameOf(id)) /\ drop_count' = drop_count
    <3>1. CASE /\ line' = line \o FrameOf(id) /\ intact' = intact \cup {sent'}
               /\ damage' = damage
      BY <1>4, <2>1, <3>1
    <3>2. ASSUME damage < MaxDamage, damage' = damage + 1, intact' = intact,
                 NEW i \in DOMAIN FrameOf(id),
                 \/ line' = line \o D!Lost(FrameOf(id), i)
                 \/ \E s \in {D!S1, D!S2} \ {FrameOf(id)[i]} :
                       line' = line \o D!Changed(FrameOf(id), i, s)
          PROVE  \E f \in Seq(Symbols(id)) : CheckIsLast(f, id) /\ line' = line \o f
      <4>1. i \in 1 .. 7
        BY <1>4, <3>2
      <4>2. CASE line' = line \o D!Lost(FrameOf(id), i)
        BY <1>2, <4>1, <4>2, WreckHasCheckLast
      <4>3. CASE \E s \in {D!S1, D!S2} \ {FrameOf(id)[i]} :
                   line' = line \o D!Changed(FrameOf(id), i, s)
        <5>1. PICK s \in {D!S1, D!S2} : line' = line \o D!Changed(FrameOf(id), i, s)
          BY <4>3
        <5> QED BY <1>2, <4>1, <5>1, WreckHasCheckLast
      <4> QED BY <3>2, <4>2, <4>3
    <3> QED BY <2>1, <3>1, <3>2 DEF D!Transmit
  <2>2. CASE /\ damage < MaxDamage /\ damage' = damage + 1 /\ drop_count' = drop_count + 1
             /\ \E written \in 0 .. D!FrameSize - 1 :
                   line' = line \o SubSeq(FrameOf(id), 1, written)
             /\ intact' = intact
    <3>1. PICK w \in 0 .. 6 : line' = line \o SubSeq(FrameOf(id), 1, w)
      <4>1. D!FrameSize - 1 = 6
        BY DEF D!FrameSize
      <4> QED BY <2>2, <4>1, Zenon
    <3>2. /\ SubSeq(FrameOf(id), 1, w) \in Seq(Symbols(id))
          /\ CheckIsLast(SubSeq(FrameOf(id), 1, w), id)
      BY <1>2, WreckHasCheckLast
    <3> QED BY <2>2, <3>1, <3>2
  <2> QED BY <1>3, <2>1, <2>2 DEF D!SendFrame
<1>6. PICK f \in Seq(Symbols(id)) :
         /\ CheckIsLast(f, id) /\ line' = line \o f
         /\ \/ intact' = intact \cup {sent'} /\ f = FrameOf(id) /\ damage' = damage
               /\ drop_count' = drop_count
            \/ /\ intact' = intact /\ damage < MaxDamage /\ damage' = damage + 1
               /\ drop_count' \in {drop_count, drop_count + 1}
  BY <1>5
<1>7. /\ buffer' \in Seq(Symbols(sent')) /\ line' \in Seq(Symbols(sent'))
      /\ UnreadInv(Unread', sent', intact, delivered')
      /\ WholeAt(f, 1, id) => UnreadInv(Unread', sent', intact \cup {sent'}, delivered')
  BY <1>1, <1>6, LineGrows
<1>8. UnreadInv(Unread', sent', intact', delivered')
  BY <1>4, <1>6, <1>7
<1>9. SenderInv'
  <2>1. sequence' = sent' % SeqRange
    BY <1>1, <1>2, StreamAssumption, NumberWraps
  <2>2. sent' \in 0 .. MaxFrames
    BY <1>1, <1>2, StreamAssumption
  <2>3. damage' \in 0 .. MaxDamage /\ drop_count' \in 0 .. damage'
    BY <1>6, StreamAssumption DEF StreamInv, SenderInv
  <2>4. intact' \subseteq 1 .. sent'
    <3>1. intact \subseteq 1 .. sent'
      BY <1>1, <1>2 DEF StreamInv, SenderInv
    <3>2. sent' \in 1 .. sent'
      BY <1>1, <1>2
    <3> QED BY <1>6, <3>1, <3>2, Zenon
  <2> QED BY <2>1, <2>2, <2>3, <2>4 DEF SenderInv
<1>10. DeliveredInv'
  <2>1. 1 .. sent \subseteq 1 .. sent'
    BY <1>1, <1>2
  <2>2. delivered' \in Seq(1 .. sent')
    BY <1>1, <2>1, SeqMonotonic DEF StreamInv, DeliveredInv
  <2> QED BY <1>1, <2>2 DEF StreamInv, DeliveredInv
<1>11. CountInv'
  BY <1>1 DEF StreamInv, CountInv
<1>12. feeding' \in BOOLEAN
  BY <1>1 DEF StreamInv
<1> QED BY <1>7, <1>8, <1>9, <1>10, <1>11, <1>12 DEF StreamInv

LEMMA FeedKeeps == ASSUME StreamInv, NEW n \in Chunks, D!Feed(n) PROVE StreamInv'
<1>1. /\ n <= Len(line) /\ buffer' = buffer \o SubSeq(line, 1, n)
      /\ line' = SubSeq(line, n + 1, Len(line)) /\ feeding' = TRUE
      /\ sequence' = sequence /\ drop_count' = drop_count /\ sent' = sent
      /\ intact' = intact /\ damage' = damage /\ last_sequence' = last_sequence
      /\ dropped_frames' = dropped_frames /\ delivered' = delivered
  BY DEF D!Feed, D!device
<1>2. n \in Nat
  BY StreamAssumption
<1>3. buffer \in Seq(Symbols(sent)) /\ line \in Seq(Symbols(sent))
  BY DEF StreamInv
<1>4. Len(line) \in Nat /\ \A i \in 1 .. Len(line) : line[i] \in Symbols(sent)
  BY <1>3, LenProperties, ElementOfSeq
<1>5. SubSeq(line, 1, n) \in Seq(Symbols(sent))
  <2>1. \A i \in 1 .. n : line[i] \in Symbols(sent)
    BY <1>1, <1>2, <1>4
  <2> QED BY <1>2, <2>1, SubSeqProperties
<1>6. line' \in Seq(Symbols(sent))
  <2>1. \A i \in n + 1 .. Len(line) : line[i] \in Symbols(sent)
    BY <1>2, <1>4
  <2>2. n + 1 \in Int /\ Len(line) \in Int
    BY <1>2, <1>4
  <2> QED BY <1>1, <2>1, <2>2, SubSeqProperties
<1>7. buffer' \in Seq(Symbols(sent))
  BY <1>1, <1>3, <1>5, ConcatProperties
<1>8. Unread' = Unread
  <2>1. SubSeq(line, 1, n) \o line' = line
    <3>1. /\ 1 \in 1 .. Len(line) + 1 /\ n \in 1 - 1 .. Len(line)
          /\ Len(line) \in n .. Len(line)
      BY <1>1, <1>2, <1>4
    <3>2. SubSeq(line, 1, n) \o SubSeq(line, n + 1, Len(line)) = SubSeq(line, 1, Len(line))
      BY <1>3, <3>1, ConcatAdjacentSubSeq
    <3> QED BY <1>1, <1>3, <3>2, SubSeqFull
  <2>2. buffer' \o line' = buffer \o (SubSeq(line, 1, n) \o line')
    <3> DEFINE taken == SubSeq(line, 1, n)
               left == line'
    <3>1. taken \in Seq(Symbols(sent)) /\ left \in Seq(Symbols(sent))
      BY <1>5, <1>6
    <3>2. buffer' = buffer \o taken
      BY <1>1
    <3> HIDE DEF taken, left
    <3>3. (buffer \o taken) \o left = buffer \o (taken \o left)
      BY <1>3, <3>1, ConcatAssociative
    <3>4. buffer' \o left = buffer \o (taken \o left)
      BY <3>2, <3>3
    <3> QED BY <3>4 DEF taken, left
  <2> QED BY <2>1, <2>2 DEF Unread
<1>9. SenderInv' /\ DeliveredInv' /\ CountInv'
  BY <1>1 DEF StreamInv, SenderInv, DeliveredInv, CountInv
<1> QED BY <1>1, <1>6, <1>7, <1>8, <1>9 DEF StreamInv

-----------------------------------------------------------------------------
(* The parser *)

LEMMA UnreadIs ==
  ASSUME StreamInv
  PROVE  /\ sent \in Nat /\ Len(buffer) \in Nat /\ Len(line) \in Nat
         /\ Unread \in Seq(Symbols(sent)) /\ Len(Unread) = Len(buffer) + Len(line)
         /\ \A i \in 1 .. Len(buffer) : Unread[i] = buffer[i] /\ buffer[i] \in Symbols(sent)
<1>1. buffer \in Seq(Symbols(sent)) /\ line \in Seq(Symbols(sent)) /\ sent \in Nat
  BY DEF StreamInv, SenderInv
<1>2. Len(buffer) \in Nat /\ Len(line) \in Nat
  BY <1>1, LenProperties
<1>3. \A i \in 1 .. Len(buffer) : buffer[i] \in Symbols(sent)
  BY <1>1, ElementOfSeq
<1>4. /\ Unread \in Seq(Symbols(sent)) /\ Len(Unread) = Len(buffer) + Len(line)
      /\ \A i \in 1 .. Len(buffer) + Len(line) :
           Unread[i] = IF i <= Len(buffer) THEN buffer[i] ELSE line[i - Len(buffer)]
  BY <1>1, ConcatProperties DEF Unread
<1> QED BY <1>1, <1>2, <1>3, <1>4

(* What the buffer keeps, with the line behind it. *)
LEMMA KeptIs ==
  ASSUME StreamInv, NEW m \in 0 .. Len(buffer), NEW b \in Seq(Symbols(sent)),
         Len(b) = Len(buffer) - m, \A i \in 1 .. Len(b) : b[i] = buffer[i + m]
  PROVE  /\ b \o line \in Seq(Symbols(sent)) /\ Len(b \o line) = Len(Unread) - m
         /\ \A i \in 1 .. Len(b \o line) : (b \o line)[i] = Unread[i + m]
<1> DEFINE t == b \o line
<1>1. buffer \in Seq(Symbols(sent)) /\ line \in Seq(Symbols(sent))
  BY DEF StreamInv
<1>2. /\ Len(buffer) \in Nat /\ Len(line) \in Nat /\ Len(b) \in Nat
      /\ Len(Unread) = Len(buffer) + Len(line)
  BY UnreadIs, LenProperties
<1>3. \A i \in 1 .. Len(buffer) + Len(line) :
         Unread[i] = IF i <= Len(buffer) THEN buffer[i] ELSE line[i - Len(buffer)]
  BY <1>1, ConcatProperties DEF Unread
<1>4. /\ t \in Seq(Symbols(sent)) /\ Len(t) = Len(b) + Len(line)
      /\ \A i \in 1 .. Len(b) + Len(line) :
           t[i] = IF i <= Len(b) THEN b[i] ELSE line[i - Len(b)]
  BY <1>1, ConcatProperties
<1> HIDE DEF t
<1>5. ASSUME NEW i \in 1 .. Len(t) PROVE t[i] = Unread[i + m]
  <2>1. i + m \in 1 .. Len(buffer) + Len(line) /\ i \in 1 .. Len(b) + Len(line)
    BY <1>2, <1>4
  <2>2. CASE i <= Len(b)
    <3>1. t[i] = b[i] /\ b[i] = buffer[i + m] /\ i + m <= Len(buffer)
      BY <1>2, <1>4, <2>1, <2>2
    <3> QED BY <1>3, <2>1, <3>1
  <2>3. CASE i > Len(b)
    <3>1. t[i] = line[i - Len(b)] /\ ~(i + m <= Len(buffer))
      BY <1>2, <1>4, <2>1, <2>3
    <3>2. (i + m) - Len(buffer) = i - Len(b)
      BY <1>2
    <3>3. Unread[i + m] = line[(i + m) - Len(buffer)]
      BY <1>3, <2>1, <3>1
    <3> QED BY <3>1, <3>2, <3>3
  <2> QED BY <1>2, <2>2, <2>3
<1> QED BY <1>2, <1>4, <1>5 DEF t

(* Giving up symbols at which no whole frame starts. *)
LEMMA DropKeeps ==
  ASSUME StreamInv, NEW m \in 0 .. Len(buffer), NEW b \in Seq(Symbols(sent)),
         Len(b) = Len(buffer) - m, \A i \in 1 .. Len(b) : b[i] = buffer[i + m],
         \A i \in 1 .. m : \A id : ~WholeAt(Unread, i, id),
         buffer' = b, feeding' \in BOOLEAN,
         UNCHANGED <<D!device, line, last_sequence, dropped_frames, delivered>>
  PROVE  StreamInv'
<1> DEFINE t == b \o line
<1>1. /\ sequence' = sequence /\ drop_count' = drop_count /\ sent' = sent
      /\ intact' = intact /\ damage' = damage /\ line' = line
      /\ last_sequence' = last_sequence /\ dropped_frames' = dropped_frames
      /\ delivered' = delivered
  BY DEF D!device
<1>2. /\ t \in Seq(Symbols(sent)) /\ Len(t) = Len(Unread) - m
      /\ \A i \in 1 .. Len(t) : t[i] = Unread[i + m]
  BY KeptIs
<1> HIDE DEF t
<1>3. UnreadInv(t, sent, intact, delivered)
  <2>1. /\ UnreadInv(Unread, sent, intact, delivered) /\ sent \in Nat
        /\ delivered \in Seq(1 .. sent)
    BY UnreadIs DEF StreamInv, DeliveredInv
  <2>2. Len(delivered) \in Nat
    BY <2>1, LenProperties
  <2>3. m \in 0 .. Len(Unread)
    BY UnreadIs
  <2>4. \A id \in intact, i \in 1 .. m :
           WholeAt(Unread, i, id) => \E j \in 1 .. Len(delivered) : delivered[j] = id
    OBVIOUS
  <2> QED BY <1>2, <2>1, <2>2, <2>3, <2>4, SuffixKeeps
<1>4. Unread' = t
  BY <1>1 DEF Unread, t
<1>5. SenderInv' /\ DeliveredInv' /\ CountInv'
  BY <1>1 DEF StreamInv, SenderInv, DeliveredInv, CountInv
<1> QED BY <1>1, <1>3, <1>4, <1>5 DEF StreamInv

LEMMA SyncIs ==
  ASSUME NEW i \in D!SyncAt
  PROVE  i \in 1 .. Len(buffer) - 1 /\ buffer[i] = D!S1 /\ buffer[i + 1] = D!S2
BY DEF D!SyncAt

LEMMA NoSyncKeeps == ASSUME StreamInv, D!NoSync PROVE StreamInv'
<1> DEFINE last == Len(buffer)
<1>1. /\ D!SyncAt = {} /\ buffer' = D!KeepSplitSync /\ feeding' = FALSE
      /\ UNCHANGED <<D!device, line, last_sequence, dropped_frames, delivered>>
  BY DEF D!NoSync
<1>2. \A i \in 1 .. last - 1 : ~(buffer[i] = D!S1 /\ buffer[i + 1] = D!S2)
  BY <1>1 DEF D!SyncAt
<1>3. /\ last \in Nat /\ Len(Unread) \in Nat
      /\ \A i \in 1 .. last : Unread[i] = buffer[i]
      /\ buffer \in Seq(Symbols(sent))
  <2>1. buffer \in Seq(Symbols(sent))
    BY DEF StreamInv
  <2> QED BY <2>1, UnreadIs
<1>4. ASSUME NEW i \in 1 .. last - 1, NEW id PROVE ~WholeAt(Unread, i, id)
  <2>1. Unread[i] = buffer[i] /\ Unread[i + 1] = buffer[i + 1]
    <3>1. i \in 1 .. last /\ i + 1 \in 1 .. last
      BY <1>3
    <3> QED BY <1>3, <3>1, Zenon
  <2> QED BY <1>2, <2>1 DEF WholeAt
<1>5. CASE buffer # <<>> /\ buffer[last] = D!S1
  <2> DEFINE b == <<D!S1>>
  <2>1. buffer' = b
    BY <1>1, <1>5 DEF D!KeepSplitSync, D!Last
  <2>2. last - 1 \in 0 .. last
    BY <1>3, <1>5, EmptySeq
  <2>3. b \in Seq(Symbols(sent)) /\ Len(b) = 1 /\ b[1] = D!S1
    BY DEF Symbols
  <2> HIDE DEF b
  <2>4. Len(b) = last - (last - 1) /\ \A i \in 1 .. Len(b) : b[i] = buffer[i + (last - 1)]
    <3>1. ASSUME NEW i \in 1 .. Len(b) PROVE b[i] = buffer[i + (last - 1)]
      <4>1. i = 1 /\ i + (last - 1) = last
        BY <1>3, <2>3
      <4> QED BY <1>5, <2>3, <4>1
    <3> QED BY <1>3, <2>3, <3>1
  <2> QED BY <1>1, <1>4, <2>1, <2>2, <2>3, <2>4, DropKeeps
<1>6. CASE ~(buffer # <<>> /\ buffer[last] = D!S1)
  <2> DEFINE b == <<>>
  <2>1. buffer' = b
    BY <1>1, <1>6 DEF D!KeepSplitSync, D!Last
  <2>2. last \in 0 .. last
    BY <1>3
  <2>3. b \in Seq(Symbols(sent)) /\ Len(b) = 0
    BY EmptySeq
  <2> HIDE DEF b
  <2>4. Len(b) = last - last /\ \A i \in 1 .. Len(b) : b[i] = buffer[i + last]
    BY <1>3, <2>3
  <2>5. ASSUME NEW i \in 1 .. last, NEW id PROVE ~WholeAt(Unread, i, id)
    <3>1. CASE i = last
      <4>1. last >= 1
        BY <3>1
      <4>2. buffer # <<>>
        BY <1>3, <4>1, EmptySeq
      <4>3. Unread[i] # D!S1
        BY <1>3, <1>6, <3>1, <4>2
      <4> QED BY <4>3 DEF WholeAt
    <3> QED BY <1>3, <1>4, <3>1
  <2> QED BY <1>1, <2>1, <2>2, <2>3, <2>4, <2>5, DropKeeps
<1> QED BY <1>5, <1>6

LEMMA Least ==
  ASSUME NEW T, T \subseteq Nat, T # {}
  PROVE  \E x \in T : \A y \in T : x <= y
<1>1. PICK x \in T : \A y \in T : ~(<<y, x>> \in OpToRel(<, Nat))
  BY NatLessThanWellFounded, WFMin
<1>2. ASSUME NEW y \in T PROVE x <= y
  <2>1. x \in Nat /\ y \in Nat
    OBVIOUS
  <2>2. ~(y < x)
    BY <1>1, <2>1 DEF OpToRel
  <2> QED BY <2>1, <2>2
<1> QED BY <1>2

(* The place of the first synchronisation, and what begins there. *)
First == D!Min(D!SyncAt)

LEMMA FirstSync ==
  ASSUME StreamInv, D!SyncAt # {}
  PROVE  /\ First \in 1 .. Len(buffer) - 1
         /\ buffer[First] = D!S1 /\ buffer[First + 1] = D!S2
         /\ \A i \in 1 .. First - 1 : ~(buffer[i] = D!S1 /\ buffer[i + 1] = D!S2)
         /\ D!FromSync \in Seq(Symbols(sent)) /\ Len(D!FromSync) = Len(buffer) - First + 1
         /\ \A i \in 1 .. Len(buffer) - First + 1 :
              D!FromSync[i] = buffer[First + i - 1]
         /\ \A i \in 1 .. First - 1 : \A id : ~WholeAt(Unread, i, id)
<1>1. D!SyncAt \subseteq Nat /\ D!SyncAt \subseteq 1 .. Len(buffer) - 1
  BY SyncIs
<1>2. \E x \in D!SyncAt : \A y \in D!SyncAt : x <= y
  BY <1>1, Least
<1>3. First \in D!SyncAt /\ \A y \in D!SyncAt : First <= y
  BY <1>2 DEF First, D!Min
<1>4. First \in 1 .. Len(buffer) - 1 /\ buffer[First] = D!S1 /\ buffer[First + 1] = D!S2
  BY <1>3, SyncIs
<1>5. /\ Len(buffer) \in Nat
      /\ \A i \in 1 .. Len(buffer) : Unread[i] = buffer[i] /\ buffer[i] \in Symbols(sent)
  BY UnreadIs
<1>6. ASSUME NEW i \in 1 .. First - 1 PROVE ~(buffer[i] = D!S1 /\ buffer[i + 1] = D!S2)
  <2>1. i \in 1 .. Len(buffer) - 1 /\ i < First
    BY <1>4, <1>5
  <2>2. i \notin D!SyncAt
    BY <1>3, <1>4, <2>1
  <2> QED BY <2>1, <2>2 DEF D!SyncAt
<1>7. D!FromSync = SubSeq(buffer, First, Len(buffer))
  BY DEF D!FromSync, First
<1>8. /\ D!FromSync \in Seq(Symbols(sent)) /\ Len(D!FromSync) = Len(buffer) - First + 1
      /\ \A i \in 1 .. Len(buffer) - First + 1 : D!FromSync[i] = buffer[First + i - 1]
  <2>1. \A i \in First .. Len(buffer) : buffer[i] \in Symbols(sent)
    BY <1>4, <1>5
  <2> QED BY <1>4, <1>5, <1>7, <2>1, SubSeqProperties
<1>9. ASSUME NEW i \in 1 .. First - 1, NEW id PROVE ~WholeAt(Unread, i, id)
  <2>1. Unread[i] = buffer[i] /\ Unread[i + 1] = buffer[i + 1]
    <3>1. i \in 1 .. Len(buffer) /\ i + 1 \in 1 .. Len(buffer)
      BY <1>4, <1>5
    <3> QED BY <1>5, <3>1, Zenon
  <2> QED BY <1>6, <2>1 DEF WholeAt
<1> QED BY <1>4, <1>6, <1>8, <1>9

LEMMA IncompleteKeeps == ASSUME StreamInv, D!Incomplete PROVE StreamInv'
<1>1. /\ D!SyncAt # {} /\ buffer' = D!FromSync /\ feeding' = FALSE
      /\ UNCHANGED <<D!device, line, last_sequence, dropped_frames, delivered>>
  BY DEF D!Incomplete
<1> DEFINE b == D!FromSync
           m == First - 1
<1>2. /\ First \in 1 .. Len(buffer) - 1 /\ Len(buffer) \in Nat
      /\ b \in Seq(Symbols(sent)) /\ Len(b) = Len(buffer) - First + 1
      /\ \A i \in 1 .. Len(buffer) - First + 1 : b[i] = buffer[First + i - 1]
      /\ \A i \in 1 .. m : \A id : ~WholeAt(Unread, i, id)
  BY <1>1, FirstSync, UnreadIs
<1> HIDE DEF b
<1>3. m \in 0 .. Len(buffer) /\ Len(b) = Len(buffer) - m
  BY <1>2
<1>4. ASSUME NEW i \in 1 .. Len(b) PROVE b[i] = buffer[i + m]
  <2>1. i \in 1 .. Len(buffer) - First + 1 /\ First + i - 1 = i + m
    BY <1>2
  <2> QED BY <1>2, <2>1
<1>5. buffer' = b /\ feeding' \in BOOLEAN
  BY <1>1 DEF b
<1> HIDE DEF m
<1> QED BY <1>1, <1>2, <1>3, <1>4, <1>5, DropKeeps

(* The candidate, symbol by symbol. *)
LEMMA CandidateIs ==
  ASSUME StreamInv, D!SyncAt # {}, Len(D!FromSync) >= D!FrameSize
  PROVE  /\ First + 6 \in 1 .. Len(buffer) /\ First \in 1 .. Len(buffer)
         /\ D!Candidate[1] = buffer[First] /\ D!Candidate[2] = buffer[First + 1]
         /\ D!Candidate[3] = buffer[First + 2] /\ D!Candidate[4] = buffer[First + 3]
         /\ D!Candidate[5] = buffer[First + 4] /\ D!Candidate[6] = buffer[First + 5]
         /\ D!Candidate[7] = buffer[First + 6]
<1> DEFINE b == D!FromSync
<1>1. /\ First \in 1 .. Len(buffer) - 1 /\ Len(buffer) \in Nat
      /\ b \in Seq(Symbols(sent)) /\ Len(b) = Len(buffer) - First + 1
      /\ \A i \in 1 .. Len(buffer) - First + 1 : b[i] = buffer[First + i - 1]
  BY FirstSync, UnreadIs
<1>2. Len(b) >= 7
  BY DEF D!FrameSize
<1>3. D!Candidate = SubSeq(b, 1, 7)
  BY DEF D!Candidate, D!FrameSize
<1> HIDE DEF b
<1>4. First + 6 \in 1 .. Len(buffer) /\ First \in 1 .. Len(buffer)
  BY <1>1, <1>2
<1>5. \A i \in 1 .. 7 : D!Candidate[i] = b[i]
  <2>1. \A i \in 1 .. 7 : b[i] \in Symbols(sent)
    BY <1>1, <1>2, ElementOfSeq
  <2> QED BY <1>3, <2>1, SubSeqProperties
<1>6. /\ b[1] = buffer[First] /\ b[2] = buffer[First + 1] /\ b[3] = buffer[First + 2]
      /\ b[4] = buffer[First + 3] /\ b[5] = buffer[First + 4] /\ b[6] = buffer[First + 5]
      /\ b[7] = buffer[First + 6]
  <2>1. \A i \in 1 .. 7 : b[i] = buffer[First + i - 1]
    BY <1>1, <1>2
  <2>2. First + 1 - 1 = First /\ First + 2 - 1 = First + 1 /\ First + 3 - 1 = First + 2
        /\ First + 4 - 1 = First + 3 /\ First + 5 - 1 = First + 4
        /\ First + 6 - 1 = First + 5 /\ First + 7 - 1 = First + 6
    BY <1>1
  <2>3. /\ b[1] = buffer[First + 1 - 1] /\ b[2] = buffer[First + 2 - 1]
        /\ b[3] = buffer[First + 3 - 1] /\ b[4] = buffer[First + 4 - 1]
        /\ b[5] = buffer[First + 5 - 1] /\ b[6] = buffer[First + 6 - 1]
        /\ b[7] = buffer[First + 7 - 1]
    BY <2>1
  <2> QED BY <2>2, <2>3
<1> QED BY <1>4, <1>5, <1>6

(* A candidate is valid when and only when it is a whole frame. *)
LEMMA ValidIsWhole ==
  ASSUME StreamInv, D!SyncAt # {}, Len(D!FromSync) >= D!FrameSize
  PROVE  /\ \A id : WholeAt(Unread, First, id) => D!Valid
         /\ D!Valid => \E id \in 1 .. sent :
              /\ WholeAt(Unread, First, id) /\ D!Candidate[7][3] = id
              /\ D!Candidate[4][2] = (id - 1) % SeqRange
<1> DEFINE c == D!Candidate
<1>1. /\ First + 6 \in 1 .. Len(buffer) /\ First \in 1 .. Len(buffer)
      /\ c[1] = buffer[First] /\ c[2] = buffer[First + 1] /\ c[3] = buffer[First + 2]
      /\ c[4] = buffer[First + 3] /\ c[5] = buffer[First + 4]
      /\ c[6] = buffer[First + 5] /\ c[7] = buffer[First + 6]
  BY CandidateIs
<1>2. /\ Len(buffer) \in Nat /\ Len(line) \in Nat /\ sent \in Nat
      /\ Len(Unread) = Len(buffer) + Len(line)
      /\ \A i \in 1 .. Len(buffer) : Unread[i] = buffer[i] /\ buffer[i] \in Symbols(sent)
  BY UnreadIs
<1>3. /\ Unread[First] = c[1] /\ Unread[First + 1] = c[2] /\ Unread[First + 2] = c[3]
      /\ Unread[First + 3] = c[4] /\ Unread[First + 4] = c[5]
      /\ Unread[First + 5] = c[6] /\ Unread[First + 6] = c[7]
      /\ First + 6 <= Len(Unread)
  <2>1. /\ First \in 1 .. Len(buffer) /\ First + 1 \in 1 .. Len(buffer)
        /\ First + 2 \in 1 .. Len(buffer) /\ First + 3 \in 1 .. Len(buffer)
        /\ First + 4 \in 1 .. Len(buffer) /\ First + 5 \in 1 .. Len(buffer)
        /\ First + 6 \in 1 .. Len(buffer) /\ First + 6 <= Len(Unread)
    <3>1. First + 6 \in 1 .. Len(buffer) /\ First \in 1 .. Len(buffer)
      BY <1>1
    <3>2. Len(buffer) \in Nat /\ Len(line) \in Nat /\ Len(Unread) = Len(buffer) + Len(line)
      BY <1>2
    <3> QED BY <3>1, <3>2
  <2>2. \A i \in 1 .. Len(buffer) : Unread[i] = buffer[i]
    BY <1>2
  <2> QED BY <1>1, <2>1, <2>2, Zenon
<1>4. c[1] = D!S1 /\ c[2] = D!S2
  BY <1>1, FirstSync
<1>5. c[4] \in Symbols(sent) /\ c[7] \in Symbols(sent)
  <2>1. First + 3 \in 1 .. Len(buffer) /\ First + 6 \in 1 .. Len(buffer)
    BY <1>1, <1>2
  <2>2. buffer[First + 3] \in Symbols(sent) /\ buffer[First + 6] \in Symbols(sent)
    BY <1>2, <2>1, Zenon
  <2> QED BY <1>1, <2>2, Zenon
<1>6. D!Valid <=> /\ c[3] = D!Header /\ c[4][1] = "sequence" /\ c[7][1] = "check"
                  /\ c[7][2] = <<c[4][2], <<c[5], c[6]>>>>
  BY DEF D!Valid
<1> HIDE DEF c
<1>7. ASSUME NEW id, WholeAt(Unread, First, id) PROVE D!Valid
  <2>1. /\ c[3] = D!Header /\ c[4] = SequenceSymbol((id - 1) % SeqRange)
        /\ c[5] = D!S1 /\ c[6] = D!S2 /\ c[7] = CheckOf(id)
    BY <1>3, <1>7 DEF WholeAt
  <2>2. c[4][1] = "sequence" /\ c[4][2] = (id - 1) % SeqRange /\ c[7][1] = "check"
        /\ c[7][2] = <<(id - 1) % SeqRange, D!Data>>
    BY <2>1, Tags
  <2> QED BY <1>6, <2>1, <2>2, DataIs
<1>8. ASSUME D!Valid
      PROVE  \E id \in 1 .. sent : /\ WholeAt(Unread, First, id) /\ c[7][3] = id
                                   /\ c[4][2] = (id - 1) % SeqRange
  <2>1. PICK id \in 1 .. sent : c[7] = CheckOf(id)
    BY <1>2, <1>5, <1>6, <1>8, CheckIsSymbol
  <2>2. PICK n \in 0 .. SeqRange - 1 : c[4] = SequenceSymbol(n)
    BY <1>2, <1>5, <1>6, <1>8, SequenceIsSymbol
  <2>3. c[7][2] = <<(id - 1) % SeqRange, D!Data>> /\ c[7][3] = id /\ c[4][2] = n
    BY <2>1, <2>2, Tags
  <2>4. <<n, <<c[5], c[6]>>>> = <<(id - 1) % SeqRange, <<D!S1, D!S2>>>>
    BY <1>6, <1>8, <2>3, DataIs
  <2>5. n = (id - 1) % SeqRange /\ c[5] = D!S1 /\ c[6] = D!S2
    <3>1. n = (id - 1) % SeqRange /\ <<c[5], c[6]>> = <<D!S1, D!S2>>
      BY <2>4, PairsAgree
    <3> QED BY <3>1, PairsAgree
  <2>6. WholeAt(Unread, First, id)
    BY <1>3, <1>4, <1>6, <1>8, <2>1, <2>2, <2>5 DEF WholeAt
  <2> QED BY <2>3, <2>5, <2>6
<1> QED BY <1>7, <1>8 DEF c

LEMMA RejectKeeps == ASSUME StreamInv, D!Reject PROVE StreamInv'
<1>1. /\ D!SyncAt # {} /\ Len(D!FromSync) >= D!FrameSize /\ ~D!Valid
      /\ buffer' = Tail(D!FromSync) /\ feeding' = feeding
      /\ UNCHANGED <<D!device, line, last_sequence, dropped_frames, delivered>>
  BY DEF D!Reject, D!SkipOne
<1> DEFINE f == D!FromSync
           b == Tail(f)
<1>2. /\ First \in 1 .. Len(buffer) - 1 /\ Len(buffer) \in Nat
      /\ f \in Seq(Symbols(sent)) /\ Len(f) = Len(buffer) - First + 1
      /\ \A i \in 1 .. Len(buffer) - First + 1 : f[i] = buffer[First + i - 1]
      /\ \A i \in 1 .. First - 1 : \A id : ~WholeAt(Unread, i, id)
  BY <1>1, FirstSync, UnreadIs
<1>3. \A id : ~WholeAt(Unread, First, id)
  BY <1>1, ValidIsWhole
<1> HIDE DEF f
<1>4. f # <<>>
  BY <1>2, EmptySeq
<1>5. /\ b \in Seq(Symbols(sent)) /\ Len(b) = Len(f) - 1
      /\ \A i \in 1 .. Len(b) : b[i] = f[i + 1]
  BY <1>2, <1>4, HeadTailProperties
<1> HIDE DEF b
<1>6. ASSUME NEW i \in 1 .. Len(b) PROVE b[i] = buffer[i + First]
  <2>1. i + 1 \in 1 .. Len(buffer) - First + 1 /\ First + (i + 1) - 1 = i + First
    BY <1>2, <1>5
  <2>2. f[i + 1] = buffer[First + (i + 1) - 1]
    BY <1>2, <2>1
  <2> QED BY <1>5, <2>1, <2>2
<1>7. First \in 0 .. Len(buffer) /\ Len(b) = Len(buffer) - First
  BY <1>2, <1>5
<1>8. ASSUME NEW i \in 1 .. First, NEW id PROVE ~WholeAt(Unread, i, id)
  BY <1>2, <1>3
<1>9. buffer' = b /\ feeding' \in BOOLEAN
  BY <1>1 DEF b, f, StreamInv
<1> QED BY <1>1, <1>5, <1>6, <1>7, <1>8, <1>9, DropKeeps

(* The number the parser has seen last. *)
LEMMA LastSequenceIs == ASSUME StreamInv PROVE last_sequence \in 0 .. SeqRange
<1>1. CASE delivered = <<>>
  BY <1>1, StreamAssumption DEF StreamInv, CountInv
<1>2. CASE delivered # <<>>
  <2>1. delivered \in Seq(1 .. sent)
    BY DEF StreamInv, DeliveredInv
  <2>2. Len(delivered) \in 1 .. Len(delivered)
    BY <1>2, <2>1, EmptySeq
  <2>3. delivered[Len(delivered)] \in 1 .. sent
    BY <2>1, <2>2, ElementOfSeq
  <2>4. (delivered[Len(delivered)] - 1) % SeqRange \in 0 .. SeqRange - 1
    <3>1. delivered[Len(delivered)] - 1 \in Int
      BY <2>3
    <3> QED BY <3>1, Division, StreamAssumption
  <2> QED BY <1>2, <2>4, StreamAssumption DEF StreamInv, CountInv
<1> QED BY <1>1, <1>2

LEMMA DeliverKeeps == ASSUME StreamInv, D!Deliver PROVE StreamInv'
<1> DEFINE n == D!Candidate[4][2]
           f == D!FromSync
           b == SubSeq(f, 8, Len(f))
           t == b \o line
           m == First + 6
<1>1. /\ D!SyncAt # {} /\ Len(f) >= D!FrameSize /\ D!Valid
      /\ last_sequence' = n /\ dropped_frames' = dropped_frames + D!Missing(n)
      /\ delivered' = Append(delivered, D!Candidate[7][3])
      /\ buffer' = b /\ feeding' = feeding /\ line' = line
      /\ sequence' = sequence /\ drop_count' = drop_count /\ sent' = sent
      /\ intact' = intact /\ damage' = damage
  BY DEF D!Deliver, D!Consume, D!FrameSize, D!device
<1>2. PICK id \in 1 .. sent :
         WholeAt(Unread, First, id) /\ D!Candidate[7][3] = id /\ n = (id - 1) % SeqRange
  BY <1>1, ValidIsWhole
<1>3. /\ First \in 1 .. Len(buffer) - 1 /\ Len(buffer) \in Nat /\ sent \in Nat
      /\ f \in Seq(Symbols(sent)) /\ Len(f) = Len(buffer) - First + 1
      /\ \A i \in 1 .. Len(buffer) - First + 1 : f[i] = buffer[First + i - 1]
      /\ \A i \in 1 .. First - 1 : ~(buffer[i] = D!S1 /\ buffer[i + 1] = D!S2)
      /\ \A i \in 1 .. Len(buffer) : Unread[i] = buffer[i]
      /\ Len(Unread) = Len(buffer) + Len(line) /\ Len(line) \in Nat
  BY <1>1, FirstSync, UnreadIs
<1>4. Len(f) >= 7
  BY <1>1 DEF D!FrameSize
<1> HIDE DEF f, n
<1>5. /\ b \in Seq(Symbols(sent)) /\ Len(b) = Len(f) - 7
      /\ \A i \in 1 .. Len(f) - 7 : b[i] = f[i + 7]
  <2>1. \A i \in 8 .. Len(f) : f[i] \in Symbols(sent)
    BY <1>3, ElementOfSeq
  <2>2. Len(f) \in Int /\ 8 \in Int
    BY <1>3
  <2>3. /\ b \in Seq(Symbols(sent)) /\ Len(b) = IF 8 <= Len(f) THEN Len(f) - 8 + 1 ELSE 0
        /\ \A i \in 1 .. Len(f) - 8 + 1 : b[i] = f[8 + i - 1]
    BY <2>1, <2>2, SubSeqProperties
  <2> HIDE DEF b
  <2>4. ASSUME NEW i \in 1 .. Len(f) - 7 PROVE b[i] = f[i + 7]
    <3>1. i \in 1 .. Len(f) - 8 + 1 /\ 8 + i - 1 = i + 7
      BY <2>2
    <3> QED BY <2>3, <3>1
  <2>5. Len(b) = Len(f) - 7
    <3>1. Len(b) = IF 8 <= Len(f) THEN Len(f) - 8 + 1 ELSE 0
      BY <2>3
    <3>2. Len(f) \in Nat /\ Len(f) >= 7
      BY <1>3, <1>4, LenProperties
    <3>3. \A x \in Nat : x >= 7 => (IF 8 <= x THEN x - 8 + 1 ELSE 0) = x - 7
      OBVIOUS
    <3>4. (IF 8 <= Len(f) THEN Len(f) - 8 + 1 ELSE 0) = Len(f) - 7
      BY <3>2, <3>3, Zenon
    <3> QED BY <3>1, <3>4
  <2> QED BY <2>3, <2>4, <2>5, Zenon
<1> HIDE DEF b
<1>6. m \in 0 .. Len(buffer) /\ Len(b) = Len(buffer) - m
  BY <1>3, <1>4, <1>5
<1>7. ASSUME NEW i \in 1 .. Len(b) PROVE b[i] = buffer[i + m]
  <2>1. i + 7 \in 1 .. Len(buffer) - First + 1 /\ First + (i + 7) - 1 = i + m
    BY <1>3, <1>5
  <2>2. f[i + 7] = buffer[First + (i + 7) - 1]
    BY <1>3, <2>1
  <2> QED BY <1>3, <1>5, <1>6, <2>1, <2>2
<1> HIDE DEF m
<1>8. /\ t \in Seq(Symbols(sent)) /\ Len(t) = Len(Unread) - m
      /\ \A i \in 1 .. Len(t) : t[i] = Unread[i + m]
  BY <1>5, <1>6, <1>7, KeptIs
<1> HIDE DEF t
<1>9. delivered \in Seq(1 .. sent) /\ UnreadInv(Unread, sent, intact, delivered)
  BY DEF StreamInv, DeliveredInv
<1>10. delivered' = Append(delivered, id)
  BY <1>1, <1>2
<1>11. /\ UnreadInv(t, sent, intact, delivered')
       /\ \A j \in 1 .. Len(delivered) : delivered[j] < id
  <2>1. First \in 1 .. Len(Unread)
    BY <1>3
  <2>2. NoSyncBefore(Unread, First)
    <3>1. ASSUME NEW i \in 1 .. First - 1 PROVE ~(Unread[i] = D!S1 /\ Unread[i + 1] = D!S2)
      <4>1. Unread[i] = buffer[i] /\ Unread[i + 1] = buffer[i + 1]
        <5>1. i \in 1 .. Len(buffer) /\ i + 1 \in 1 .. Len(buffer)
          <6>1. First \in 1 .. Len(buffer) - 1 /\ Len(buffer) \in Nat
            BY <1>3
          <6> QED BY <6>1
        <5> QED BY <1>3, <5>1, Zenon
      <4> QED BY <1>3, <4>1
    <3> QED BY <3>1 DEF NoSyncBefore
  <2>3. t \in Seq(Symbols(sent)) /\ SuffixOf(t, Unread, First + 6)
    BY <1>8 DEF m, SuffixOf
  <2> QED BY <1>2, <1>3, <1>9, <1>10, <2>1, <2>2, <2>3, DeliveredKeeps
<1>12. Unread' = t
  BY <1>1 DEF Unread, t
<1>13. SenderInv'
  BY <1>1 DEF StreamInv, SenderInv
<1>14. /\ Len(delivered) \in Nat /\ Len(delivered') = Len(delivered) + 1
       /\ delivered' \in Seq(1 .. sent) /\ delivered'[Len(delivered) + 1] = id
       /\ \A j \in 1 .. Len(delivered) : delivered'[j] = delivered[j]
       /\ \A j \in 1 .. Len(delivered) : delivered[j] \in 1 .. sent
  <2>1. Len(delivered) \in Nat /\ \A j \in 1 .. Len(delivered) : delivered[j] \in 1 .. sent
    BY <1>9, LenProperties, ElementOfSeq
  <2> QED BY <1>9, <1>10, <2>1, AppendProperties
<1>15. DeliveredInv'
  <2>1. ASSUME NEW i \in 1 .. Len(delivered'), NEW j \in 1 .. Len(delivered'), i < j
        PROVE  delivered'[i] < delivered'[j]
    <3>1. i \in 1 .. Len(delivered)
      BY <1>14, <2>1
    <3>2. CASE j \in 1 .. Len(delivered)
      BY <1>14, <2>1, <3>1, <3>2 DEF StreamInv, DeliveredInv
    <3>3. CASE j = Len(delivered) + 1
      BY <1>11, <1>14, <3>1, <3>3
    <3> QED BY <1>14, <3>2, <3>3
  <2> QED BY <1>1, <1>14, <2>1 DEF DeliveredInv
<1>16. CountInv'
  <2> DEFINE c == Len(delivered)
             small == \A i \in 1 .. c - 1 :
                         delivered[i + 1] - delivered[i] - 1 < SeqRange - 1
             small2 == \A i \in 1 .. c : delivered'[i + 1] - delivered'[i] - 1 < SeqRange - 1
  <2>1. D!Missing(n) \in Nat /\ dropped_frames \in Nat
    <3>1. n \in 0 .. SeqRange - 1 /\ last_sequence \in 0 .. SeqRange
      BY <1>2, LastSequenceIs, Division, StreamAssumption
    <3>2. n + SeqRange - last_sequence - 1 \in Int
      BY <3>1, StreamAssumption
    <3>3. (n + SeqRange - last_sequence - 1) % SeqRange \in Nat
      BY <3>2, Division, StreamAssumption
    <3> QED BY <3>3 DEF D!Missing, StreamInv, CountInv
  <2>2. delivered' # <<>>
    BY <1>14, EmptySeq
  <2>3. last_sequence' = (delivered'[Len(delivered')] - 1) % SeqRange
    BY <1>1, <1>2, <1>14
  <2>4. ASSUME small2
        PROVE  dropped_frames' = delivered'[c + 1] - delivered'[1] + 1 - (c + 1)
    <3>1. CASE c = 0
      <4>1. last_sequence = SeqRange /\ dropped_frames = 0
        BY <1>9, <3>1, EmptySeq DEF StreamInv, CountInv
      <4>2. D!Missing(n) = 0
        BY <4>1 DEF D!Missing
      <4>3. delivered'[1] = id /\ delivered'[c + 1] = id
        BY <1>14, <3>1
      <4> QED BY <1>1, <3>1, <4>1, <4>2, <4>3
    <3>2. CASE c > 0
      <4> DEFINE old == delivered[c]
                 head == delivered[1]
      <4>1. /\ old \in 1 .. sent /\ head \in 1 .. sent /\ old < id /\ delivered # <<>>
            /\ delivered'[c + 1] = id /\ delivered'[c] = old /\ delivered'[1] = head
        BY <1>11, <1>14, <3>2, EmptySeq
      <4>2. small
        <5> SUFFICES ASSUME NEW i \in 1 .. c - 1
                     PROVE  delivered[i + 1] - delivered[i] - 1 < SeqRange - 1
          OBVIOUS
        <5>1. i \in 1 .. c /\ i + 1 \in 1 .. c
          BY <1>14
        <5>2. delivered'[i + 1] = delivered[i + 1] /\ delivered'[i] = delivered[i]
          BY <1>14, <5>1
        <5>3. delivered'[i + 1] - delivered'[i] - 1 < SeqRange - 1
          BY <2>4, <5>1
        <5> QED BY <5>2, <5>3
      <4>3. id - old - 1 < SeqRange - 1
        <5>1. c \in 1 .. c
          BY <1>14, <3>2
        <5>2. delivered'[c + 1] - delivered'[c] - 1 < SeqRange - 1
          BY <2>4, <5>1
        <5> QED BY <4>1, <5>2
      <4>4. /\ last_sequence = (old - 1) % SeqRange
            /\ dropped_frames = old - head + 1 - c
        BY <4>1, <4>2 DEF StreamInv, CountInv
      <4>5. D!Missing(n) = id - old - 1
        <5>1. id \in Nat \ {0} /\ old \in Nat \ {0} /\ id > old
          BY <4>1
        <5>2. /\ (id - 1) % SeqRange # (old - 1) % SeqRange
              /\ (((id - 1) % SeqRange) + SeqRange - ((old - 1) % SeqRange) - 1) % SeqRange
                    = id - old - 1
          BY <4>3, <5>1, GapIs, StreamAssumption
        <5>3. n # last_sequence /\ (n + SeqRange - last_sequence - 1) % SeqRange = id - old - 1
          BY <1>2, <4>4, <5>2
        <5>4. last_sequence # SeqRange
          <6>1. (old - 1) % SeqRange \in 0 .. SeqRange - 1
            <7>1. old - 1 \in Int
              BY <4>1
            <7> QED BY <7>1, Division, StreamAssumption
          <6> QED BY <4>4, <6>1, StreamAssumption
        <5> QED BY <5>3, <5>4 DEF D!Missing
      <4>6. dropped_frames' = (old - head + 1 - c) + (id - old - 1)
        BY <1>1, <4>4, <4>5
      <4> HIDE DEF old, head, small, small2
      <4>7. dropped_frames' = id - head + 1 - (c + 1)
        BY <1>14, <4>1, <4>6
      <4> QED BY <4>1, <4>7
    <3>3. c = 0 \/ c > 0
      BY <1>14
    <3> QED BY <3>1, <3>2, <3>3
  <2>5. dropped_frames' \in Nat
    BY <1>1, <2>1
  <2>6. Len(delivered') = c + 1 /\ Len(delivered') - 1 = c
    BY <1>14
  <2> QED BY <2>2, <2>3, <2>4, <2>5, <2>6 DEF CountInv
<1> QED BY <1>1, <1>5, <1>8, <1>11, <1>12, <1>13, <1>15, <1>16 DEF StreamInv

-----------------------------------------------------------------------------

LEMMA StreamInit == D!Init => StreamInv
<1> SUFFICES ASSUME D!Init PROVE StreamInv
  OBVIOUS
<1>1. /\ sequence = 0 /\ drop_count = 0 /\ sent = 0 /\ intact = {} /\ damage = 0
      /\ line = <<>> /\ buffer = <<>> /\ feeding = FALSE
      /\ last_sequence = SeqRange /\ dropped_frames = 0 /\ delivered = <<>>
  BY DEF D!Init
<1>2. <<>> \in Seq(Symbols(0)) /\ Len(<<>>) = 0 /\ <<>> \in Seq(1 .. 0)
  BY EmptySeq
<1>3. Unread = <<>>
  BY <1>1, <1>2, ConcatEmptySeq DEF Unread
<1>4. UnreadInv(Unread, sent, intact, delivered)
  BY <1>1, <1>2, <1>3 DEF UnreadInv, Ordered, Later, Reachable
<1>5. SenderInv
  <2>1. 0 = SeqRange * 0 + 0 /\ 0 \in 0 .. SeqRange - 1 /\ 0 \in Int
    BY StreamAssumption
  <2>2. 0 % SeqRange = 0
    BY <2>1, RemainderIs, StreamAssumption
  <2> QED BY <1>1, <2>2, StreamAssumption DEF SenderInv
<1>6. DeliveredInv /\ CountInv
  BY <1>1, <1>2 DEF DeliveredInv, CountInv
<1> QED BY <1>1, <1>2, <1>4, <1>5, <1>6 DEF StreamInv

LEMMA StreamNext == StreamInv /\ [MCNext]_allVars => StreamInv'
<1> SUFFICES ASSUME StreamInv, [MCNext]_allVars PROVE StreamInv'
  OBVIOUS
<1>1. CASE UNCHANGED streamVars
  BY <1>1 DEF streamVars, StreamInv, Unread, SenderInv, DeliveredInv, CountInv
<1>2. CASE D!Next
  <2>1. CASE D!SendFrame
    BY <2>1, SendKeeps
  <2>2. ASSUME NEW n \in Chunks, D!Feed(n) PROVE StreamInv'
    BY <2>2, FeedKeeps
  <2>3. CASE D!Loop
    BY <2>3, NoSyncKeeps, IncompleteKeeps, RejectKeeps, DeliverKeeps DEF D!Loop
  <2> QED BY <1>2, <2>1, <2>2, <2>3 DEF D!Next
<1> QED BY <1>1, <1>2 DEF MCNext, LinkStep, FrameStep, StreamStep, Rests, allVars

LEMMA StreamTypeOK == StreamInv => D!TypeOK
<1> SUFFICES ASSUME StreamInv PROVE D!TypeOK
  OBVIOUS
<1>1. SenderInv /\ DeliveredInv /\ CountInv /\ feeding \in BOOLEAN
  BY DEF StreamInv
<1>2. sent \in Nat /\ sent <= MaxFrames
  BY <1>1, StreamAssumption DEF SenderInv
<1>3. sequence \in 0 .. SeqRange - 1
  BY <1>1, <1>2, Division, StreamAssumption DEF SenderInv
<1>4. last_sequence \in 0 .. SeqRange
  BY LastSequenceIs
<1>5. 1 .. sent \subseteq 1 .. MaxFrames
  BY <1>2, StreamAssumption
<1>6. intact \subseteq 1 .. MaxFrames /\ delivered \in Seq(1 .. MaxFrames)
  BY <1>1, <1>5, SeqMonotonic DEF SenderInv, DeliveredInv
<1>7. drop_count \in 0 .. MaxDamage /\ damage \in 0 .. MaxDamage
  BY <1>1, StreamAssumption DEF SenderInv
<1> QED BY <1>1, <1>2, <1>3, <1>4, <1>6, <1>7 DEF D!TypeOK, SenderInv, CountInv

LEMMA IntactReachable == StreamInv => D!NoIntactFrameLost
<1> SUFFICES ASSUME StreamInv, NEW id \in intact
             PROVE  \/ id \in D!ToSet(delivered)
                    \/ \E i \in 1 .. Len(buffer \o line) - D!FrameSize + 1 :
                         LET f == SubSeq(buffer \o line, i, i + D!FrameSize - 1)
                         IN  f[7][1] = "check" /\ f = D!Frame(f[7][2][1], f[7][2][2], id)
  BY DEF D!NoIntactFrameLost
<1>1. /\ Unread \in Seq(Symbols(sent)) /\ Len(Unread) \in Nat /\ sent \in Nat
      /\ id \in Nat \ {0} /\ Reachable(Unread, intact, delivered)
      /\ delivered \in Seq(1 .. sent)
  BY UnreadIs, LenProperties DEF StreamInv, SenderInv, UnreadInv, DeliveredInv
<1>2. CASE \E j \in 1 .. Len(delivered) : delivered[j] = id
  <2>1. DOMAIN delivered = 1 .. Len(delivered)
    BY <1>1, LenProperties
  <2> QED BY <1>2, <2>1 DEF D!ToSet
<1>3. ASSUME NEW i \in 1 .. Len(Unread), WholeAt(Unread, i, id)
      PROVE  \E p \in 1 .. Len(Unread) - 7 + 1 :
               LET f == SubSeq(Unread, p, p + 7 - 1)
               IN  f[7][1] = "check" /\ f = D!Frame(f[7][2][1], f[7][2][2], id)
  <2> DEFINE f == SubSeq(Unread, i, i + 7 - 1)
             n == (id - 1) % SeqRange
             g == <<D!S1, D!S2, D!Header, SequenceSymbol(n), D!S1, D!S2, CheckOf(id)>>
  <2>1. i + 6 <= Len(Unread) /\ i \in 1 .. Len(Unread) - 7 + 1 /\ i + 7 - 1 = i + 6
    BY <1>1, <1>3 DEF WholeAt
  <2>2. /\ f \in Seq(Symbols(sent)) /\ Len(f) = 7
        /\ \A j \in 1 .. 7 : f[j] = Unread[i + j - 1]
    <3>1. \A j \in i .. i + 6 : Unread[j] \in Symbols(sent)
      BY <1>1, <2>1, ElementOfSeq
    <3>2. f = SubSeq(Unread, i, i + 6) /\ i \in Int /\ i + 6 \in Int /\ i <= i + 6
      BY <2>1
    <3>3. (i + 6) - i + 1 = 7
      OBVIOUS
    <3> HIDE DEF f
    <3> QED BY <3>1, <3>2, <3>3, SubSeqProperties
  <2> HIDE DEF f
  <2>3. /\ f[1] = D!S1 /\ f[2] = D!S2 /\ f[3] = D!Header /\ f[4] = SequenceSymbol(n)
        /\ f[5] = D!S1 /\ f[6] = D!S2 /\ f[7] = CheckOf(id)
    <3>1. /\ f[1] = Unread[i + 1 - 1] /\ f[2] = Unread[i + 2 - 1]
          /\ f[3] = Unread[i + 3 - 1] /\ f[4] = Unread[i + 4 - 1]
          /\ f[5] = Unread[i + 5 - 1] /\ f[6] = Unread[i + 6 - 1]
          /\ f[7] = Unread[i + 7 - 1]
      BY <2>2
    <3>2. /\ i + 1 - 1 = i /\ i + 2 - 1 = i + 1 /\ i + 3 - 1 = i + 2 /\ i + 4 - 1 = i + 3
          /\ i + 5 - 1 = i + 4 /\ i + 6 - 1 = i + 5 /\ i + 7 - 1 = i + 6
      OBVIOUS
    <3> QED BY <1>3, <3>1, <3>2 DEF WholeAt
  <2>4. D!Frame(n, D!Data, id) = g /\ g \in Seq(Symbols(id)) /\ Len(g) = 7
    BY <1>1, FrameIs
  <2>5. f = g
    <3>1. f \in Seq(Symbols(sent) \cup Symbols(id)) /\ g \in Seq(Symbols(sent) \cup Symbols(id))
      BY <2>2, <2>4, SeqMonotonic
    <3>2. \A j \in 1 .. 7 : f[j] = g[j]
      <4> HIDE DEF n
      <4> QED BY <2>3
    <3> HIDE DEF g
    <3> QED BY <2>2, <2>4, <3>1, <3>2, SeqEqual
  <2>6. f[7][1] = "check" /\ f[7][2] = <<n, D!Data>>
    BY <2>3, Tags
  <2>7. f[7][2][1] = n /\ f[7][2][2] = D!Data
    <3> HIDE DEF n
    <3> QED BY <2>6
  <2>8. f = D!Frame(f[7][2][1], f[7][2][2], id)
    BY <2>4, <2>5, <2>7
  <2> QED BY <2>1, <2>6, <2>8 DEF f
<1> QED BY <1>1, <1>2, <1>3 DEF Reachable, Unread, D!FrameSize

LEMMA DeliveredInOrder == StreamInv => D!OnceInOrder
<1> SUFFICES ASSUME StreamInv, NEW i \in 1 .. Len(delivered) - 1
             PROVE  delivered[i] < delivered[i + 1]
  BY DEF D!OnceInOrder
<1>1. Len(delivered) \in Nat
  BY LenProperties DEF StreamInv, DeliveredInv
<1>2. i \in 1 .. Len(delivered) /\ i + 1 \in 1 .. Len(delivered) /\ i < i + 1
  BY <1>1
<1> QED BY <1>2 DEF StreamInv, DeliveredInv

LEMMA MissingCounted == StreamInv => D!GapsCounted
<1> SUFFICES ASSUME StreamInv, Len(delivered) > 0,
                    \A i \in 1 .. Len(delivered) - 1 :
                       delivered[i + 1] - delivered[i] - 1 < SeqRange - 1
             PROVE  dropped_frames =
                      (D!Last(delivered) - Head(delivered) + 1) - Len(delivered)
  BY DEF D!GapsCounted
<1>1. delivered # <<>>
  BY EmptySeq
<1>2. Head(delivered) = delivered[1] /\ D!Last(delivered) = delivered[Len(delivered)]
  BY <1>1 DEF D!Last, StreamInv, DeliveredInv
<1>3. dropped_frames = delivered[Len(delivered)] - delivered[1] + 1 - Len(delivered)
  BY <1>1, Zenon DEF StreamInv, CountInv
<1>4. Len(delivered) \in Nat /\ delivered[1] \in Int /\ delivered[Len(delivered)] \in Int
  <2>1. delivered \in Seq(1 .. sent)
    BY DEF StreamInv, DeliveredInv
  <2>2. 1 \in 1 .. Len(delivered) /\ Len(delivered) \in 1 .. Len(delivered)
    BY <2>1, LenProperties
  <2>3. delivered[1] \in 1 .. sent /\ delivered[Len(delivered)] \in 1 .. sent
    BY <2>1, <2>2, ElementOfSeq
  <2> QED BY <2>1, <2>3, LenProperties
<1> DEFINE first == delivered[1]
           last == delivered[Len(delivered)]
           c == Len(delivered)
<1>5. first \in Int /\ last \in Int /\ c \in Int /\ dropped_frames = last - first + 1 - c
  BY <1>3, <1>4
<1> HIDE DEF first, last, c
<1>6. dropped_frames = (last - first + 1) - c
  BY <1>5
<1> QED BY <1>2, <1>6 DEF first, last, c

(* FrameParser.feed: a frame that came through whole is delivered or still    *)
(* lies whole ahead of the parser, none is delivered twice or after a later   *)
(* one, and the missing frames are counted over the wrap of the sequence     *)
(* number: for streams of every length, damage and reading.                  *)
THEOREM TelemetryStreamRecovers == MCSpec => []StreamRecovers
<1>1. MCInit => StreamInv
  BY StreamInit DEF MCInit
<1>2. StreamInv => StreamRecovers
  BY StreamTypeOK, IntactReachable, DeliveredInOrder, MissingCounted DEF StreamRecovers
<1> QED BY <1>1, <1>2, StreamNext, PTL DEF MCSpec

-----------------------------------------------------------------------------
(* The frames.  The layout comes first: which write a byte of a frame is from.*)

(* A byte that one write covers is from that write. *)
OnlyIn(writes, n, i, k) ==
  /\ DOMAIN writes = 1 .. n
  /\ F!Covers(writes[k], i)
  /\ \A j \in 1 .. n : F!Covers(writes[j], i) => j = k

Untouched(writes, n, i) ==
  /\ DOMAIN writes = 1 .. n
  /\ \A j \in 1 .. n : ~F!Covers(writes[j], i)

LEMMA ApplyAt ==
  ASSUME NEW n \in Nat, NEW writes, NEW f, NEW i \in DOMAIN f, NEW k \in 1 .. n,
         OnlyIn(writes, n, i, k)
  PROVE  F!Apply(f, writes)[i] = writes[k][2][i - writes[k][1] + 1]
<1> USE DEF OnlyIn
<1> DEFINE to == {j \in DOMAIN writes : F!Covers(writes[j], i)}
<1>1. to = {k}
  OBVIOUS
<1>2. F!Max(to) = k
  <2>1. F!Max(to) = CHOOSE x \in to : \A y \in to : x >= y
    BY DEF F!Max
  <2>2. \A x \in to : (\A y \in to : x >= y) <=> x = k
    BY <1>1
  <2> HIDE DEF to
  <2> QED BY <1>1, <2>1, <2>2
<1>3. to # {}
  BY <1>1
<1> QED BY <1>2, <1>3 DEF F!Apply

LEMMA ApplyElse ==
  ASSUME NEW n \in Nat, NEW writes, NEW f, NEW i \in DOMAIN f, Untouched(writes, n, i)
  PROVE  F!Apply(f, writes)[i] = f[i]
<1>1. {j \in DOMAIN writes : F!Covers(writes[j], i)} = {}
  BY DEF Untouched
<1> QED BY <1>1 DEF F!Apply

LEMMA ApplyDomain == \A f, writes : DOMAIN F!Apply(f, writes) = DOMAIN f
  BY DEF F!Apply

(* Where the writes of imu_telemetry_encode go, and their bytes. *)
TelemetryAt(k) ==
  IF k <= 4 THEN k - 1 ELSE IF k <= 6 THEN 2 * k - 6 ELSE 2 * k - 4

TelemetryLength(k) == IF k <= 4 THEN 1 ELSE IF k = 6 THEN 4 ELSE 2

TelemetryPuts(w, s) ==
  /\ DOMAIN w = 1 .. 20
  /\ \A k \in 1 .. 20 :
       w[k][1] = TelemetryAt(k) /\ DOMAIN w[k][2] = 1 .. TelemetryLength(k)
  /\ w[1] = F!PutByte(0, 165) /\ w[2] = F!PutByte(1, 90)
  /\ w[3] = F!PutByte(2, 2) /\ w[4] = F!PutByte(3, 34)
  /\ w[5] = F!PutU16(4, s.sequence) /\ w[6] = F!PutU32(6, s.timestamp)
  /\ w[7] = F!PutU16(10, s.status % 512)
  /\ \A i \in 1 .. 3 :
       /\ w[7 + i] = F!PutI16(10 + 2 * i, F!WrapDeg(s.euler[i]), 100)
       /\ w[10 + i] = F!PutI16(16 + 2 * i, s.gyro[i], 10)
       /\ w[13 + i] = F!PutI16(22 + 2 * i, s.accel[i], 1000)
  /\ \A i \in 1 .. 4 : w[16 + i] = F!PutI16(28 + 2 * i, s.quaternion[i], 32767)

LEMMA TelemetryLayout == \A s : TelemetryPuts(F!TelemetryWrites(s), s)
<1> TAKE s
<1> DEFINE w == F!TelemetryWrites(s)
<1>1. DOMAIN w = 1 .. 20
  BY DEF F!TelemetryWrites
<1>2. \A k \in 1 .. 20 : w[k][1] = TelemetryAt(k)
  BY DEF F!TelemetryWrites, F!PutByte, F!PutU16, F!PutU32, F!PutI16, TelemetryAt
<1>3. \A k \in 1 .. 20 : DOMAIN w[k][2] = 1 .. TelemetryLength(k)
  <2>1. \A k \in 1 .. 20 :
     DOMAIN w[k][2] = IF k <= 4 THEN 1 .. 1 ELSE IF k = 6 THEN 1 .. 4 ELSE 1 .. 2
    BY DEF F!TelemetryWrites, F!PutByte, F!PutU16, F!PutU32, F!PutI16
  <2> HIDE DEF w
  <2> QED BY <2>1 DEF TelemetryLength
<1>4. /\ w[1] = F!PutByte(0, 165) /\ w[2] = F!PutByte(1, 90)
      /\ w[3] = F!PutByte(2, 2) /\ w[4] = F!PutByte(3, 34)
      /\ w[5] = F!PutU16(4, s.sequence) /\ w[6] = F!PutU32(6, s.timestamp)
      /\ w[7] = F!PutU16(10, s.status % 512)
  BY DEF F!TelemetryWrites
<1>5. \A i \in 1 .. 3 :
        /\ w[7 + i] = F!PutI16(10 + 2 * i, F!WrapDeg(s.euler[i]), 100)
        /\ w[10 + i] = F!PutI16(16 + 2 * i, s.gyro[i], 10)
        /\ w[13 + i] = F!PutI16(22 + 2 * i, s.accel[i], 1000)
  BY DEF F!TelemetryWrites
<1>6. \A i \in 1 .. 4 : w[16 + i] = F!PutI16(28 + 2 * i, s.quaternion[i], 32767)
  BY DEF F!TelemetryWrites
<1> HIDE DEF w
<1>7. TelemetryPuts(w, s)
  BY <1>1, <1>2, <1>3, <1>4, <1>5, <1>6 DEF TelemetryPuts
<1> QED BY <1>7 DEF w

-----------------------------------------------------------------------------
LEMMA QuotientIs ==
  ASSUME NEW M \in Nat \ {0}, NEW q \in Int, NEW r \in 0 .. M - 1, NEW x \in Int,
         x = M * q + r
  PROVE  x \div M = q
<1> DEFINE d == x \div M
<1>1. x % M = r
  BY RemainderIs
<1>2. x = M * d + r /\ d \in Int
  BY <1>1, Division
<1> HIDE DEF d
<1>3. M * q = M * d /\ M * (q - d) = M * q - M * d
  BY <1>2
<1>4. ~(q - d >= 1)
  <2> SUFFICES ASSUME q - d >= 1 PROVE M * (q - d) >= M
    BY <1>3
  <2> QED BY <1>2
<1>5. ~(q - d <= -1)
  <2> SUFFICES ASSUME q - d <= -1 PROVE M * (q - d) <= -M
    BY <1>3
  <2> QED BY <1>2
<1> QED BY <1>2, <1>4, <1>5 DEF d

LEMMA FunctionIsSeq ==
  ASSUME NEW S, NEW n \in Nat, NEW f \in [1 .. n -> S]
  PROVE  f \in Seq(S) /\ Len(f) = n
  OBVIOUS

(* The CRC stays in its 16 bits.  The recursive functions it is computed by   *)
(* iterate a step, and there is a function that does.                       *)
Iterates(g, n, x, step) ==
  /\ DOMAIN g = 0 .. n /\ g = [i \in 0 .. n |-> g[i]]
  /\ g[0] = x /\ \A i \in 1 .. n : g[i] = step[i][g[i - 1]]

LEMMA IterationExists ==
  ASSUME NEW n \in Nat, NEW C, NEW x \in C, NEW step \in [1 .. n -> [C -> C]]
  PROVE  \E g \in [0 .. n -> C] : Iterates(g, n, x, step)
<1> DEFINE Fits(m) == \E g \in [0 .. m -> C] : Iterates(g, m, x, step)
           Misfits == {m \in 0 .. n : ~Fits(m)}
<1>1. Fits(0)
  <2> DEFINE g == [i \in 0 .. 0 |-> x]
  <2>1. g \in [0 .. 0 -> C] /\ Iterates(g, 0, x, step)
    BY DEF Iterates
  <2> QED BY <2>1
<1>2. ASSUME NEW m \in 1 .. n, Fits(m - 1) PROVE Fits(m)
  <2>1. PICK g \in [0 .. m - 1 -> C] : Iterates(g, m - 1, x, step)
    BY <1>2
  <2> DEFINE h == [i \in 0 .. m |-> IF i = m THEN step[m][g[m - 1]] ELSE g[i]]
  <2>2. h \in [0 .. m -> C]
    <3>1. step[m] \in [C -> C] /\ g[m - 1] \in C
      OBVIOUS
    <3>2. \A i \in 0 .. m : i # m => g[i] \in C
      OBVIOUS
    <3> QED BY <3>1, <3>2
  <2>3. h[0] = x
    BY <2>1 DEF Iterates
  <2>4. \A i \in 1 .. m : h[i] = step[i][h[i - 1]]
    <3> TAKE i \in 1 .. m
    <3>1. h[i - 1] = g[i - 1]
      OBVIOUS
    <3>2. CASE i = m
      BY <3>1, <3>2
    <3>3. CASE i # m
      <4>1. i \in 1 .. m - 1 /\ h[i] = g[i]
        BY <3>3
      <4> QED BY <2>1, <3>1, <4>1 DEF Iterates
    <3> QED BY <3>2, <3>3
  <2>5. Iterates(h, m, x, step)
    BY <2>3, <2>4 DEF Iterates
  <2> QED BY <2>2, <2>5
<1> HIDE DEF Fits
<1>3. Misfits = {}
  <2> SUFFICES ASSUME Misfits # {} PROVE FALSE
    OBVIOUS
  <2>1. Misfits \subseteq Nat
    OBVIOUS
  <2>2. PICK m \in Misfits : \A k \in Misfits : m <= k
    <3> HIDE DEF Misfits
    <3> QED BY <2>1, Least
  <2>3. m \in 1 .. n
    BY <1>1
  <2>4. m - 1 \notin Misfits
    BY <2>2, <2>3
  <2> QED BY <1>2, <2>3, <2>4
<1>4. Fits(n)
  BY <1>3
<1> QED BY <1>4 DEF Fits

(* Words and bytes.  The proofs speak of their sizes and never of the numbers. *)
Half  == 2^15
Whole == 2^16
Words == 0 .. Whole - 1
Bytes == 0 .. 255

LEMMA SizesAre ==
  /\ Half \in Nat /\ Half > 255 /\ Whole = 2 * Half /\ Whole \in Nat
  /\ F!Weight[16] = Half /\ F!CrcInit = Whole - 1 /\ 4129 \in Nat
<1>1. Half = 32768
  BY SMT DEF Half
<1>2. Whole = 65536
  BY SMT DEF Whole
<1>3. F!Weight[16] = 32768
  BY SMT DEF F!Weight
<1> QED BY <1>1, <1>2, <1>3, SMT DEF F!CrcInit

LEMMA CrcInitIs == F!CrcInit \in Words
  BY SizesAre, SMT DEF Words

LEMMA WeightIs ==
  /\ F!Weight[1] = 1 /\ F!Weight[8] = 128
  /\ \A i \in 1 .. 16 : F!Weight[i] \in Nat \ {0} /\ (i > 8 => F!Weight[i] > 255)
  /\ \A i \in 1 .. 15 : F!Weight[i + 1] = 2 * F!Weight[i]
  BY DEF F!Weight

LEMMA BitIs == \A a \in Nat, i \in 1 .. 16 : F!Bit(a, i) \in 0 .. 1
  BY WeightIs DEF F!Bit

(* The bits of a byte, and of a byte that is shifted to the upper half. *)
LEMMA HighBits == \A x \in Bytes, i \in 9 .. 16 : F!Bit(x, i) = 0
<1> TAKE x \in Bytes, i \in 9 .. 16
<1> DEFINE w == F!Weight[i]
<1>1. w \in Nat /\ w > 255
  BY WeightIs
<1> HIDE DEF w
<1>2. \A y \in Bytes : y \div w = 0
  BY <1>1, SMT DEF Bytes
<1> QED BY <1>2 DEF F!Bit, w

LEMMA LowBits == \A x \in Bytes, i \in 1 .. 8 : F!Bit(256 * x, i) = 0
<1> TAKE x \in Bytes, i \in 1 .. 8
<1>1. x \in Nat
  BY SMT DEF Bytes
<1>2. /\ F!Weight[1] = 1 /\ F!Weight[2] = 2 /\ F!Weight[3] = 4 /\ F!Weight[4] = 8
      /\ F!Weight[5] = 16 /\ F!Weight[6] = 32 /\ F!Weight[7] = 64 /\ F!Weight[8] = 128
  BY DEF F!Weight
<1>3. ASSUME NEW w \in Nat \ {0}, NEW m \in Nat, 256 = w * (2 * m) PROVE ((256 * x) \div w) % 2 = 0
  <2>1. 256 * x = w * (2 * (m * x)) + 0 /\ m * x \in Nat
    BY <1>1, <1>3
  <2>2. (256 * x) \div w = 2 * (m * x)
    BY <1>1, <2>1, QuotientIs
  <2> QED BY <2>1, <2>2
<1>4. CASE i = 1
  <2>1. 256 = 1 * (2 * 128) /\ 1 \in Nat \ {0} /\ 128 \in Nat
    OBVIOUS
  <2> QED BY <1>2, <1>3, <1>4, <2>1 DEF F!Bit
<1>5. CASE i = 2
  <2>1. 256 = 2 * (2 * 64) /\ 2 \in Nat \ {0} /\ 64 \in Nat
    OBVIOUS
  <2> QED BY <1>2, <1>3, <1>5, <2>1 DEF F!Bit
<1>6. CASE i = 3
  <2>1. 256 = 4 * (2 * 32) /\ 4 \in Nat \ {0} /\ 32 \in Nat
    OBVIOUS
  <2> QED BY <1>2, <1>3, <1>6, <2>1 DEF F!Bit
<1>7. CASE i = 4
  <2>1. 256 = 8 * (2 * 16) /\ 8 \in Nat \ {0} /\ 16 \in Nat
    OBVIOUS
  <2> QED BY <1>2, <1>3, <1>7, <2>1 DEF F!Bit
<1>8. CASE i = 5
  <2>1. 256 = 16 * (2 * 8) /\ 16 \in Nat \ {0} /\ 8 \in Nat
    OBVIOUS
  <2> QED BY <1>2, <1>3, <1>8, <2>1 DEF F!Bit
<1>9. CASE i = 6
  <2>1. 256 = 32 * (2 * 4) /\ 32 \in Nat \ {0} /\ 4 \in Nat
    OBVIOUS
  <2> QED BY <1>2, <1>3, <1>9, <2>1 DEF F!Bit
<1>10. CASE i = 7
  <2>1. 256 = 64 * (2 * 2) /\ 64 \in Nat \ {0} /\ 2 \in Nat
    OBVIOUS
  <2> QED BY <1>2, <1>3, <1>10, <2>1 DEF F!Bit
<1>11. CASE i = 8
  <2>1. 256 = 128 * (2 * 1) /\ 128 \in Nat \ {0} /\ 1 \in Nat
    OBVIOUS
  <2> QED BY <1>2, <1>3, <1>11, <2>1 DEF F!Bit
<1> QED BY <1>4, <1>5, <1>6, <1>7, <1>8, <1>9, <1>10, <1>11

(* The exclusive or is summed bit by bit; what is summed stays below the next *)
(* weight.                                                                  *)
XorOf(h, a, b) ==
  /\ h[0] = 0 /\ F!Xor(a, b) = h[16]
  /\ \A i \in 1 .. 16 : h[i] = h[i - 1] + (IF F!Bit(a, i) = F!Bit(b, i) THEN 0 ELSE F!Weight[i])
  /\ \A i \in 1 .. 16 : h[i] \in 0 .. 2 * F!Weight[i] - 1

LEMMA XorSum == \A a, b \in Nat : \E h : XorOf(h, a, b)
<1> TAKE a, b \in Nat
<1> DEFINE d(i) == IF F!Bit(a, i) = F!Bit(b, i) THEN 0 ELSE F!Weight[i]
           step == [i \in 1 .. 16 |-> [c \in Nat |-> c + d(i)]]
<1>1. \A i \in 1 .. 16 : d(i) \in {0, F!Weight[i]}
  OBVIOUS
<1> HIDE DEF d
<1>2. \A i \in 1 .. 16 : d(i) \in Nat
  BY <1>1, WeightIs
<1>3. step \in [1 .. 16 -> [Nat -> Nat]]
  BY <1>2
<1>4. PICK g \in [0 .. 16 -> Nat] : Iterates(g, 16, 0, step)
  BY <1>3, IterationExists
<1>5. g[0] = 0 /\ \A i \in 1 .. 16 : g[i] = g[i - 1] + d(i)
  BY <1>4 DEF Iterates
<1>6. PICK h : /\ h = [i \in 0 .. 16 |-> IF i = 0 THEN 0 ELSE h[i - 1] + d(i)]
               /\ F!Xor(a, b) = h[16]
  <2>1. g = [i \in 0 .. 16 |-> IF i = 0 THEN 0 ELSE g[i - 1] + d(i)]
    BY <1>5
  <2> HIDE DEF step
  <2> QED BY <2>1, Zenon DEF F!Xor, d
<1>7. h[0] = 0 /\ \A i \in 1 .. 16 : h[i] = h[i - 1] + d(i)
  BY <1>6
<1> DEFINE Within(i) == h[i] \in 0 .. 2 * F!Weight[i] - 1
<1>8. Within(1)
  BY <1>1, <1>7, WeightIs
<1>9. \A i \in 2 .. 16 : Within(i - 1) => Within(i)
  <2> TAKE i \in 2 .. 16
  <2>1. i - 1 \in 1 .. 15 /\ (i - 1) + 1 = i
    OBVIOUS
  <2>2. F!Weight[i] = 2 * F!Weight[i - 1] /\ F!Weight[i - 1] \in Nat
    BY <2>1, WeightIs
  <2>3. d(i) \in {0, F!Weight[i]} /\ h[i] = h[i - 1] + d(i)
    BY <1>1, <1>7
  <2> QED BY <2>2, <2>3
<1> HIDE DEF Within
<1>10. \A i \in 1 .. 16 : Within(i)
  BY <1>8, <1>9
<1>11. XorOf(h, a, b)
  BY <1>6, <1>7, <1>10, Zenon DEF XorOf, Within, d
<1> QED BY <1>11

LEMMA XorIs ==
  ASSUME NEW a \in Nat, NEW b \in Nat
  PROVE  /\ F!Xor(a, b) \in Words
         /\ a \in Bytes /\ b \in Bytes => F!Xor(a, b) \in Bytes
<1>1. PICK h : XorOf(h, a, b)
  BY XorSum
<1>2. h[16] \in Words /\ h[8] \in Bytes /\ F!Xor(a, b) = h[16]
  <2>1. h[16] \in 0 .. 2 * F!Weight[16] - 1 /\ h[8] \in 0 .. 2 * F!Weight[8] - 1
    BY <1>1 DEF XorOf
  <2> QED BY <1>1, <2>1, WeightIs, SizesAre, SMT DEF Words, Bytes, XorOf
<1>3. ASSUME a \in Bytes, b \in Bytes, NEW i \in 9 .. 16 PROVE F!Bit(a, i) = F!Bit(b, i)
  BY <1>3, HighBits
<1>4. ASSUME a \in Bytes, b \in Bytes PROVE h[16] = h[8]
  <2>1. \A i \in 9 .. 16 : h[i] = h[i - 1] + 0
    BY <1>1, <1>3, <1>4 DEF XorOf
  <2>2. h[8] \in Int
    BY <1>2, SMT DEF Bytes
  <2> QED BY <2>1, <2>2, SMT
<1> QED BY <1>2, <1>4

(* A word is its bits. *)
LEMMA NextBit ==
  ASSUME NEW w \in Nat \ {0}, NEW x \in Nat
  PROVE  x % (2 * w) = (x % w) + w * ((x \div w) % 2)
<1> DEFINE q == x \div w
           r == x % w
           p == q \div 2
           e == q % 2
<1>1. x = w * q + r /\ q \in Int /\ r \in 0 .. w - 1
  BY Division
<1> HIDE DEF q, r
<1>2. q = 2 * p + e /\ p \in Int /\ e \in 0 .. 1
  BY <1>1
<1> HIDE DEF p, e
<1>3. w * q = (2 * w) * p + w * e
  BY <1>1, <1>2
<1>4. w * e + r \in 0 .. 2 * w - 1
  <2>1. w * 0 = 0 /\ w * 1 = w
    OBVIOUS
  <2>2. e = 0 \/ e = 1
    BY <1>2
  <2> QED BY <1>1, <2>1, <2>2
<1>5. x = (2 * w) * p + (w * e + r) /\ 2 * w \in Nat \ {0}
  <2>1. (2 * w) * p \in Int /\ w * e \in Int
    BY <1>2
  <2> QED BY <1>1, <1>3, <2>1
<1>6. x % (2 * w) = w * e + r
  <2> DEFINE M == 2 * w
             rest == w * e + r
  <2>1. rest \in 0 .. M - 1 /\ x = M * p + rest /\ M \in Nat \ {0}
    BY <1>4, <1>5
  <2> HIDE DEF M, rest
  <2>2. x % M = rest
    BY <1>2, <2>1, RemainderIs
  <2> QED BY <2>2 DEF M, rest
<1>7. w * e \in Int
  BY <1>2
<1> QED BY <1>1, <1>6, <1>7 DEF r, e, q

LEMMA SameBits ==
  ASSUME NEW a \in Words, NEW b \in Words,
         \A i \in 1 .. 16 : F!Bit(a, i) = F!Bit(b, i)
  PROVE  a = b
<1>1. a \in Nat /\ b \in Nat /\ a < Whole /\ b < Whole
  BY SizesAre, SMT DEF Words
<1> DEFINE Same(i) == a % (2 * F!Weight[i]) = b % (2 * F!Weight[i])
<1>2. \A i \in 1 .. 16 : a % F!Weight[i] = b % F!Weight[i] => Same(i)
  <2> TAKE i \in 1 .. 16
  <2> DEFINE w == F!Weight[i]
  <2>1. w \in Nat \ {0}
    BY WeightIs
  <2>2. (a \div w) % 2 = (b \div w) % 2
    BY DEF F!Bit
  <2> HIDE DEF w
  <2>3. a % (2 * w) = (a % w) + w * ((a \div w) % 2) /\ b % (2 * w) = (b % w) + w * ((b \div w) % 2)
    BY <1>1, <2>1, NextBit
  <2>4. a % w = b % w => a % (2 * w) = b % (2 * w)
    BY <2>2, <2>3, Zenon
  <2> QED BY <2>4 DEF w
<1>3. a % F!Weight[1] = b % F!Weight[1]
  BY <1>1, WeightIs
<1>4. \A i \in 2 .. 16 : Same(i - 1) => a % F!Weight[i] = b % F!Weight[i]
  <2> TAKE i \in 2 .. 16
  <2>1. i - 1 \in 1 .. 15 /\ (i - 1) + 1 = i
    OBVIOUS
  <2>2. F!Weight[i] = 2 * F!Weight[i - 1]
    BY <2>1, WeightIs
  <2> QED BY <2>2
<1> HIDE DEF Same
<1>5. Same(16)
  <2>1. \A i \in 2 .. 16 : Same(i - 1) => Same(i)
    BY <1>2, <1>4
  <2> QED BY <1>2, <1>3, <2>1
<1>6. a % Whole = b % Whole
  BY <1>5, SizesAre DEF Same
<1>7. a % Whole = a /\ b % Whole = b
  BY <1>1, SizesAre, SMT
<1> QED BY <1>6, <1>7

LEMMA XorBits ==
  ASSUME NEW a \in Nat, NEW b \in Nat, NEW i \in 1 .. 16
  PROVE  F!Bit(F!Xor(a, b), i) = IF F!Bit(a, i) = F!Bit(b, i) THEN 0 ELSE 1
<1>1. PICK h : XorOf(h, a, b)
  BY XorSum
<1> DEFINE e(j) == IF F!Bit(a, j) = F!Bit(b, j) THEN 0 ELSE 1
<1>2. \A j \in 1 .. 16 : e(j) \in 0 .. 1
  OBVIOUS
<1>3. \A j \in 1 .. 16 : h[j] = h[j - 1] + F!Weight[j] * e(j)
  <2> TAKE j \in 1 .. 16
  <2> DEFINE w == F!Weight[j]
  <2>1. w \in Nat /\ w * 0 = 0 /\ w * 1 = w
    BY WeightIs
  <2>2. h[j] = h[j - 1] + (IF F!Bit(a, j) = F!Bit(b, j) THEN 0 ELSE w)
    BY <1>1 DEF XorOf
  <2> HIDE DEF w
  <2>3. w * e(j) = IF F!Bit(a, j) = F!Bit(b, j) THEN 0 ELSE w
    BY <2>1
  <2> HIDE DEF e
  <2>4. h[j] = h[j - 1] + w * e(j)
    BY <2>2, <2>3, Zenon
  <2> QED BY <2>4 DEF w
<1> HIDE DEF e
<1>4. \A j \in 1 .. 16 : h[j] \in Nat /\ h[j] < 2 * F!Weight[j]
  <2> TAKE j \in 1 .. 16
  <2> DEFINE v == 2 * F!Weight[j]
  <2>0. h[j] \in 0 .. v - 1
    BY <1>1, Zenon DEF XorOf
  <2>1. h[j] \in 0 .. v - 1 /\ v \in Nat
    BY <2>0, WeightIs
  <2> HIDE DEF v
  <2>2. h[j] \in Nat /\ h[j] < v
    BY <2>1
  <2> QED BY <2>2 DEF v
<1> DEFINE Above(j) == \E m \in Nat : h[16] = h[j] + 2 * (F!Weight[j] * m)
<1>5. Above(16)
  <2>1. h[16] = h[16] + 2 * (F!Weight[16] * 0)
    BY <1>4, WeightIs
  <2> QED BY <2>1
<1>6. \A j \in 2 .. 16 : Above(j) => Above(j - 1)
  <2> SUFFICES ASSUME NEW j \in 2 .. 16, Above(j) PROVE Above(j - 1)
    OBVIOUS
  <2> DEFINE w == F!Weight[j - 1]
             v == F!Weight[j]
             x == e(j)
  <2>1. PICK m \in Nat : h[16] = h[j] + 2 * (v * m)
    OBVIOUS
  <2>2. v = 2 * w /\ w \in Nat /\ x \in 0 .. 1
    <3>1. j - 1 \in 1 .. 15 /\ (j - 1) + 1 = j
      OBVIOUS
    <3> QED BY <1>2, <3>1, WeightIs
  <2>3. h[j] = h[j - 1] + v * x /\ h[j - 1] \in Nat /\ h[j] \in Nat
    BY <1>3, <1>4
  <2> HIDE DEF v, w, x
  <2>4. v * x = 2 * (w * x) /\ 2 * (v * m) = 2 * (w * (2 * m))
    BY <2>2
  <2>5. 2 * (w * (x + 2 * m)) = 2 * (w * x) + 2 * (w * (2 * m))
    BY <2>2
  <2>6. w * x \in Int /\ w * (2 * m) \in Int /\ w * (x + 2 * m) \in Int /\ x + 2 * m \in Nat
    BY <2>2
  <2>7. h[16] = h[j - 1] + 2 * (w * (x + 2 * m))
    BY <2>1, <2>3, <2>4, <2>5, <2>6
  <2> QED BY <2>6, <2>7 DEF w
<1> HIDE DEF Above
<1>7. Above(i)
  <2> DEFINE Misses == {k \in 0 .. 15 : ~Above(16 - k)}
  <2>1. Misses = {}
    <3> SUFFICES ASSUME Misses # {} PROVE FALSE
      OBVIOUS
    <3>1. PICK k \in Misses : \A l \in Misses : k <= l
      <4>1. Misses \subseteq Nat
        OBVIOUS
      <4> HIDE DEF Misses
      <4> QED BY <4>1, Least
    <3>2. k # 0
      BY <1>5
    <3>3. k - 1 \in 0 .. 15 /\ 16 - (k - 1) \in 2 .. 16 /\ 16 - (k - 1) - 1 = 16 - k
      BY <3>2
    <3>4. Above(16 - (k - 1))
      BY <3>1, <3>3
    <3> QED BY <1>6, <3>3, <3>4
  <2>2. 16 - i \in 0 .. 15 /\ 16 - (16 - i) = i
    OBVIOUS
  <2> QED BY <2>1, <2>2
<1> DEFINE w == F!Weight[i]
           x == e(i)
           r == h[i - 1]
<1>8. PICK m \in Nat : h[16] = h[i] + 2 * (w * m)
  BY <1>7 DEF Above
<1>9. w \in Nat \ {0} /\ x \in 0 .. 1 /\ h[i] = r + w * x
  BY <1>2, <1>3, WeightIs
<1>10. r \in 0 .. w - 1
  <2>1. CASE i = 1
    BY <1>1, <2>1, WeightIs DEF XorOf
  <2>2. CASE i # 1
    <3>1. i - 1 \in 1 .. 15 /\ (i - 1) + 1 = i /\ i - 1 \in 1 .. 16
      BY <2>2
    <3>2. w = 2 * F!Weight[i - 1]
      BY <3>1, WeightIs
    <3>3. r \in Nat /\ r < 2 * F!Weight[i - 1]
      BY <1>4, <3>1
    <3> HIDE DEF w, r
    <3> QED BY <1>9, <3>2, <3>3
  <2> QED BY <2>1, <2>2
<1>11. h[16] = F!Xor(a, b)
  BY <1>1 DEF XorOf
<1> HIDE DEF w, x, r
<1> DEFINE y == h[16]
<1>12. y = w * (x + 2 * m) + r
  <2>1. w * (x + 2 * m) = w * x + 2 * (w * m) /\ w * x \in Int /\ w * m \in Int
    BY <1>9
  <2> QED BY <1>8, <1>9, <1>10, <2>1
<1>13. y \in Int /\ x + 2 * m \in Int
  <2>1. w * (x + 2 * m) \in Int /\ x + 2 * m \in Int
    BY <1>9
  <2> QED BY <1>10, <1>12, <2>1
<1> HIDE DEF y
<1>14. y \div w = x + 2 * m
  BY <1>9, <1>10, <1>12, <1>13, QuotientIs
<1>15. (y \div w) % 2 = x
  BY <1>9, <1>14
<1> QED BY <1>11, <1>15 DEF F!Bit, w, x, y, e

LEMMA WeightProducts == \A i \in 1 .. 16 : Whole = 2 * (F!Weight[i] * F!Weight[17 - i])
<1>1. Whole = 65536
  BY SMT DEF Whole
<1> QED BY <1>1, SMT DEF F!Weight

LEMMA DoubleBits ==
  ASSUME NEW c \in Words
  PROVE  LET e == (2 * c) % Whole IN
         /\ e \in Words /\ F!Bit(e, 1) = 0
         /\ \A i \in 2 .. 16 : F!Bit(e, i) = F!Bit(c, i - 1)
         /\ c >= Half <=> F!Bit(c, 16) = 1
         /\ c < Half => 2 * c = e
<1> DEFINE e == (2 * c) % Whole
           t == (2 * c) \div Whole
<1>1. c \in Nat /\ c < Whole /\ Whole \in Nat \ {0}
  BY SizesAre, SMT DEF Words
<1>2. 2 * c = Whole * t + e /\ t \in Int /\ e \in 0 .. Whole - 1
  <2> DEFINE x == 2 * c
  <2>1. x \in Int
    BY <1>1
  <2> HIDE DEF x
  <2>2. x = Whole * (x \div Whole) + (x % Whole) /\ x \div Whole \in Int /\ x % Whole \in 0 .. Whole - 1
    BY <1>1, <2>1, Division
  <2> QED BY <2>2 DEF x
<1> HIDE DEF e, t
<1>3. F!Bit(e, 1) = 0
  <2>1. e = 2 * (c - Half * t) /\ c - Half * t \in Int
    <3>1. Whole * t = 2 * (Half * t) /\ Half * t \in Int
      BY <1>2, SizesAre
    <3> QED BY <1>1, <1>2, <3>1
  <2>2. e % 2 = 0
    BY <2>1
  <2>3. e \div 1 = e
    BY <1>2
  <2> QED BY <2>2, <2>3, WeightIs DEF F!Bit
<1>4. ASSUME NEW i \in 2 .. 16 PROVE F!Bit(e, i) = F!Bit(c, i - 1)
  <2> DEFINE v == F!Weight[i]
             w == F!Weight[i - 1]
             m == F!Weight[17 - i]
             q == c \div w
             r == c % w
  <2>1. v = 2 * w /\ w \in Nat \ {0} /\ m \in Nat
    <3>1. i - 1 \in 1 .. 15 /\ (i - 1) + 1 = i /\ 17 - i \in 1 .. 16
      OBVIOUS
    <3> QED BY <3>1, WeightIs
  <2>2. Whole = 2 * (v * m)
    BY WeightProducts
  <2> HIDE DEF v, w, m
  <2>3. c = w * q + r /\ q \in Int /\ r \in 0 .. w - 1
    BY <1>1, <2>1, Division
  <2> HIDE DEF q, r
  <2>4. e = v * (q - 2 * (m * t)) + 2 * r
    <3>1. Whole * t = v * (2 * (m * t)) /\ v * q = 2 * (w * q)
      BY <1>2, <2>1, <2>2, <2>3
    <3>2. v * (q - 2 * (m * t)) = v * q - v * (2 * (m * t))
      BY <1>2, <2>1, <2>3
    <3>3. w * q \in Int /\ v * (2 * (m * t)) \in Int
      BY <1>2, <2>1, <2>3
    <3> DEFINE A == w * q
               B == v * (2 * (m * t))
               C == v * (q - 2 * (m * t))
    <3>4. C = 2 * A - B /\ 2 * c = B + e /\ c = A + r /\ A \in Int /\ B \in Int
      BY <1>2, <2>3, <3>1, <3>2, <3>3
    <3> HIDE DEF A, B, C
    <3>5. e = C + 2 * r
      BY <1>1, <1>2, <2>3, <3>4
    <3> QED BY <3>5 DEF C
  <2>5. 2 * r \in 0 .. v - 1 /\ v \in Nat \ {0} /\ m * t \in Int /\ q - 2 * (m * t) \in Int
    BY <1>2, <2>1, <2>3
  <2>6. e \div v = q - 2 * (m * t)
    <3> e \in Int
      BY <1>2
    <3> QED BY <2>4, <2>5, QuotientIs
  <2>7. (e \div v) % 2 = q % 2
    BY <2>3, <2>5, <2>6
  <2> QED BY <2>7 DEF F!Bit, v, w, q
<1>5. c >= Half <=> F!Bit(c, 16) = 1
  <2>1. F!Bit(c, 16) = (c \div Half) % 2
    BY SizesAre DEF F!Bit
  <2>2. c >= Half => c \div Half = 1
    BY <1>1, SizesAre, SMT
  <2>3. ~(c >= Half) => c \div Half = 0
    BY <1>1, SizesAre, SMT
  <2> QED BY <2>1, <2>2, <2>3
<1>6. c < Half => 2 * c = e
  <2> SUFFICES ASSUME c < Half PROVE (2 * c) % Whole = 2 * c
    BY DEF e
  <2>1. 2 * c \in 0 .. Whole - 1
    BY <1>1, SizesAre
  <2> QED BY <1>1, <2>1
<1> QED BY <1>2, <1>3, <1>4, <1>5, <1>6 DEF e, Words

(* A step of the division, bit by bit. *)
Shifted(c, i) == IF i = 1 THEN 0 ELSE F!Bit(c, i - 1)
Divides(c, i) == F!Bit(c, 16) = 1 /\ F!Bit(4129, i) = 1

LEMMA CrcBits ==
  ASSUME NEW c \in Words, NEW i \in 1 .. 16
  PROVE  /\ F!CrcBit(c) \in Words /\ Shifted(c, i) \in 0 .. 1
         /\ F!Bit(F!CrcBit(c), i) = IF Divides(c, i) THEN 1 - Shifted(c, i) ELSE Shifted(c, i)
<1> DEFINE e == (2 * c) % Whole
           p == 4129
           crc == F!CrcBit(c)
<1>1. /\ e \in Words /\ F!Bit(e, i) = Shifted(c, i)
      /\ c >= Half <=> F!Bit(c, 16) = 1
      /\ c < Half => 2 * c = e
  BY DoubleBits DEF Shifted
<1>2. c \in Nat /\ c < Whole /\ e \in Nat /\ p \in Nat /\ Half \in Nat
  BY <1>1, SizesAre, SMT DEF Words
<1>3. crc = IF c >= Half THEN F!Xor(e, p) ELSE 2 * c
  BY Zenon DEF F!CrcBit, Half, Whole
<1>4. Divides(c, i) <=> c >= Half /\ F!Bit(p, i) = 1
  BY <1>1 DEF Divides
<1> HIDE DEF e, p, crc
<1>5. Shifted(c, i) \in 0 .. 1 /\ F!Bit(p, i) \in 0 .. 1
  BY <1>1, <1>2, BitIs
<1>6. CASE c >= Half
  <2>1. crc \in Words
    BY <1>2, <1>3, <1>6, XorIs
  <2>2. F!Bit(crc, i) = IF F!Bit(e, i) = F!Bit(p, i) THEN 0 ELSE 1
    BY <1>2, <1>3, <1>6, XorBits
  <2> QED BY <1>1, <1>4, <1>5, <1>6, <2>1, <2>2 DEF crc
<1>7. CASE ~(c >= Half)
  <2>1. crc = e
    BY <1>1, <1>2, <1>3, <1>7
  <2> QED BY <1>1, <1>4, <1>5, <1>7, <2>1 DEF crc
<1> QED BY <1>6, <1>7

LEMMA CrcBitIs == \A c \in Words : F!CrcBit(c) \in Words
  BY CrcBits

(* It can be undone: the lowest bit tells what the highest was. *)
LEMMA CrcBitUndone ==
  ASSUME NEW a \in Words, NEW b \in Words, F!CrcBit(a) = F!CrcBit(b)
  PROVE  a = b
<1>1. F!Bit(4129, 1) = 1
  BY WeightIs DEF F!Bit
<1>2. F!Bit(a, 16) \in 0 .. 1 /\ F!Bit(b, 16) \in 0 .. 1
  BY BitIs, SizesAre, SMT DEF Words
<1>3. F!Bit(a, 16) = F!Bit(b, 16)
  <2>1. \A c \in Words : F!Bit(c, 16) \in 0 .. 1 => F!Bit(F!CrcBit(c), 1) = F!Bit(c, 16)
    BY <1>1, CrcBits DEF Shifted, Divides
  <2> QED BY <1>2, <2>1
<1>4. ASSUME NEW i \in 2 .. 16 PROVE F!Bit(a, i - 1) = F!Bit(b, i - 1)
  <2>1. /\ F!Bit(F!CrcBit(a), i) = IF Divides(a, i) THEN 1 - Shifted(a, i) ELSE Shifted(a, i)
        /\ F!Bit(F!CrcBit(b), i) = IF Divides(b, i) THEN 1 - Shifted(b, i) ELSE Shifted(b, i)
        /\ Shifted(a, i) \in 0 .. 1 /\ Shifted(b, i) \in 0 .. 1
    BY CrcBits
  <2>2. Divides(a, i) <=> Divides(b, i)
    BY <1>3 DEF Divides
  <2>3. Shifted(a, i) = Shifted(b, i)
    BY <2>1, <2>2
  <2> QED BY <2>3 DEF Shifted
<1>5. ASSUME NEW i \in 1 .. 16 PROVE F!Bit(a, i) = F!Bit(b, i)
  <2>1. CASE i = 16
    BY <1>3, <2>1
  <2>2. CASE i # 16
    <3>1. i + 1 \in 2 .. 16 /\ (i + 1) - 1 = i
      BY <2>2
    <3> QED BY <1>4, <3>1
  <2> QED BY <2>1, <2>2
<1> QED BY <1>5, SameBits

(* The step distributes over the exclusive or. *)
LEMMA CrcBitLinear ==
  ASSUME NEW a \in Words, NEW b \in Words
  PROVE  F!CrcBit(F!Xor(a, b)) = F!Xor(F!CrcBit(a), F!CrcBit(b))
<1> DEFINE x == F!Xor(a, b)
           l == F!CrcBit(x)
           r == F!Xor(F!CrcBit(a), F!CrcBit(b))
<1>1. Words \subseteq Nat
  BY SizesAre, SMT DEF Words
<1>2. x \in Words /\ l \in Words /\ r \in Words
  BY <1>1, XorIs, CrcBitIs
<1>3. \A c \in Words, i \in 1 .. 16 : F!Bit(c, i) \in 0 .. 1
  BY <1>1, BitIs
<1>4. ASSUME NEW i \in 1 .. 16 PROVE F!Bit(l, i) = F!Bit(r, i)
  <2> DEFINE differs(c, d) == IF c = d THEN 0 ELSE 1
  <2>1. F!Bit(x, 16) = differs(F!Bit(a, 16), F!Bit(b, 16))
    BY <1>1, XorBits
  <2>2. Shifted(x, i) = differs(Shifted(a, i), Shifted(b, i))
    <3>1. i # 1 => i - 1 \in 1 .. 16
      OBVIOUS
    <3> QED BY <1>1, <3>1, XorBits DEF Shifted
  <2>3. F!Bit(r, i) = differs(F!Bit(F!CrcBit(a), i), F!Bit(F!CrcBit(b), i))
    BY <1>1, CrcBitIs, XorBits
  <2>4. \A c \in Words :
          /\ F!Bit(F!CrcBit(c), i) = IF Divides(c, i) THEN 1 - Shifted(c, i) ELSE Shifted(c, i)
          /\ Shifted(c, i) \in 0 .. 1 /\ F!Bit(c, 16) \in 0 .. 1
    BY <1>3, CrcBits
  <2>5. \A c \in Words : Divides(c, i) <=> F!Bit(c, 16) = 1 /\ F!Bit(4129, i) = 1
    BY DEF Divides
  <2> HIDE DEF x, r
  <2>6. F!Bit(F!CrcBit(x), i) = F!Bit(r, i)
    BY <1>2, <2>1, <2>2, <2>3, <2>4, <2>5
  <2> QED BY <2>6
<1> QED BY <1>2, <1>4, SameBits

LEMMA XorUndone ==
  ASSUME NEW a \in Words, NEW b \in Words, NEW c \in Words
  PROVE  /\ F!Xor(a, b) = F!Xor(a, c) => b = c
         /\ F!Xor(b, a) = F!Xor(c, a) => b = c
<1>1. Words \subseteq Nat
  BY SizesAre, SMT DEF Words
<1>2. \A i \in 1 .. 16 : /\ F!Bit(a, i) \in 0 .. 1 /\ F!Bit(b, i) \in 0 .. 1 /\ F!Bit(c, i) \in 0 .. 1
  BY <1>1, BitIs
<1>3. ASSUME F!Xor(a, b) = F!Xor(a, c) \/ F!Xor(b, a) = F!Xor(c, a), NEW i \in 1 .. 16
      PROVE  F!Bit(b, i) = F!Bit(c, i)
  <2>1. /\ F!Bit(F!Xor(a, b), i) = IF F!Bit(a, i) = F!Bit(b, i) THEN 0 ELSE 1
        /\ F!Bit(F!Xor(b, a), i) = IF F!Bit(b, i) = F!Bit(a, i) THEN 0 ELSE 1
        /\ F!Bit(F!Xor(a, c), i) = IF F!Bit(a, i) = F!Bit(c, i) THEN 0 ELSE 1
        /\ F!Bit(F!Xor(c, a), i) = IF F!Bit(c, i) = F!Bit(a, i) THEN 0 ELSE 1
    BY <1>1, XorBits
  <2> QED BY <1>2, <1>3, <2>1
<1> QED BY <1>3, SameBits

(* Eight steps of it. *)
Four(x) == F!CrcBit(F!CrcBit(F!CrcBit(F!CrcBit(x))))
Eight(x) == Four(Four(x))

LEMMA EightIs ==
  ASSUME NEW a \in Words, NEW b \in Words
  PROVE  /\ Eight(a) \in Words
         /\ Eight(a) = Eight(b) => a = b
         /\ Eight(F!Xor(a, b)) = F!Xor(Eight(a), Eight(b))
<1>1. \A x \in Words : Four(x) \in Words
  BY CrcBitIs DEF Four
<1>2. \A x, y \in Words : Four(x) = Four(y) => x = y
  BY CrcBitIs, CrcBitUndone DEF Four
<1>3. \A x, y \in Words : F!Xor(x, y) \in Words
  <2>1. Words \subseteq Nat
    BY SizesAre, SMT DEF Words
  <2> QED BY <2>1, XorIs
<1>4. \A x, y \in Words : Four(F!Xor(x, y)) = F!Xor(Four(x), Four(y))
  <2> TAKE x, y \in Words
  <2>1. \A u, v \in Words : F!CrcBit(F!Xor(u, v)) = F!Xor(F!CrcBit(u), F!CrcBit(v))
    BY CrcBitLinear
  <2> DEFINE x1 == F!CrcBit(x)
             y1 == F!CrcBit(y)
             x2 == F!CrcBit(x1)
             y2 == F!CrcBit(y1)
             x3 == F!CrcBit(x2)
             y3 == F!CrcBit(y2)
  <2>2. x1 \in Words /\ y1 \in Words /\ x2 \in Words /\ y2 \in Words /\ x3 \in Words /\ y3 \in Words
    BY CrcBitIs
  <2>3. F!CrcBit(F!Xor(x, y)) = F!Xor(x1, y1)
    BY <2>1
  <2>4. F!CrcBit(F!Xor(x1, y1)) = F!Xor(x2, y2)
    BY <2>1, <2>2
  <2>5. F!CrcBit(F!Xor(x2, y2)) = F!Xor(x3, y3)
    BY <2>1, <2>2
  <2>6. F!CrcBit(F!Xor(x3, y3)) = F!Xor(F!CrcBit(x3), F!CrcBit(y3))
    BY <2>1, <2>2
  <2> QED BY <2>3, <2>4, <2>5, <2>6, Zenon DEF Four
<1>5. Eight(a) \in Words
  BY <1>1 DEF Eight
<1>6. Eight(a) = Eight(b) => a = b
  BY <1>1, <1>2 DEF Eight
<1>7. Eight(F!Xor(a, b)) = F!Xor(Eight(a), Eight(b))
  BY <1>1, <1>3, <1>4 DEF Eight
<1> QED BY <1>5, <1>6, <1>7

(* A byte has no effect on the division before it reaches the upper half. *)
LEMMA EightShifts == \A x \in Bytes : Eight(x) = 256 * x
<1> TAKE x \in Bytes
<1>1. \A c \in Words : c < Half => F!CrcBit(c) = 2 * c
  <2> TAKE c \in Words
  <2> DEFINE e == F!Xor((2 * c) % Whole, 4129)
  <2>1. F!CrcBit(c) = IF c >= Half THEN e ELSE 2 * c
    BY Zenon DEF F!CrcBit, Half, Whole
  <2> HIDE DEF e
  <2>2. c < Half => ~(c >= Half)
    BY SizesAre, SMT DEF Words
  <2> QED BY <2>1, <2>2
<1>2. Half = 32768 /\ Whole = 65536
  BY SMT DEF Half, Whole
<1>3. /\ x \in Nat /\ x < Half /\ 2 * x < Half /\ 4 * x < Half /\ 8 * x < Half
      /\ 16 * x < Half /\ 32 * x < Half /\ 64 * x < Half /\ 128 * x < Half
  BY <1>2, SMT DEF Bytes
<1>4. \A m \in Nat : m < Half => m \in Words
  BY SizesAre, SMT DEF Words
<1>5. \A m \in Nat : m < Half => F!CrcBit(m) = 2 * m
  BY <1>1, <1>4
<1>6. Four(x) = 16 * x
  <2>1. F!CrcBit(x) = 2 * x
    BY <1>3, <1>5
  <2>2. F!CrcBit(2 * x) = 4 * x
    BY <1>3, <1>5
  <2>3. F!CrcBit(4 * x) = 8 * x
    BY <1>3, <1>5
  <2>4. F!CrcBit(8 * x) = 16 * x
    BY <1>3, <1>5
  <2> QED BY <2>1, <2>2, <2>3, <2>4 DEF Four
<1>7. Four(16 * x) = 256 * x
  <2>1. F!CrcBit(16 * x) = 32 * x
    BY <1>3, <1>5
  <2>2. F!CrcBit(32 * x) = 64 * x
    BY <1>3, <1>5
  <2>3. F!CrcBit(64 * x) = 128 * x
    BY <1>3, <1>5
  <2>4. F!CrcBit(128 * x) = 256 * x
    BY <1>3, <1>5
  <2> QED BY <2>1, <2>2, <2>3, <2>4 DEF Four
<1> QED BY <1>6, <1>7 DEF Eight

LEMMA BytesAreWords == \A x \in Bytes : x \in Words /\ x \in Nat /\ 256 * x \in Words
<1> TAKE x \in Bytes
<1>1. Whole = 65536
  BY SMT DEF Whole
<1>2. x \in Nat /\ x < Whole /\ 256 * x < Whole
  BY <1>1, SMT DEF Bytes
<1> QED BY <1>2, SizesAre, SMT DEF Words

LEMMA CrcByteIs ==
  ASSUME NEW c \in Words, NEW byte \in Bytes
  PROVE  /\ F!Xor(c, 256 * byte) \in Words
         /\ F!CrcByte(c, byte) = Eight(F!Xor(c, 256 * byte))
         /\ F!CrcByte(c, byte) \in Words
<1> DEFINE x == F!Xor(c, 256 * byte)
           step == [i \in 1 .. 8 |-> [e \in Words |-> F!CrcBit(e)]]
<1>1. x \in Words
  <2> c \in Nat /\ 256 * byte \in Nat
    BY SizesAre, SMT DEF Words, Bytes
  <2> QED BY XorIs
<1>2. step \in [1 .. 8 -> [Words -> Words]]
  BY CrcBitIs
<1> HIDE DEF x
<1>3. PICK g \in [0 .. 8 -> Words] : Iterates(g, 8, x, step)
  BY <1>1, <1>2, IterationExists
<1>4. g = [i \in 0 .. 8 |-> IF i = 0 THEN x ELSE F!CrcBit(g[i - 1])]
  BY <1>3 DEF Iterates
<1> HIDE DEF step
<1>5. PICK h : /\ h = [i \in 0 .. 8 |-> IF i = 0 THEN x ELSE F!CrcBit(h[i - 1])]
               /\ F!CrcByte(c, byte) = h[8]
  BY <1>4, Zenon DEF F!CrcByte, x
<1>6. h[0] = x /\ \A i \in 1 .. 8 : h[i] = F!CrcBit(h[i - 1])
  BY <1>5
<1>7. h[8] = Eight(x)
  <2>1. h[4] = Four(x)
    BY <1>6 DEF Four
  <2>2. h[8] = Four(h[4])
    BY <1>6 DEF Four
  <2> QED BY <2>1, <2>2 DEF Eight
<1> QED BY <1>1, <1>5, <1>7, EightIs DEF x

LEMMA CrcByteUndone ==
  ASSUME NEW a \in Words, NEW b \in Words, NEW byte \in Bytes,
         F!CrcByte(a, byte) = F!CrcByte(b, byte)
  PROVE  a = b
<1>1. F!Xor(a, 256 * byte) = F!Xor(b, 256 * byte)
  BY CrcByteIs, EightIs
<1> QED BY <1>1, BytesAreWords, XorUndone

(* No two pairs of bytes take the division to the same remainder. *)
LEMMA TwoBytesTold ==
  ASSUME NEW c \in Words, NEW p \in Bytes, NEW q \in Bytes, NEW r \in Bytes, NEW s \in Bytes,
         F!CrcByte(F!CrcByte(c, p), q) = F!CrcByte(F!CrcByte(c, r), s)
  PROVE  p = r /\ q = s
<1> DEFINE u == F!Xor(c, 256 * p)
           v == F!Xor(c, 256 * r)
<1>1. /\ Words \subseteq Nat
      /\ \A x \in Bytes : x \in Words /\ x \in Nat /\ 256 * x \in Words
  <2> Words \subseteq Nat
    BY SizesAre, SMT DEF Words
  <2> QED BY BytesAreWords
<1>2. \A x, y \in Words : F!Xor(x, y) \in Words
  BY <1>1, XorIs
<1>3. u \in Words /\ v \in Words
  BY <1>1, <1>2
<1>4. ASSUME NEW d \in Words, NEW x \in Bytes, NEW y \in Bytes
      PROVE  F!CrcByte(F!CrcByte(d, x), y) = Eight(Eight(F!Xor(F!Xor(d, 256 * x), y)))
  <2> DEFINE z == F!Xor(d, 256 * x)
  <2>1. z \in Words /\ F!CrcByte(d, x) = Eight(z) /\ Eight(z) \in Words
    BY CrcByteIs
  <2> HIDE DEF z
  <2>2. F!CrcByte(Eight(z), y) = Eight(F!Xor(Eight(z), 256 * y))
    BY <2>1, CrcByteIs
  <2>3. 256 * y = Eight(y)
    BY EightShifts
  <2>4. F!Xor(Eight(z), Eight(y)) = Eight(F!Xor(z, y))
    BY <1>1, <2>1, EightIs
  <2> QED BY <2>1, <2>2, <2>3, <2>4 DEF z
<1>5. F!Xor(u, q) = F!Xor(v, s)
  <2> DEFINE x == F!Xor(u, q)
             y == F!Xor(v, s)
  <2>1. x \in Words /\ y \in Words
    BY <1>1, <1>2, <1>3
  <2>2. Eight(Eight(x)) = Eight(Eight(y))
    BY <1>4
  <2> HIDE DEF x, y
  <2>3. x = y
    BY <2>1, <2>2, EightIs
  <2> QED BY <2>3 DEF x, y
<1>6. \A i \in 1 .. 16 : F!Bit(q, i) = F!Bit(s, i) /\ F!Bit(256 * p, i) = F!Bit(256 * r, i)
  <2> TAKE i \in 1 .. 16
  <2>1. \A x \in Nat : F!Bit(x, i) \in 0 .. 1
    BY BitIs
  <2>2. /\ F!Bit(u, i) = IF F!Bit(c, i) = F!Bit(256 * p, i) THEN 0 ELSE 1
        /\ F!Bit(v, i) = IF F!Bit(c, i) = F!Bit(256 * r, i) THEN 0 ELSE 1
        /\ F!Bit(F!Xor(u, q), i) = IF F!Bit(u, i) = F!Bit(q, i) THEN 0 ELSE 1
        /\ F!Bit(F!Xor(v, s), i) = IF F!Bit(v, i) = F!Bit(s, i) THEN 0 ELSE 1
    <3>1. \A x, y \in Words : F!Bit(F!Xor(x, y), i) = IF F!Bit(x, i) = F!Bit(y, i) THEN 0 ELSE 1
      BY <1>1, XorBits
    <3>2. 256 * p \in Words /\ 256 * r \in Words /\ q \in Words /\ s \in Words
      BY <1>1
    <3> QED BY <1>3, <3>1, <3>2
  <2> DEFINE bp == F!Bit(256 * p, i)
             br == F!Bit(256 * r, i)
             bq == F!Bit(q, i)
             bs == F!Bit(s, i)
             bc == F!Bit(c, i)
             bu == F!Bit(u, i)
             bv == F!Bit(v, i)
  <2>3. /\ bp \in 0 .. 1 /\ br \in 0 .. 1 /\ bq \in 0 .. 1 /\ bs \in 0 .. 1
        /\ bc \in 0 .. 1
    BY <1>1, <2>1
  <2>4. (bp = 0 /\ br = 0) \/ (bq = 0 /\ bs = 0)
    <3>1. CASE i \in 1 .. 8
      BY <3>1, LowBits
    <3>2. CASE i \in 9 .. 16
      BY <3>2, HighBits
    <3> QED BY <3>1, <3>2
  <2>5. /\ bu = IF bc = bp THEN 0 ELSE 1
        /\ bv = IF bc = br THEN 0 ELSE 1
        /\ (IF bu = bq THEN 0 ELSE 1) = (IF bv = bs THEN 0 ELSE 1)
    BY <1>5, <2>2
  <2> HIDE DEF bp, br, bq, bs, bc, bu, bv
  <2>6. bq = bs /\ bp = br
    BY <2>3, <2>4, <2>5
  <2> QED BY <2>6 DEF bp, br, bq, bs
<1>7. q = s /\ 256 * p = 256 * r
  BY <1>1, <1>6, SameBits
<1> QED BY <1>1, <1>7

LEMMA CrcSum ==
  ASSUME NEW n \in Nat, NEW bytes \in [1 .. n -> Bytes]
  PROVE  \E h \in [0 .. n -> Words] :
           /\ h[0] = F!CrcInit
           /\ \A i \in 1 .. n : h[i] = F!CrcByte(h[i - 1], bytes[i])
           /\ F!CrcOf(bytes) = h[n]
<1> DEFINE step == [i \in 1 .. n |-> [e \in Words |-> F!CrcByte(e, bytes[i])]]
           Step(h, i) == F!CrcByte(h[i - 1], bytes[i])
<1>1. step \in [1 .. n -> [Words -> Words]]
  BY CrcByteIs
<1>2. PICK g \in [0 .. n -> Words] : Iterates(g, n, F!CrcInit, step)
  BY <1>1, CrcInitIs, IterationExists
<1>w. F!Words = Words
  BY DEF F!Words, Words, Whole
<1>3. g = [i \in 0 .. n |-> IF i = 0 THEN F!CrcInit
                           ELSE [crc \in F!Words |-> F!CrcByte(crc, bytes[i])][g[i - 1]]]
  <2>1. \A i \in 1 .. n : g[i - 1] \in Words
    OBVIOUS
  <2>2. \A i \in 1 .. n : g[i] = [crc \in F!Words |-> F!CrcByte(crc, bytes[i])][g[i - 1]]
    BY <1>2, <2>1, <1>w DEF Iterates
  <2> QED BY <1>2, <2>2 DEF Iterates
<1> HIDE DEF step
<1>4. Len(bytes) = n
  BY FunctionIsSeq
<1>5. PICK h : /\ h = [i \in 0 .. n |->
                       IF i = 0 THEN F!CrcInit
                       ELSE [crc \in F!Words |-> F!CrcByte(crc, bytes[i])][h[i - 1]]]
               /\ F!CrcOf(bytes) = h[n]
  BY <1>3, <1>4, Zenon DEF F!CrcOf
<1>6. /\ h[0] = F!CrcInit
      /\ \A i \in 1 .. n : h[i - 1] \in Words => h[i] = F!CrcByte(h[i - 1], bytes[i])
  BY <1>5, <1>w
<1>7. \A i \in 1 .. n : h[i - 1] \in Words => h[i] \in Words
  BY <1>6, CrcByteIs
<1> DEFINE Strays == {i \in 0 .. n : h[i] \notin Words}
<1>8. Strays = {}
  <2> SUFFICES ASSUME Strays # {} PROVE FALSE
    OBVIOUS
  <2>1. Strays \subseteq Nat
    OBVIOUS
  <2>2. PICK i \in Strays : \A k \in Strays : i <= k
    <3> HIDE DEF Strays
    <3> QED BY <2>1, Least
  <2>3. i \in 1 .. n
    BY <1>6, CrcInitIs
  <2>4. i - 1 \notin Strays
    BY <2>2, <2>3
  <2> QED BY <1>7, <2>3, <2>4
<1>9. h \in [0 .. n -> Words]
  <2>1. \A i \in 0 .. n : h[i] \in Words
    BY <1>8
  <2> QED BY <1>5, <2>1
<1>10. \A i \in 1 .. n : h[i] = F!CrcByte(h[i - 1], bytes[i])
  BY <1>6, <1>9
<1> QED BY <1>5, <1>6, <1>9, <1>10

LEMMA CrcIs ==
  ASSUME NEW n \in Nat, NEW bytes \in [1 .. n -> Bytes]
  PROVE  F!CrcOf(bytes) \in Words
<1>1. PICK h \in [0 .. n -> Words] : F!CrcOf(bytes) = h[n]
  BY CrcSum
<1> QED BY <1>1

(* No change of two adjacent bytes leaves the CRC as it was. *)
LEMMA CrcTells ==
  ASSUME NEW n \in Nat, NEW a \in [1 .. n -> Bytes], NEW b \in [1 .. n -> Bytes],
         NEW k \in 1 .. n - 1, \A i \in 1 .. n : i # k /\ i # k + 1 => a[i] = b[i],
         F!CrcOf(a) = F!CrcOf(b)
  PROVE  a[k] = b[k] /\ a[k + 1] = b[k + 1]
<1>1. PICK g \in [0 .. n -> Words] :
        /\ g[0] = F!CrcInit /\ \A i \in 1 .. n : g[i] = F!CrcByte(g[i - 1], a[i])
        /\ F!CrcOf(a) = g[n]
  BY CrcSum
<1>2. PICK h \in [0 .. n -> Words] :
        /\ h[0] = F!CrcInit /\ \A i \in 1 .. n : h[i] = F!CrcByte(h[i - 1], b[i])
        /\ F!CrcOf(b) = h[n]
  BY CrcSum
<1>3. g[k - 1] = h[k - 1]
  <2> DEFINE Parts == {i \in 0 .. k - 1 : g[i] # h[i]}
  <2>1. Parts = {}
    <3> SUFFICES ASSUME Parts # {} PROVE FALSE
      OBVIOUS
    <3>1. PICK i \in Parts : \A l \in Parts : i <= l
      <4>1. Parts \subseteq Nat
        OBVIOUS
      <4> HIDE DEF Parts
      <4> QED BY <4>1, Least
    <3>2. i \in 1 .. k - 1 /\ g[i] # h[i]
      BY <1>1, <1>2
    <3>3. g[i - 1] = h[i - 1]
      <4>1. i - 1 \in 0 .. k - 1 /\ ~(i <= i - 1)
        BY <3>2
      <4>2. i - 1 \notin Parts
        BY <3>1, <4>1
      <4> QED BY <4>1, <4>2
    <3>4. i \in 1 .. n /\ a[i] = b[i]
      BY <3>2
    <3> QED BY <1>1, <1>2, <3>2, <3>3, <3>4
  <2> QED BY <2>1
<1>4. g[k + 1] = h[k + 1]
  <2> DEFINE Meets == {j \in 0 .. n - k - 1 : g[k + 1 + j] = h[k + 1 + j]}
  <2>1. n - k - 1 \in Meets
    <3>1. n - k - 1 \in 0 .. n - k - 1 /\ k + 1 + (n - k - 1) = n
      OBVIOUS
    <3> QED BY <1>1, <1>2, <3>1
  <2>2. PICK j \in Meets : \A l \in Meets : j <= l
    <3>1. Meets \subseteq Nat
      OBVIOUS
    <3> HIDE DEF Meets
    <3> QED BY <2>1, <3>1, Least
  <2>3. j = 0
    <3> SUFFICES ASSUME j # 0 PROVE FALSE
      OBVIOUS
    <3> DEFINE i == k + 1 + j
    <3>1. j - 1 \in 0 .. n - k - 1 /\ ~(j <= j - 1) /\ k + 1 + (j - 1) = i - 1
      OBVIOUS
    <3>2. i \in 1 .. n /\ i - 1 \in 0 .. n /\ i # k /\ i # k + 1 /\ g[i] = h[i]
      OBVIOUS
    <3> HIDE DEF i
    <3>3. g[i] = F!CrcByte(g[i - 1], a[i]) /\ h[i] = F!CrcByte(h[i - 1], a[i]) /\ a[i] \in Bytes
      BY <1>1, <1>2, <3>2
    <3>4. g[i - 1] = h[i - 1]
      <4> g[i - 1] \in Words /\ h[i - 1] \in Words
        BY <3>2
      <4> QED BY <3>2, <3>3, CrcByteUndone
    <3>5. j - 1 \in Meets
      BY <3>1, <3>4
    <3> QED BY <2>2, <3>1, <3>5
  <2> QED BY <2>3
<1> DEFINE c == g[k - 1]
<1>5. /\ c \in Words /\ k \in 1 .. n /\ k + 1 \in 1 .. n /\ (k + 1) - 1 = k
  <2> k - 1 \in 0 .. n
    OBVIOUS
  <2> QED OBVIOUS
<1>6. g[k + 1] = F!CrcByte(F!CrcByte(c, a[k]), a[k + 1])
  BY <1>1, <1>5
<1>7. h[k + 1] = F!CrcByte(F!CrcByte(c, b[k]), b[k + 1])
  BY <1>2, <1>3, <1>5
<1> HIDE DEF c
<1>8. a[k] \in Bytes /\ a[k + 1] \in Bytes /\ b[k] \in Bytes /\ b[k + 1] \in Bytes
  BY <1>5
<1> DEFINE p == a[k]
           q == a[k + 1]
           r == b[k]
           s == b[k + 1]
<1> HIDE DEF p, q, r, s
<1>9. F!CrcByte(F!CrcByte(c, p), q) = F!CrcByte(F!CrcByte(c, r), s)
  BY <1>4, <1>6, <1>7, Zenon DEF p, q, r, s
<1>10. p \in Bytes /\ q \in Bytes /\ r \in Bytes /\ s \in Bytes
  BY <1>8, Zenon DEF p, q, r, s
<1>11. p = r /\ q = s
  BY <1>5, <1>9, <1>10, TwoBytesTold
<1> QED BY <1>11, Zenon DEF p, q, r, s

-----------------------------------------------------------------------------
(* Numbers and their bytes *)

LEMMA WordIsBytes ==
  /\ \A w \in Int : (w % 256) + 256 * (w \div 256) = w
  /\ \A w \in Words : w % 256 \in Bytes /\ w \div 256 \in Bytes
<1>1. Whole = 256 * 256
  BY SMT DEF Whole
<1>2. \A w \in Int : (w % 256) + 256 * (w \div 256) = w
  BY SMT
<1>3. \A w \in Words : w % 256 \in Bytes
  BY SizesAre, SMT DEF Words, Bytes
<1>4. \A w \in Words : w \div 256 \in Bytes
  BY <1>1, SMT DEF Words, Bytes
<1> QED BY <1>2, <1>3, <1>4

(* The cast to uint16_t and back. *)
Short == -Half .. Half - 1
AsShort(u) == IF u >= Half THEN u - Whole ELSE u

LEMMA CastIs == \A n \in Short : n % Whole \in Words /\ AsShort(n % Whole) = n
<1> TAKE n \in Short
<1>1. CASE n >= 0
  <2>1. n \in 0 .. Whole - 1 /\ n < Half
    BY <1>1, SizesAre, SMT DEF Short
  <2>2. n % Whole = n
    BY <2>1, SizesAre, SMT
  <2> QED BY <2>1, <2>2, SizesAre, SMT DEF Words, AsShort
<1>2. CASE n < 0
  <2>1. n + Whole \in 0 .. Whole - 1 /\ n + Whole >= Half /\ n \in Int
    BY <1>2, SizesAre, SMT DEF Short
  <2>2. n % Whole = n + Whole
    BY <2>1, SizesAre, SMT
  <2> QED BY <2>1, <2>2, SizesAre, SMT DEF Words, AsShort
<1> QED BY <1>1, <1>2, SMT DEF Short

(* lroundf: off by at most a half. *)
LEMMA RoundIs ==
  \A n \in Int : LET r == F!Round(n) IN
    r \in Int /\ 2 * (r * 1000 - n) <= 1000 /\ -1000 <= 2 * (r * 1000 - n)
<1> TAKE n \in Int
<1>1. \A m \in Int : LET r == (2 * m + 1000) \div 2000 IN
         r \in Int /\ 2 * (r * 1000 - m) <= 1000 /\ -1000 <= 2 * (r * 1000 - m)
  BY SMT
<1>2. CASE n >= 0
  <2>1. F!Round(n) = (2 * n + 1000) \div 2000
    BY <1>2 DEF F!Round, F!Den
  <2> QED BY <1>1, <2>1
<1>3. CASE ~(n >= 0)
  <2> DEFINE q == (2 * (-n) + 1000) \div 2000
  <2>1. F!Round(n) = -q
    BY <1>3 DEF F!Round, F!Den
  <2>2. q \in Int /\ 2 * (q * 1000 - (-n)) <= 1000 /\ -1000 <= 2 * (q * 1000 - (-n))
    BY <1>1
  <2> HIDE DEF q
  <2> QED BY <2>1, <2>2
<1> QED BY <1>2, <1>3

(* encode_i16: a 16-bit number, the nearest to the quantity's there is. *)
LEMMA EncodeIs ==
  ASSUME NEW v \in Quantity, NEW scale \in Int
  PROVE  /\ F!EncodeI16(v, scale) \in Short
         /\ F!Nearest(F!EncodeI16(v, scale), v, scale)
<1> DEFINE code == F!EncodeI16(v, scale)
           p == v * scale
           high == F!INT16_MAX * F!Den
           low == F!INT16_MIN * F!Den
           r == F!Round(p)
<1>1. /\ F!INT16_MAX = Half - 1 /\ F!INT16_MIN = -Half
      /\ high = (Half - 1) * 1000 /\ low = (-Half) * 1000
  BY SMT DEF Half, F!Den, F!INT16_MAX, F!INT16_MIN
<1>2. CASE v = NonFinite
  <2>1. code = 0 /\ (F!Nearest(code, v, scale) <=> code = 0)
    BY <1>2 DEF F!EncodeI16, F!Nearest
  <2> HIDE DEF code
  <2>2. code \in Short
    BY <2>1, SizesAre DEF Short
  <2> QED BY <2>1, <2>2 DEF code
<1>3. CASE v # NonFinite
  <2>1. p \in Int
    BY <1>3 DEF Quantity
  <2>2. code = IF p >= high THEN F!INT16_MAX ELSE IF p <= low THEN F!INT16_MIN ELSE r
    BY <1>3, Zenon DEF F!EncodeI16
  <2>3. F!Nearest(code, v, scale) <=>
          IF p >= high THEN code = F!INT16_MAX
          ELSE IF p <= low THEN code = F!INT16_MIN
          ELSE 2 * (code * F!Den - p) <= F!Den /\ -2 * (code * F!Den - p) <= F!Den
    BY <1>3, Zenon DEF F!Nearest
  <2>4. r \in Int /\ 2 * (r * 1000 - p) <= 1000 /\ -1000 <= 2 * (r * 1000 - p)
    BY <2>1, RoundIs
  <2> SUFFICES code \in Short /\ F!Nearest(code, v, scale)
    OBVIOUS
  <2> HIDE DEF code, p, high, low, r
  <2>5. CASE p >= high
    <3>1. F!INT16_MAX \in Short
      BY <1>1, SizesAre, SMT DEF Short
    <3> QED BY <2>2, <2>3, <2>5, <3>1
  <2>6. CASE ~(p >= high) /\ p <= low
    <3>1. F!INT16_MIN \in Short
      BY <1>1, SizesAre, SMT DEF Short
    <3> QED BY <2>2, <2>3, <2>6, <3>1
  <2>7. CASE ~(p >= high) /\ ~(p <= low)
    <3>1. code = r
      BY <2>2, <2>7
    <3>2. r \in Short
      BY <1>1, <2>1, <2>4, <2>7, SizesAre, SMT DEF Short
    <3>3. 2 * (r * F!Den - p) <= F!Den /\ -2 * (r * F!Den - p) <= F!Den
      BY <2>1, <2>4, SMT DEF F!Den
    <3> QED BY <2>3, <2>7, <3>1, <3>2, <3>3
  <2> QED BY <2>5, <2>6, <2>7
<1> QED BY <1>2, <1>3

Turn     == 360 * F!Den
HalfTurn == 180 * F!Den

LEMMA TurnIs ==
  Turn = 2 * HalfTurn /\ HalfTurn \in Nat /\ HalfTurn > 5
  BY SMT DEF Turn, HalfTurn, F!Den

(* A wrapped angle is not clamped. *)
LEMMA AngleFits ==
  \A w \in -HalfTurn .. HalfTurn - 1 :
     ~(w * 100 >= F!INT16_MAX * F!Den) /\ ~(w * 100 <= F!INT16_MIN * F!Den)
<1> DEFINE high == F!INT16_MAX * F!Den
           low == F!INT16_MIN * F!Den
<1>1. HalfTurn * 100 < high /\ (-HalfTurn) * 100 > low /\ high \in Int /\ low \in Int
  BY SMT DEF HalfTurn, F!Den, F!INT16_MAX, F!INT16_MIN
<1> HIDE DEF high, low
<1>2. \A w \in -HalfTurn .. HalfTurn - 1 : ~(w * 100 >= high) /\ ~(w * 100 <= low)
  BY <1>1, TurnIs, SMT
<1> QED BY <1>2, Zenon DEF high, low

(* wrap_deg: half a turn at most either way, and off by whole turns only. *)
LEMMA WrapIs ==
  ASSUME NEW angle \in Int
  PROVE  /\ F!WrapDeg(angle) \in -HalfTurn .. HalfTurn - 1
         /\ \E q \in Int : angle = F!WrapDeg(angle) + Turn * q
<1> DEFINE a == angle + HalfTurn
           r == F!Remainder(a, Turn)
           w == F!WrapDeg(angle)
<1> SUFFICES ASSUME angle # NonFinite
             PROVE  w \in -HalfTurn .. HalfTurn - 1 /\ \E q \in Int : angle = w + Turn * q
  BY FrameAssumption
<1>1. w = (IF r < 0 THEN r + Turn ELSE r) - HalfTurn
  BY Zenon DEF F!WrapDeg, Turn, HalfTurn
<1>2. a \in Int /\ Turn \in Nat \ {0}
  BY TurnIs
<1>3. \E q \in Int : a = Turn * q + r /\ r \in Int /\ -Turn < r /\ r < Turn
  <2>1. CASE a >= 0
    <3>1. r = a % Turn
      BY <2>1 DEF F!Remainder
    <3>2. a = Turn * (a \div Turn) + (a % Turn) /\ a \div Turn \in Int /\ a % Turn \in 0 .. Turn - 1
      BY <1>2, Division
    <3> DEFINE q == a \div Turn
    <3> HIDE DEF a, r, q
    <3>3. a = Turn * q + r /\ r \in Int /\ -Turn < r /\ r < Turn /\ q \in Int
      BY <1>2, <3>1, <3>2 DEF q
    <3> QED BY <3>3
  <2>2. CASE ~(a >= 0)
    <3> DEFINE e == (-a) % Turn
               d == (-a) \div Turn
    <3>1. r = -e
      BY <2>2 DEF F!Remainder
    <3>2. -a = Turn * d + e /\ d \in Int /\ e \in 0 .. Turn - 1
      <4> -a \in Int
        BY <1>2
      <4> QED BY <1>2, Division
    <3> HIDE DEF a, r, d, e
    <3>3. Turn * (-d) = -(Turn * d) /\ Turn * d \in Int
      BY <1>2, <3>2
    <3>4. a = Turn * (-d) + r
      BY <1>2, <3>1, <3>2, <3>3
    <3>5. r \in Int /\ -Turn < r /\ r < Turn /\ -d \in Int
      BY <1>2, <3>1, <3>2
    <3> QED BY <3>4, <3>5
  <2> QED BY <2>1, <2>2
<1>4. PICK q \in Int : a = Turn * q + r /\ r \in Int /\ -Turn < r /\ r < Turn
  BY <1>3
<1>5. Turn * q \in Int /\ Turn * (q - 1) = Turn * q - Turn /\ angle = a - HalfTurn
  BY <1>2, TurnIs
<1> HIDE DEF a, r, w
<1>6. CASE r < 0
  <2>1. w = r + Turn - HalfTurn
    BY <1>1, <1>2, <1>4, <1>6, TurnIs
  <2>2. angle = w + Turn * (q - 1)
    BY <1>2, <1>4, <1>5, <2>1, TurnIs
  <2> QED BY <1>2, <1>4, <1>6, <2>1, <2>2, TurnIs
<1>7. CASE ~(r < 0)
  <2>1. w = r - HalfTurn
    BY <1>1, <1>7
  <2>2. angle = w + Turn * q
    BY <1>2, <1>4, <1>5, <2>1, TurnIs
  <2> QED BY <1>2, <1>4, <1>7, <2>1, <2>2, TurnIs
<1> QED BY <1>6, <1>7

LEMMA AngleIs ==
  ASSUME NEW angle \in Quantity
  PROVE  LET code == F!EncodeI16(F!WrapDeg(angle), 100) IN
         code \in Short /\ F!NearestAngle(code, angle)
<1> DEFINE w == F!WrapDeg(angle)
           code == F!EncodeI16(w, 100)
<1>1. CASE angle = NonFinite
  <2>1. w = NonFinite
    BY <1>1 DEF F!WrapDeg
  <2>2. code = 0 /\ (F!NearestAngle(code, angle) <=> code = 0)
    BY <1>1, <2>1 DEF F!EncodeI16, F!NearestAngle
  <2> HIDE DEF code
  <2>3. code \in Short
    BY <2>2, SizesAre DEF Short
  <2> QED BY <2>2, <2>3 DEF code
<1>2. CASE angle # NonFinite
  <2>1. angle \in Int
    BY <1>2 DEF Quantity
  <2>2. w \in -HalfTurn .. HalfTurn - 1 /\ \E q \in Int : angle = w + Turn * q
    BY <2>1, WrapIs
  <2>3. PICK q \in Int : angle = w + Turn * q
    BY <2>2
  <2>4. w \in Int /\ -HalfTurn <= w /\ w < HalfTurn
    BY <2>2, TurnIs
  <2>5. code \in Short /\ F!Nearest(code, w, 100)
    <3> w \in Quantity /\ 100 \in Int
      BY <2>4 DEF Quantity
    <3> QED BY EncodeIs
  <2>6. code \in Int
    BY <2>5, SizesAre, SMT DEF Short
  <2>7. 2 * (code * F!Den - w * 100) <= F!Den /\ -2 * (code * F!Den - w * 100) <= F!Den
    <3>1. w # NonFinite
      BY <2>4, FrameAssumption
    <3>2. ~(w * 100 >= F!INT16_MAX * F!Den) /\ ~(w * 100 <= F!INT16_MIN * F!Den)
      BY <2>2, AngleFits
    <3> QED BY <2>5, <3>1, <3>2, Zenon DEF F!Nearest
  <2> DEFINE d == code * 10 - w
             x == code * 10 - angle
  <2> HIDE DEF w, code
  <2>8. d \in Int /\ -5 <= d /\ d <= 5
    BY <2>4, <2>6, <2>7, SMT DEF F!Den
  <2>9. -18000 <= code /\ code <= 18000
    <3>1. HalfTurn = 180000
      BY SMT DEF HalfTurn, F!Den
    <3> QED BY <2>4, <2>6, <2>8, <3>1, SMT
  <2>10. x % Turn <= 5 \/ x % Turn >= Turn - 5
    <3>1. Turn \in Nat \ {0} /\ Turn > 5 /\ Turn * q \in Int
      BY TurnIs
    <3>2. Turn * (-q) = -(Turn * q) /\ Turn * (-q - 1) = -(Turn * q) - Turn
      BY <3>1
    <3>3. x = d - Turn * q /\ x \in Int
      BY <2>1, <2>3, <2>4, <2>6, <3>1
    <3> HIDE DEF x, d
    <3>4. CASE d >= 0
      <4>1. x = Turn * (-q) + d /\ d \in 0 .. Turn - 1 /\ -q \in Int
        BY <2>8, <3>1, <3>2, <3>3, <3>4
      <4>2. x % Turn = d
        BY <3>1, <3>3, <4>1, RemainderIs
      <4> QED BY <2>8, <4>2
    <3>5. CASE ~(d >= 0)
      <4> DEFINE e == d + Turn
                 p == -q - 1
      <4>1. x = Turn * p + e /\ e \in 0 .. Turn - 1 /\ p \in Int
        BY <2>8, <3>1, <3>2, <3>3, <3>5
      <4> HIDE DEF p, e
      <4>2. x % Turn = e
        BY <3>1, <3>3, <4>1, RemainderIs
      <4> USE DEF e
      <4> QED BY <2>8, <3>1, <4>2
    <3> QED BY <3>4, <3>5
  <2>11. F!NearestAngle(code, angle)
    BY <1>2, <2>9, <2>10, SMT DEF F!NearestAngle, Turn
  <2> QED BY <2>5, <2>11 DEF code, w
<1> QED BY <1>1, <1>2

-----------------------------------------------------------------------------
(* Where the writes of foxglove_debug_frame_encode go, and their bytes. *)

Listed(a, n) == a = [i \in 1 .. n |-> a[i]]

Joins(w, a, m, b, n) ==
  Listed(w, n) /\ \A i \in 1 .. n : w[i] = IF i <= m THEN a[i] ELSE b[i - m]

LEMMA Joined ==
  ASSUME NEW m \in Nat, NEW n \in Nat, NEW p, p = m + n, NEW a, NEW b,
         Listed(a, m), Listed(b, n)
  PROVE  Joins(a \o b, a, m, b, p)
<1> DEFINE S == {a[i] : i \in 1 .. m} \cup {b[i] : i \in 1 .. n}
<1>1. a \in [1 .. m -> S] /\ b \in [1 .. n -> S]
  BY DEF Listed
<1> HIDE DEF S
<1>2. a \in Seq(S) /\ Len(a) = m /\ b \in Seq(S) /\ Len(b) = n
  BY <1>1, FunctionIsSeq
<1> QED BY <1>2, ConcatProperties DEF Listed, Joins

DebugAt(k) ==
  IF k <= 4 THEN k - 1 ELSE IF k <= 7 THEN 2 * k - 6
  ELSE IF k = 8 THEN 12 ELSE 4 * k - 22

DebugLength(k) == IF k <= 4 THEN 1 ELSE IF k \in {5, 6, 8} THEN 2 ELSE 4

DebugPuts(w, s) ==
  /\ DOMAIN w = 1 .. 30
  /\ \A k \in 1 .. 30 : w[k][1] = DebugAt(k) /\ DOMAIN w[k][2] = 1 .. DebugLength(k)
  /\ w[1] = F!PutByte(0, 211) /\ w[2] = F!PutByte(1, 145)
  /\ w[3] = F!PutByte(2, 1) /\ w[4] = F!PutByte(3, 1) /\ w[5] = F!PutU16(4, 96)
  /\ w[6] = F!PutU16(6, s.sequence) /\ w[7] = F!PutU32(8, s.timestamp)
  /\ w[8] = F!PutU16(12, s.status)
  /\ \A k \in 9 .. 21 : w[k] = F!PutU32(DebugAt(k), s.floats[k - 8])
  /\ \A k \in 22 .. 30 : w[k] = F!PutU32(DebugAt(k), s.counters[k - 21])

LEMMA DebugLayout == \A s : DebugPuts(F!DebugWrites(s), s)
<1> TAKE s
<1> DEFINE a == << F!PutByte(0, 211), F!PutByte(1, 145), F!PutByte(2, 1), F!PutByte(3, 1),
                   F!PutU16(4, 96), F!PutU16(6, s.sequence), F!PutU32(8, s.timestamp),
                   F!PutU16(12, s.status) >>
           b == [i \in 1 .. 13 |-> F!PutU32(10 + 4 * i, s.floats[i])]
           c == [i \in 1 .. 9 |-> F!PutU32(62 + 4 * i, s.counters[i])]
           w == F!DebugWrites(s)
<1>1. w = (a \o b) \o c
  BY Zenon DEF F!DebugWrites
<1>2. Listed(a, 8) /\ Listed(b, 13) /\ Listed(c, 9)
  BY DEF Listed
<1>3. /\ a[1] = F!PutByte(0, 211) /\ a[2] = F!PutByte(1, 145) /\ a[3] = F!PutByte(2, 1)
      /\ a[4] = F!PutByte(3, 1) /\ a[5] = F!PutU16(4, 96)
      /\ a[6] = F!PutU16(6, s.sequence) /\ a[7] = F!PutU32(8, s.timestamp)
      /\ a[8] = F!PutU16(12, s.status)
  OBVIOUS
<1>4. /\ \A k \in 9 .. 21 : b[k - 8] = F!PutU32(DebugAt(k), s.floats[k - 8])
      /\ \A k \in 22 .. 30 : c[k - 21] = F!PutU32(DebugAt(k), s.counters[k - 21])
  <2>1. \A k \in 9 .. 21 : k - 8 \in 1 .. 13 /\ 10 + 4 * (k - 8) = DebugAt(k)
    BY DEF DebugAt
  <2>2. \A k \in 22 .. 30 : k - 21 \in 1 .. 9 /\ 62 + 4 * (k - 21) = DebugAt(k)
    BY DEF DebugAt
  <2> QED BY <2>1, <2>2
<1> HIDE DEF a, b, c, w
<1> DEFINE ab == a \o b
<1>5. Listed(ab, 21) /\ \A i \in 1 .. 21 : ab[i] = IF i <= 8 THEN a[i] ELSE b[i - 8]
  <2>1. 8 \in Nat /\ 13 \in Nat /\ 21 = 8 + 13
    OBVIOUS
  <2>2. Joins(a \o b, a, 8, b, 21)
    BY <1>2, <2>1, Joined, Zenon
  <2> QED BY <2>2 DEF Joins
<1> HIDE DEF ab
<1>6. Listed(w, 30) /\ \A i \in 1 .. 30 : w[i] = IF i <= 21 THEN ab[i] ELSE c[i - 21]
  <2>1. 21 \in Nat /\ 9 \in Nat /\ 30 = 21 + 9
    OBVIOUS
  <2>2. w = ab \o c
    BY <1>1, Zenon DEF ab
  <2>3. Joins(ab \o c, ab, 21, c, 30)
    BY <1>2, <1>5, <2>1, Joined, Zenon
  <2> QED BY <2>2, <2>3 DEF Joins
<1>7. \A k \in 1 .. 30 : w[k] = IF k <= 8 THEN a[k] ELSE IF k <= 21 THEN b[k - 8] ELSE c[k - 21]
  <2> TAKE k \in 1 .. 30
  <2>1. k <= 21 => k \in 1 .. 21
    OBVIOUS
  <2> QED BY <1>5, <1>6, <2>1
<1>8. /\ \A k \in 9 .. 21 : w[k] = F!PutU32(DebugAt(k), s.floats[k - 8])
      /\ \A k \in 22 .. 30 : w[k] = F!PutU32(DebugAt(k), s.counters[k - 21])
  BY <1>4, <1>7
<1>9. /\ w[1] = F!PutByte(0, 211) /\ w[2] = F!PutByte(1, 145) /\ w[3] = F!PutByte(2, 1)
      /\ w[4] = F!PutByte(3, 1) /\ w[5] = F!PutU16(4, 96)
      /\ w[6] = F!PutU16(6, s.sequence) /\ w[7] = F!PutU32(8, s.timestamp)
      /\ w[8] = F!PutU16(12, s.status)
  BY <1>3, <1>7
<1>10. \A k \in 1 .. 30 : w[k][1] = DebugAt(k) /\ DOMAIN w[k][2] = 1 .. DebugLength(k)
  <2> TAKE k \in 1 .. 30
  <2>1. CASE k >= 9
    <3>1. \E v : w[k] = F!PutU32(DebugAt(k), v)
      BY <1>8, <2>1
    <3>2. DebugLength(k) = 4
      BY <2>1 DEF DebugLength
    <3> QED BY <3>1, <3>2 DEF F!PutU32
  <2>2. CASE k \in {1, 2, 3, 4}
    <3>1. \E v : w[k] = F!PutByte(k - 1, v)
      BY <1>9, <2>2
    <3>2. DebugLength(k) = 1 /\ DebugAt(k) = k - 1
      BY <2>2 DEF DebugLength, DebugAt
    <3> QED BY <3>1, <3>2 DEF F!PutByte
  <2>3. CASE k \in {5, 6, 8}
    <3>1. DebugLength(k) = 2 /\ DebugAt(5) = 4 /\ DebugAt(6) = 6 /\ DebugAt(8) = 12
      BY <2>3 DEF DebugLength, DebugAt
    <3>2. \E v : w[k] = F!PutU16(DebugAt(k), v)
      BY <1>9, <2>3, <3>1
    <3> QED BY <3>1, <3>2 DEF F!PutU16
  <2>4. CASE k = 7
    BY <1>9, <2>4 DEF DebugAt, DebugLength, F!PutU32
  <2>5. k >= 9 \/ k \in {1, 2, 3, 4} \/ k \in {5, 6, 8} \/ k = 7
    OBVIOUS
  <2> QED BY <2>1, <2>2, <2>3, <2>4, <2>5
<1>11. DOMAIN w = 1 .. 30
  BY <1>6 DEF Listed
<1>12. DebugPuts(w, s)
  BY <1>8, <1>9, <1>10, <1>11 DEF DebugPuts
<1> QED BY <1>12 DEF w

(* The writes of an encoder do not overlap: a byte is from the write it is in. *)
Laid(writes, n, at, length) ==
  /\ n \in Nat /\ DOMAIN writes = 1 .. n
  /\ \A k \in 1 .. n : writes[k][1] = at[k] /\ DOMAIN writes[k][2] = 1 .. length[k]
  /\ at \in [1 .. n -> Nat] /\ length \in [1 .. n -> Nat]
  /\ \A k, l \in 1 .. n : k < l => at[k] + length[k] <= at[l]

ByteOf(f, i, writes, n, at, length, k, j) ==
  /\ Laid(writes, n, at, length) /\ i \in DOMAIN f
  /\ k \in 1 .. n /\ j \in 1 .. length[k] /\ i = at[k] + j - 1

LEMMA WrittenAt ==
  ASSUME NEW n, NEW at, NEW length, NEW writes, NEW f, NEW i, NEW k, NEW j,
         ByteOf(f, i, writes, n, at, length, k, j)
  PROVE  F!Apply(f, writes)[i] = writes[k][2][j]
<1> USE DEF ByteOf
<1> DEFINE a == at[k]
           c == length[k]
<1>1. DOMAIN writes = 1 .. n /\ n \in Nat /\ a \in Nat /\ c \in Nat /\ j \in 1 .. c /\ i = a + j - 1
  BY DEF Laid
<1>2. writes[k][1] = a /\ DOMAIN writes[k][2] = 1 .. c
  BY DEF Laid
<1>3. ASSUME NEW l \in 1 .. n, l # k, F!Covers(writes[l], i) PROVE FALSE
  <2> DEFINE b == at[l]
             d == length[l]
  <2>1. b \in Nat /\ d \in Nat /\ (l < k \/ k < l)
    BY <1>3 DEF Laid
  <2>2. l < k => b + d <= a
    BY DEF Laid
  <2>3. k < l => a + c <= b
    BY DEF Laid
  <2>4. writes[l][1] = b /\ DOMAIN writes[l][2] = 1 .. d
    BY DEF Laid
  <2> HIDE DEF a, b, c, d
  <2>5. i - b + 1 \in 1 .. d
    BY <1>3, <2>4, Zenon DEF F!Covers
  <2> QED BY <1>1, <2>1, <2>2, <2>3, <2>5
<1> HIDE DEF a, c
<1>4. i - a + 1 = j
  BY <1>1
<1>5. F!Covers(writes[k], i)
  BY <1>1, <1>2, <1>4 DEF F!Covers
<1>6. OnlyIn(writes, n, i, k)
  BY <1>1, <1>3, <1>5 DEF OnlyIn
<1>7. F!Apply(f, writes)[i] = writes[k][2][i - writes[k][1] + 1]
  BY <1>1, <1>6, ApplyAt
<1> QED BY <1>2, <1>4, <1>7, Zenon

LEMMA WrittenBytes ==
  ASSUME NEW n, NEW at, NEW length, NEW writes, Laid(writes, n, at, length),
         \A k \in 1 .. n : \A j \in 1 .. length[k] : writes[k][2][j] \in Bytes,
         NEW f, NEW i \in DOMAIN f, i \in Nat, f[i] \in Bytes
  PROVE  F!Apply(f, writes)[i] \in Bytes
<1>1. DOMAIN writes = 1 .. n /\ n \in Nat
  BY DEF Laid
<1>2. CASE \E k \in 1 .. n : F!Covers(writes[k], i)
  <2>1. PICK k \in 1 .. n : F!Covers(writes[k], i)
    BY <1>2
  <2> DEFINE a == at[k]
             j == i - a + 1
  <2>2. a \in Nat /\ writes[k][1] = a /\ DOMAIN writes[k][2] = 1 .. length[k]
    BY DEF Laid
  <2> HIDE DEF a
  <2>3. j \in 1 .. length[k]
    BY <2>1, <2>2, Zenon DEF F!Covers
  <2>4. i = a + j - 1
    BY <2>2
  <2> HIDE DEF j
  <2>5. F!Apply(f, writes)[i] = writes[k][2][j]
    <3>1. ByteOf(f, i, writes, n, at, length, k, j)
      BY <2>3, <2>4, Zenon DEF a, ByteOf
    <3> QED BY <3>1, WrittenAt
  <2> QED BY <2>3, <2>5
<1>3. CASE ~\E k \in 1 .. n : F!Covers(writes[k], i)
  <2>1. F!Apply(f, writes)[i] = f[i]
    <3>1. Untouched(writes, n, i)
      BY <1>1, <1>3 DEF Untouched
    <3> QED BY <1>1, <3>1, ApplyElse
  <2> QED BY <2>1
<1> QED BY <1>2, <1>3

(* What closes a frame: the CRC, which leaves the bytes it covers alone. *)
LEMMA Closed ==
  ASSUME NEW z \in Nat, z > 4, NEW body \in [0 .. z - 1 -> Bytes]
  PROVE  LET e == F!Apply(body, <<F!PutU16(z - 2, F!Crc(body, 2, z - 4))>>) IN
         /\ e \in [0 .. z - 1 -> Bytes]
         /\ \A i \in 0 .. z - 3 : e[i] = body[i]
         /\ e[z - 2] + 256 * e[z - 1] = F!Crc(e, 2, z - 4)
<1> DEFINE crc == F!Crc(body, 2, z - 4)
           writes == <<F!PutU16(z - 2, crc)>>
           e == F!Apply(body, writes)
           at == [k \in 1 .. 1 |-> z - 2]
           length == [k \in 1 .. 1 |-> 2]
           covered == [n \in 1 .. z - 4 |-> body[2 + n - 1]]
<1>1. crc \in Words
  <2>1. z - 4 \in Nat /\ \A n \in 1 .. z - 4 : 2 + n - 1 \in 0 .. z - 1
    OBVIOUS
  <2>2. covered \in [1 .. z - 4 -> Bytes]
    BY <2>1
  <2> HIDE DEF covered
  <2>3. F!CrcOf(covered) \in Words
    BY <2>1, <2>2, CrcIs
  <2> QED BY <2>3, Zenon DEF F!Crc, covered
<1> HIDE DEF crc, covered
<1>2. /\ DOMAIN writes = 1 .. 1 /\ writes[1][1] = z - 2 /\ DOMAIN writes[1][2] = 1 .. 2
      /\ writes[1][2][1] = crc % 256 /\ writes[1][2][2] = crc \div 256
  BY DEF F!PutU16
<1> HIDE DEF writes
<1>3. Laid(writes, 1, at, length)
  BY <1>2 DEF Laid
<1>4. \A k \in 1 .. 1 : \A j \in 1 .. length[k] : writes[k][2][j] \in Bytes
  BY <1>1, <1>2, WordIsBytes
<1>5. \A i \in 0 .. z - 1 : e[i] \in Bytes
  BY <1>3, <1>4, WrittenBytes
<1>6. DOMAIN e = 0 .. z - 1 /\ e = [i \in 0 .. z - 1 |-> e[i]]
  BY DEF F!Apply
<1>7. ASSUME NEW i \in 0 .. z - 3 PROVE e[i] = body[i]
  <2>1. Untouched(writes, 1, i)
    BY <1>2 DEF Untouched, F!Covers
  <2> QED BY <2>1, ApplyElse
<1>8. e[z - 2] = crc % 256
  <2>1. ByteOf(body, z - 2, writes, 1, at, length, 1, 1)
    BY <1>3 DEF ByteOf
  <2> QED BY <1>2, <2>1, WrittenAt
<1>9. e[z - 1] = crc \div 256
  <2>1. ByteOf(body, z - 1, writes, 1, at, length, 1, 2)
    BY <1>3 DEF ByteOf
  <2> QED BY <1>2, <2>1, WrittenAt
<1> HIDE DEF e
<1>10. F!Crc(e, 2, z - 4) = crc
  <2>1. \A n \in 1 .. z - 4 : e[2 + n - 1] = body[2 + n - 1]
    BY <1>7
  <2>2. [n \in 1 .. z - 4 |-> e[2 + n - 1]] = [n \in 1 .. z - 4 |-> body[2 + n - 1]]
    BY <2>1
  <2> QED BY <2>2, Zenon DEF F!Crc, crc
<1>11. e[z - 2] + 256 * e[z - 1] = crc
  <2>1. crc \in Int
    BY <1>1, SizesAre, SMT DEF Words
  <2> QED BY <1>8, <1>9, <2>1, WordIsBytes
<1> QED BY <1>5, <1>6, <1>7, <1>10, <1>11, Zenon DEF e, writes, crc

(* What is written as a number is read as that number. *)
Read(f, at) == f[at] + 256 * f[at + 1]
Pair(f, at) == <<Read(f, at + 2), Read(f, at)>>

LEMMA ReadByte ==
  ASSUME NEW n, NEW at, NEW length, NEW writes, Laid(writes, n, at, length),
         NEW f, NEW k \in 1 .. n, NEW p \in DOMAIN f, NEW v,
         writes[k] = F!PutByte(p, v)
  PROVE  F!Apply(f, writes)[p] = v
<1>1. writes[k][1] = p /\ DOMAIN writes[k][2] = 1 .. 1 /\ writes[k][2][1] = v
  BY DEF F!PutByte
<1>2. at[k] = p /\ p \in Nat /\ 1 .. 1 = 1 .. length[k]
  BY <1>1 DEF Laid
<1>3. ByteOf(f, p, writes, n, at, length, k, 1)
  <2>1. 1 \in 1 .. length[k] /\ p = at[k] + 1 - 1
    BY <1>2
  <2> QED BY <2>1 DEF ByteOf
<1> QED BY <1>1, <1>3, WrittenAt

LEMMA ReadU16 ==
  ASSUME NEW n, NEW at, NEW length, NEW writes, Laid(writes, n, at, length),
         NEW f, NEW k \in 1 .. n, NEW p \in DOMAIN f, p + 1 \in DOMAIN f, NEW v \in Words,
         writes[k] = F!PutU16(p, v)
  PROVE  Read(F!Apply(f, writes), p) = v
<1> DEFINE b == F!Apply(f, writes)
<1>1. /\ writes[k][1] = p /\ DOMAIN writes[k][2] = 1 .. 2
      /\ writes[k][2][1] = v % 256 /\ writes[k][2][2] = v \div 256
  BY DEF F!PutU16
<1>2. at[k] = p /\ p \in Nat /\ 1 .. 2 = 1 .. length[k]
  BY <1>1 DEF Laid
<1>3. b[p] = v % 256
  <2>1. 1 \in 1 .. length[k] /\ p = at[k] + 1 - 1
    BY <1>2
  <2>2. ByteOf(f, p, writes, n, at, length, k, 1)
    BY <2>1 DEF ByteOf
  <2> QED BY <1>1, <2>2, WrittenAt
<1>4. b[p + 1] = v \div 256
  <2>1. 2 \in 1 .. length[k] /\ p + 1 = at[k] + 2 - 1
    BY <1>2
  <2>2. ByteOf(f, p + 1, writes, n, at, length, k, 2)
    BY <2>1 DEF ByteOf
  <2> QED BY <1>1, <2>2, WrittenAt
<1> HIDE DEF b
<1>5. v \in Int
  BY SizesAre, SMT DEF Words
<1> QED BY <1>3, <1>4, <1>5, WordIsBytes DEF Read, b

LEMMA ReadU32 ==
  ASSUME NEW n, NEW at, NEW length, NEW writes, Laid(writes, n, at, length),
         NEW f, NEW k \in 1 .. n, NEW p \in DOMAIN f,
         p + 1 \in DOMAIN f, p + 2 \in DOMAIN f, p + 3 \in DOMAIN f,
         NEW v \in Words \X Words,
         writes[k] = F!PutU32(p, v)
  PROVE  Pair(F!Apply(f, writes), p) = v
<1> DEFINE b == F!Apply(f, writes)
           low == v[2]
           high == v[1]
<1>1. /\ writes[k][1] = p /\ DOMAIN writes[k][2] = 1 .. 4
      /\ writes[k][2][1] = low % 256 /\ writes[k][2][2] = low \div 256
      /\ writes[k][2][3] = high % 256 /\ writes[k][2][4] = high \div 256
  BY DEF F!PutU32
<1>2. at[k] = p /\ p \in Nat /\ 1 .. 4 = 1 .. length[k]
  <2> HIDE DEF low, high
  <2>1. writes[k][1] = p /\ DOMAIN writes[k][2] = 1 .. 4
    BY <1>1
  <2> QED BY <2>1 DEF Laid
<1>3. b[p] = low % 256
  <2>1. 1 \in 1 .. length[k] /\ p = at[k] + 1 - 1
    BY <1>2
  <2>2. ByteOf(f, p, writes, n, at, length, k, 1)
    BY <2>1 DEF ByteOf
  <2> QED BY <1>1, <2>2, WrittenAt
<1>4. b[p + 1] = low \div 256
  <2>1. 2 \in 1 .. length[k] /\ p + 1 = at[k] + 2 - 1
    BY <1>2
  <2>2. ByteOf(f, p + 1, writes, n, at, length, k, 2)
    BY <2>1 DEF ByteOf
  <2> QED BY <1>1, <2>2, WrittenAt
<1>5. b[p + 2] = high % 256
  <2>1. 3 \in 1 .. length[k] /\ p + 2 = at[k] + 3 - 1
    BY <1>2
  <2>2. ByteOf(f, p + 2, writes, n, at, length, k, 3)
    BY <2>1 DEF ByteOf
  <2> QED BY <1>1, <2>2, WrittenAt
<1>6. b[p + 3] = high \div 256
  <2>1. 4 \in 1 .. length[k] /\ p + 3 = at[k] + 4 - 1
    BY <1>2
  <2>2. ByteOf(f, p + 3, writes, n, at, length, k, 4)
    BY <2>1 DEF ByteOf
  <2> QED BY <1>1, <2>2, WrittenAt
<1>7. v = <<high, low>> /\ high \in Words /\ low \in Words
  OBVIOUS
<1> HIDE DEF b, low, high
<1>8. high \in Int /\ low \in Int
  BY <1>7, SizesAre, SMT DEF Words
<1> DEFINE q == p + 2
<1>9. q + 1 = p + 3
  BY <1>2
<1>10. Read(b, p) = low
  BY <1>3, <1>4, <1>8, WordIsBytes DEF Read
<1>11. Read(b, p + 2) = high
  <2>1. b[q] = high % 256 /\ b[q + 1] = high \div 256
    BY <1>5, <1>6, <1>9, Zenon
  <2> HIDE DEF q
  <2>2. Read(b, q) = high
    BY <1>8, <2>1, WordIsBytes DEF Read
  <2> QED BY <2>2 DEF q
<1> QED BY <1>7, <1>10, <1>11, Zenon DEF Pair, b

LEMMA ReadI16 ==
  ASSUME NEW n, NEW at, NEW length, NEW writes, Laid(writes, n, at, length),
         NEW f, NEW k \in 1 .. n, NEW p \in DOMAIN f, p + 1 \in DOMAIN f,
         NEW v, NEW scale, F!EncodeI16(v, scale) \in Short,
         writes[k] = F!PutI16(p, v, scale)
  PROVE  AsShort(Read(F!Apply(f, writes), p)) = F!EncodeI16(v, scale)
<1> DEFINE code == F!EncodeI16(v, scale)
           u == code % Whole
<1>1. u \in Words /\ AsShort(u) = code
  BY CastIs
<1> HIDE DEF code
<1>2. writes[k] = F!PutU16(p, u)
  BY Zenon DEF F!PutI16, Whole, code
<1> HIDE DEF u
<1>3. Read(F!Apply(f, writes), p) = u
  BY <1>1, <1>2, ReadU16
<1> QED BY <1>1, <1>3 DEF code

(* Bytes are what the encoders write. *)
OfBytes(write) == \A j \in DOMAIN write[2] : write[2][j] \in Bytes

LEMMA PutsAreBytes ==
  /\ \A p, v : v \in Bytes => OfBytes(F!PutByte(p, v))
  /\ \A p, v : v \in Words => OfBytes(F!PutU16(p, v))
  /\ \A p, v : v \in Words \X Words => OfBytes(F!PutU32(p, v))
  /\ \A p, v, scale : F!EncodeI16(v, scale) \in Short => OfBytes(F!PutI16(p, v, scale))
<1>1. \A p, v : v \in Bytes => OfBytes(F!PutByte(p, v))
  BY DEF OfBytes, F!PutByte
<1>2. \A p, v : v \in Words => OfBytes(F!PutU16(p, v))
  <2> SUFFICES ASSUME NEW p, NEW v \in Words PROVE OfBytes(F!PutU16(p, v))
    OBVIOUS
  <2> DEFINE a == v % 256
             b == v \div 256
  <2>1. a \in Bytes /\ b \in Bytes
    BY WordIsBytes
  <2> HIDE DEF a, b
  <2>2. F!PutU16(p, v) = <<p, <<a, b>>>>
    BY DEF F!PutU16, a, b
  <2> QED BY <2>1, <2>2 DEF OfBytes
<1>3. \A p, v : v \in Words \X Words => OfBytes(F!PutU32(p, v))
  <2> SUFFICES ASSUME NEW p, NEW v \in Words \X Words PROVE OfBytes(F!PutU32(p, v))
    OBVIOUS
  <2> DEFINE low == v[2]
             high == v[1]
             a == low % 256
             b == low \div 256
             c == high % 256
             d == high \div 256
  <2>1. low \in Words /\ high \in Words
    OBVIOUS
  <2> HIDE DEF low, high
  <2>2. a \in Bytes /\ b \in Bytes /\ c \in Bytes /\ d \in Bytes
    BY <2>1, WordIsBytes
  <2>3. F!PutU32(p, v) = <<p, <<a, b, c, d>>>>
    BY DEF F!PutU32, low, high
  <2> HIDE DEF a, b, c, d
  <2> QED BY <2>2, <2>3 DEF OfBytes
<1>4. \A p, v, scale : F!EncodeI16(v, scale) \in Short => OfBytes(F!PutI16(p, v, scale))
  <2> SUFFICES ASSUME NEW p, NEW v, NEW scale, F!EncodeI16(v, scale) \in Short
               PROVE  OfBytes(F!PutI16(p, v, scale))
    BY Zenon
  <2> DEFINE u == F!EncodeI16(v, scale) % Whole
  <2>1. u \in Words
    BY CastIs
  <2>2. F!PutI16(p, v, scale) = F!PutU16(p, u)
    BY Zenon DEF F!PutI16, Whole
  <2> HIDE DEF u
  <2> QED BY <1>2, <2>1, <2>2
<1> QED BY <1>1, <1>2, <1>3, <1>4

(* What the encoders are given. *)
LEMMA SampleIs ==
  ASSUME NEW s \in Samples
  PROVE  /\ s.kind \in {"telemetry", "debug"}
         /\ s.sequence \in Words /\ s.timestamp \in Words \X Words /\ s.status \in Words
         /\ s.kind = "telemetry" =>
              /\ \A i \in 1 .. 3 : /\ s.euler[i] \in Quantity /\ s.gyro[i] \in Quantity
                                   /\ s.accel[i] \in Quantity
              /\ \A i \in 1 .. 4 : s.quaternion[i] \in Quantity
         /\ s.kind = "debug" =>
              /\ \A i \in 1 .. 13 : s.floats[i] \in Words \X Words
              /\ \A i \in 1 .. 9 : s.counters[i] \in Words \X Words
<1>1. Word = Words
  BY Zenon DEF Word, Words, Whole
<1> DEFINE T == [kind : {"telemetry"}, sequence : Words, timestamp : Words \X Words, status : Words,
                 euler : [1 .. 3 -> Quantity], gyro : [1 .. 3 -> Quantity],
                 accel : [1 .. 3 -> Quantity], quaternion : [1 .. 4 -> Quantity]]
           B == [kind : {"debug"}, sequence : Words, timestamp : Words \X Words, status : Words,
                 floats : [1 .. 13 -> Words \X Words], counters : [1 .. 9 -> Words \X Words]]
<1>2. Samples \subseteq T \cup B
  BY <1>1, FrameAssumption
<1>3. CASE s \in T
  BY <1>3
<1>4. CASE s \in B
  BY <1>4
<1> HIDE DEF T, B
<1> QED BY <1>2, <1>3, <1>4

(* What a frame holds, read at the documented offsets. *)
TelemetryHeld(f, s) ==
  /\ f[0] = 165 /\ f[1] = 90 /\ f[2] = 2 /\ f[3] = 34
  /\ Read(f, 4) = s.sequence /\ Pair(f, 6) = s.timestamp
  /\ Read(f, 10) = s.status % 512
  /\ \A i \in 1 .. 3 :
       /\ F!NearestAngle(AsShort(Read(f, 10 + 2 * i)), s.euler[i])
       /\ F!Nearest(AsShort(Read(f, 16 + 2 * i)), s.gyro[i], 10)
       /\ F!Nearest(AsShort(Read(f, 22 + 2 * i)), s.accel[i], 1000)
  /\ \A i \in 1 .. 4 : F!Nearest(AsShort(Read(f, 28 + 2 * i)), s.quaternion[i], 32767)

LEMMA TelemetryBody ==
  ASSUME NEW s \in Samples, s.kind = "telemetry",
         NEW z \in Nat, z = 40, NEW f \in [0 .. z - 1 -> Bytes]
  PROVE  LET b == F!Apply(f, F!TelemetryWrites(s)) IN
         b \in [0 .. z - 1 -> Bytes] /\ TelemetryHeld(b, s)
<1> DEFINE w == F!TelemetryWrites(s)
           b == F!Apply(f, w)
           n == 20
           at == [k \in 1 .. n |-> TelemetryAt(k)]
           length == [k \in 1 .. n |-> TelemetryLength(k)]
           scale == 32767
           status == s.status % 512
<1> HIDE DEF w
<1>0. TelemetryPuts(w, s)
  BY TelemetryLayout DEF w
<1>1. /\ w[1] = F!PutByte(0, 165) /\ w[2] = F!PutByte(1, 90)
      /\ w[3] = F!PutByte(2, 2) /\ w[4] = F!PutByte(3, 34)
      /\ w[5] = F!PutU16(4, s.sequence) /\ w[6] = F!PutU32(6, s.timestamp)
      /\ w[7] = F!PutU16(10, status)
      /\ \A i \in 1 .. 3 :
           /\ w[7 + i] = F!PutI16(10 + 2 * i, F!WrapDeg(s.euler[i]), 100)
           /\ w[10 + i] = F!PutI16(16 + 2 * i, s.gyro[i], 10)
           /\ w[13 + i] = F!PutI16(22 + 2 * i, s.accel[i], 1000)
      /\ \A i \in 1 .. 4 : w[16 + i] = F!PutI16(28 + 2 * i, s.quaternion[i], scale)
  BY <1>0 DEF TelemetryPuts
<1>2. Laid(w, n, at, length)
  <2>1. \A k \in 1 .. n : TelemetryAt(k) \in Nat /\ TelemetryLength(k) \in Nat
    BY DEF TelemetryAt, TelemetryLength
  <2>2. \A k, l \in 1 .. n : k < l => TelemetryAt(k) + TelemetryLength(k) <= TelemetryAt(l)
    BY DEF TelemetryAt, TelemetryLength
  <2>3. DOMAIN w = 1 .. n /\ \A k \in 1 .. n : w[k][1] = TelemetryAt(k) /\ DOMAIN w[k][2] = 1 .. TelemetryLength(k)
    BY <1>0 DEF TelemetryPuts
  <2> QED BY <2>1, <2>2, <2>3 DEF Laid
<1>3. scale \in Int /\ 10 \in Int /\ 1000 \in Int
  OBVIOUS
<1>4. s.sequence \in Words /\ s.timestamp \in Words \X Words /\ s.status \in Words
  BY SampleIs
<1>5. status \in Words
  BY <1>4, SizesAre, SMT DEF Words
<1>6. \A i \in 1 .. 3 :
        /\ F!EncodeI16(F!WrapDeg(s.euler[i]), 100) \in Short
        /\ F!NearestAngle(F!EncodeI16(F!WrapDeg(s.euler[i]), 100), s.euler[i])
        /\ F!EncodeI16(s.gyro[i], 10) \in Short
        /\ F!Nearest(F!EncodeI16(s.gyro[i], 10), s.gyro[i], 10)
        /\ F!EncodeI16(s.accel[i], 1000) \in Short
        /\ F!Nearest(F!EncodeI16(s.accel[i], 1000), s.accel[i], 1000)
  <2> TAKE i \in 1 .. 3
  <2>1. s.euler[i] \in Quantity /\ s.gyro[i] \in Quantity /\ s.accel[i] \in Quantity
    BY SampleIs
  <2> QED BY <1>3, <2>1, AngleIs, EncodeIs
<1> HIDE DEF scale, status
<1>7. \A i \in 1 .. 4 : /\ F!EncodeI16(s.quaternion[i], scale) \in Short
                        /\ F!Nearest(F!EncodeI16(s.quaternion[i], scale), s.quaternion[i], scale)
  <2> TAKE i \in 1 .. 4
  <2>1. s.quaternion[i] \in Quantity
    BY SampleIs
  <2> QED BY <1>3, <2>1, EncodeIs
<1> HIDE DEF at, length
<1>8. \A k \in 1 .. n : OfBytes(w[k])
  <2>1. OfBytes(w[1]) /\ OfBytes(w[2]) /\ OfBytes(w[3]) /\ OfBytes(w[4])
    <3> 165 \in Bytes /\ 90 \in Bytes /\ 2 \in Bytes /\ 34 \in Bytes
      BY SMT DEF Bytes
    <3> QED BY <1>1, PutsAreBytes
  <2>2. OfBytes(w[5]) /\ OfBytes(w[6]) /\ OfBytes(w[7])
    BY <1>1, <1>4, <1>5, PutsAreBytes
  <2>3. \A i \in 1 .. 3 : OfBytes(w[7 + i]) /\ OfBytes(w[10 + i]) /\ OfBytes(w[13 + i])
    BY <1>1, <1>6, PutsAreBytes
  <2>4. \A i \in 1 .. 4 : OfBytes(w[16 + i])
    BY <1>1, <1>7, PutsAreBytes
  <2> TAKE k \in 1 .. n
  <2>5. CASE k \in 1 .. 7
    BY <2>1, <2>2, <2>5
  <2>6. CASE k \in 8 .. 16
    <3>1. \E i \in 1 .. 3 : k = 7 + i \/ k = 10 + i \/ k = 13 + i
      BY <2>6
    <3> QED BY <2>3, <3>1
  <2>7. CASE k \in 17 .. 20
    <3>1. \E i \in 1 .. 4 : k = 16 + i
      BY <2>7
    <3> QED BY <2>4, <3>1
  <2> QED BY <2>5, <2>6, <2>7
<1>9. b \in [0 .. z - 1 -> Bytes]
  <2>1. \A k \in 1 .. n : \A j \in 1 .. length[k] : w[k][2][j] \in Bytes
    BY <1>2, <1>8 DEF Laid, OfBytes
  <2>2. ASSUME NEW i \in 0 .. z - 1 PROVE b[i] \in Bytes
    BY <1>2, <2>1, WrittenBytes
  <2>3. b = [i \in 0 .. z - 1 |-> b[i]]
    BY DEF F!Apply
  <2> QED BY <2>2, <2>3
<1>10. \A p \in 0 .. 37 : p \in DOMAIN f /\ p + 1 \in DOMAIN f
  OBVIOUS

<1>11. b[0] = 165 /\ b[1] = 90 /\ b[2] = 2 /\ b[3] = 34
  <2>1. b[0] = 165
    BY <1>1, <1>2, <1>10, ReadByte
  <2>2. b[1] = 90
    BY <1>1, <1>2, <1>10, ReadByte
  <2>3. b[2] = 2
    BY <1>1, <1>2, <1>10, ReadByte
  <2>4. b[3] = 34
    BY <1>1, <1>2, <1>10, ReadByte
  <2> QED BY <2>1, <2>2, <2>3, <2>4
<1>12. /\ Read(b, 4) = s.sequence /\ Pair(b, 6) = s.timestamp
       /\ Read(b, 10) = status
  <2>1. Read(b, 4) = s.sequence
    BY <1>1, <1>2, <1>4, <1>10, ReadU16
  <2>2. Pair(b, 6) = s.timestamp
    <3>1. 6 \in DOMAIN f /\ 6 + 1 \in DOMAIN f /\ 6 + 2 \in DOMAIN f /\ 6 + 3 \in DOMAIN f
      OBVIOUS
    <3>2. w[6] = F!PutU32(6, s.timestamp) /\ 6 \in 1 .. n
      BY <1>1
    <3> QED BY <1>2, <1>4, <3>1, <3>2, ReadU32
  <2>3. Read(b, 10) = status
    BY <1>1, <1>2, <1>5, <1>10, ReadU16
  <2> QED BY <2>1, <2>2, <2>3
<1>13. ASSUME NEW i \in 1 .. 3
       PROVE  /\ AsShort(Read(b, 10 + 2 * i)) = F!EncodeI16(F!WrapDeg(s.euler[i]), 100)
              /\ AsShort(Read(b, 16 + 2 * i)) = F!EncodeI16(s.gyro[i], 10)
              /\ AsShort(Read(b, 22 + 2 * i)) = F!EncodeI16(s.accel[i], 1000)
  <2> DEFINE p == 10 + 2 * i
             q == 16 + 2 * i
             r == 22 + 2 * i
  <2>1. /\ p \in 0 .. 37 /\ q \in 0 .. 37 /\ r \in 0 .. 37
        /\ 7 + i \in 1 .. n /\ 10 + i \in 1 .. n /\ 13 + i \in 1 .. n
    OBVIOUS
  <2>2. /\ w[7 + i] = F!PutI16(p, F!WrapDeg(s.euler[i]), 100)
        /\ w[10 + i] = F!PutI16(q, s.gyro[i], 10)
        /\ w[13 + i] = F!PutI16(r, s.accel[i], 1000)
    BY <1>1
  <2> HIDE DEF p, q, r, n
  <2>3. AsShort(Read(b, p)) = F!EncodeI16(F!WrapDeg(s.euler[i]), 100)
    BY <1>2, <1>6, <1>10, <2>1, <2>2, ReadI16
  <2>4. AsShort(Read(b, q)) = F!EncodeI16(s.gyro[i], 10)
    BY <1>2, <1>6, <1>10, <2>1, <2>2, ReadI16
  <2>5. AsShort(Read(b, r)) = F!EncodeI16(s.accel[i], 1000)
    BY <1>2, <1>6, <1>10, <2>1, <2>2, ReadI16
  <2> QED BY <2>3, <2>4, <2>5 DEF p, q, r
<1>14. ASSUME NEW i \in 1 .. 4
       PROVE  AsShort(Read(b, 28 + 2 * i)) = F!EncodeI16(s.quaternion[i], scale)
  <2> DEFINE p == 28 + 2 * i
  <2>1. p \in 0 .. 37 /\ 16 + i \in 1 .. n
    OBVIOUS
  <2>2. w[16 + i] = F!PutI16(p, s.quaternion[i], scale)
    BY <1>1
  <2> HIDE DEF p, n
  <2>3. AsShort(Read(b, p)) = F!EncodeI16(s.quaternion[i], scale)
    BY <1>2, <1>7, <1>10, <2>1, <2>2, ReadI16
  <2> QED BY <2>3 DEF p
<1> HIDE DEF b
<1>15. TelemetryHeld(b, s)
  <2>1. \A i \in 1 .. 3 :
          /\ F!NearestAngle(AsShort(Read(b, 10 + 2 * i)), s.euler[i])
          /\ F!Nearest(AsShort(Read(b, 16 + 2 * i)), s.gyro[i], 10)
          /\ F!Nearest(AsShort(Read(b, 22 + 2 * i)), s.accel[i], 1000)
    BY <1>6, <1>13
  <2>2. \A i \in 1 .. 4 : F!Nearest(AsShort(Read(b, 28 + 2 * i)), s.quaternion[i], scale)
    BY <1>7, <1>14
  <2> QED BY <1>11, <1>12, <2>1, <2>2 DEF TelemetryHeld, scale, status
<1> QED BY <1>9, <1>15 DEF b, w

DebugHeld(f, s) ==
  /\ f[0] = 211 /\ f[1] = 145 /\ f[2] = 1 /\ f[3] = 1 /\ f[4] = 96 /\ f[5] = 0
  /\ Read(f, 6) = s.sequence /\ Pair(f, 8) = s.timestamp /\ Read(f, 12) = s.status
  /\ \A i \in 1 .. 13 : Pair(f, 10 + 4 * i) = s.floats[i]
  /\ \A i \in 1 .. 9 : Pair(f, 62 + 4 * i) = s.counters[i]

LEMMA DebugBody ==
  ASSUME NEW s \in Samples, s.kind = "debug",
         NEW z \in Nat, z = 104, NEW f \in [0 .. z - 1 -> Bytes]
  PROVE  LET b == F!Apply(f, F!DebugWrites(s)) IN
         b \in [0 .. z - 1 -> Bytes] /\ DebugHeld(b, s)
<1> DEFINE w == F!DebugWrites(s)
           b == F!Apply(f, w)
           n == 30
           at == [k \in 1 .. n |-> DebugAt(k)]
           length == [k \in 1 .. n |-> DebugLength(k)]
<1> HIDE DEF w
<1>1. DebugPuts(w, s)
  BY DebugLayout DEF w
<1>2. /\ w[1] = F!PutByte(0, 211) /\ w[2] = F!PutByte(1, 145)
      /\ w[3] = F!PutByte(2, 1) /\ w[4] = F!PutByte(3, 1) /\ w[5] = F!PutU16(4, 96)
      /\ w[6] = F!PutU16(6, s.sequence) /\ w[7] = F!PutU32(8, s.timestamp)
      /\ w[8] = F!PutU16(12, s.status)
      /\ \A k \in 9 .. 21 : w[k] = F!PutU32(DebugAt(k), s.floats[k - 8])
      /\ \A k \in 22 .. 30 : w[k] = F!PutU32(DebugAt(k), s.counters[k - 21])
  BY <1>1 DEF DebugPuts
<1>3. Laid(w, n, at, length)
  <2>1. \A k \in 1 .. n : DebugAt(k) \in Nat /\ DebugLength(k) \in Nat
    BY DEF DebugAt, DebugLength
  <2>2. \A k, l \in 1 .. n : k < l => DebugAt(k) + DebugLength(k) <= DebugAt(l)
    BY DEF DebugAt, DebugLength
  <2>3. DOMAIN w = 1 .. n /\ \A k \in 1 .. n : w[k][1] = DebugAt(k) /\ DOMAIN w[k][2] = 1 .. DebugLength(k)
    BY <1>1 DEF DebugPuts
  <2> QED BY <2>1, <2>2, <2>3 DEF Laid
<1>4. /\ s.sequence \in Words /\ s.timestamp \in Words \X Words /\ s.status \in Words
      /\ \A k \in 9 .. 21 : s.floats[k - 8] \in Words \X Words
      /\ \A k \in 22 .. 30 : s.counters[k - 21] \in Words \X Words
  <2>1. /\ \A k \in 9 .. 21 : k - 8 \in 1 .. 13
        /\ \A k \in 22 .. 30 : k - 21 \in 1 .. 9
    OBVIOUS
  <2> QED BY <2>1, SampleIs
<1>5. 96 \in Words /\ 211 \in Bytes /\ 145 \in Bytes /\ 1 \in Bytes
  BY SizesAre, SMT DEF Words, Bytes
<1> HIDE DEF at, length
<1>6. \A k \in 1 .. n : OfBytes(w[k])
  <2>1. OfBytes(w[1]) /\ OfBytes(w[2]) /\ OfBytes(w[3]) /\ OfBytes(w[4])
    BY <1>2, <1>5, PutsAreBytes
  <2>2. OfBytes(w[5]) /\ OfBytes(w[6]) /\ OfBytes(w[7]) /\ OfBytes(w[8])
    BY <1>2, <1>4, <1>5, PutsAreBytes
  <2>3. \A k \in 9 .. 21 : OfBytes(w[k])
    BY <1>2, <1>4, PutsAreBytes
  <2>4. \A k \in 22 .. 30 : OfBytes(w[k])
    BY <1>2, <1>4, PutsAreBytes
  <2>5. \A k \in 1 .. n : k \in 1 .. 8 \/ k \in 9 .. 21 \/ k \in 22 .. 30
    OBVIOUS
  <2>6. \A k \in 1 .. 8 : OfBytes(w[k])
    BY <2>1, <2>2
  <2> QED BY <2>3, <2>4, <2>5, <2>6
<1>7. b \in [0 .. z - 1 -> Bytes]
  <2>1. \A k \in 1 .. n : \A j \in 1 .. length[k] : w[k][2][j] \in Bytes
    BY <1>3, <1>6 DEF Laid, OfBytes
  <2>2. ASSUME NEW i \in 0 .. z - 1 PROVE b[i] \in Bytes
    BY <1>3, <2>1, WrittenBytes
  <2>3. b = [i \in 0 .. z - 1 |-> b[i]]
    BY DEF F!Apply
  <2> QED BY <2>2, <2>3
<1>8. \A p \in 0 .. z - 4 : /\ p \in DOMAIN f /\ p + 1 \in DOMAIN f
                            /\ p + 2 \in DOMAIN f /\ p + 3 \in DOMAIN f
  OBVIOUS
<1>9. b[0] = 211 /\ b[1] = 145 /\ b[2] = 1 /\ b[3] = 1
  <2>1. b[0] = 211
    BY <1>2, <1>3, <1>8, ReadByte
  <2>2. b[1] = 145
    BY <1>2, <1>3, <1>8, ReadByte
  <2>3. b[2] = 1
    BY <1>2, <1>3, <1>8, ReadByte
  <2>4. b[3] = 1
    BY <1>2, <1>3, <1>8, ReadByte
  <2> QED BY <2>1, <2>2, <2>3, <2>4
<1>10. Read(b, 4) = 96 /\ Read(b, 6) = s.sequence /\ Read(b, 12) = s.status
  <2>1. Read(b, 4) = 96
    BY <1>2, <1>3, <1>5, <1>8, ReadU16
  <2>2. Read(b, 6) = s.sequence
    BY <1>2, <1>3, <1>4, <1>8, ReadU16
  <2>3. Read(b, 12) = s.status
    BY <1>2, <1>3, <1>4, <1>8, ReadU16
  <2> QED BY <2>1, <2>2, <2>3
<1>11. Pair(b, 8) = s.timestamp
  <2> DEFINE p == 8
             k == 7
             v == s.timestamp
  <2>1. p \in 0 .. z - 4 /\ k \in 1 .. n
    OBVIOUS
  <2>2. w[k] = F!PutU32(p, v) /\ v \in Words \X Words
    BY <1>2, <1>4
  <2> HIDE DEF p, k, v, n
  <2>3. Pair(b, p) = v
    BY <1>3, <1>8, <2>1, <2>2, ReadU32
  <2> QED BY <2>3 DEF p, v
<1>12. \A k \in 9 .. 21 : Pair(b, DebugAt(k)) = s.floats[k - 8]
  <2> TAKE k \in 9 .. 21
  <2> DEFINE p == DebugAt(k)
             v == s.floats[k - 8]
  <2>1. p \in 0 .. z - 4
    BY DEF DebugAt
  <2>2. k \in 1 .. n /\ w[k] = F!PutU32(p, v) /\ v \in Words \X Words
    BY <1>2, <1>4
  <2> HIDE DEF p, v, n
  <2>3. Pair(b, p) = v
    BY <1>3, <1>8, <2>1, <2>2, ReadU32
  <2> QED BY <2>3 DEF p, v
<1>13. \A k \in 22 .. 30 : Pair(b, DebugAt(k)) = s.counters[k - 21]
  <2> TAKE k \in 22 .. 30
  <2> DEFINE p == DebugAt(k)
             v == s.counters[k - 21]
  <2>1. p \in 0 .. z - 4
    BY DEF DebugAt
  <2>2. k \in 1 .. n /\ w[k] = F!PutU32(p, v) /\ v \in Words \X Words
    BY <1>2, <1>4
  <2> HIDE DEF p, v, n
  <2>3. Pair(b, p) = v
    BY <1>3, <1>8, <2>1, <2>2, ReadU32
  <2> QED BY <2>3 DEF p, v
<1> HIDE DEF b
<1>14. \A i \in 1 .. 13 : Pair(b, 10 + 4 * i) = s.floats[i]
  <2> TAKE i \in 1 .. 13
  <2>1. i + 8 \in 9 .. 21 /\ (i + 8) - 8 = i /\ DebugAt(i + 8) = 10 + 4 * i
    BY DEF DebugAt
  <2> QED BY <1>12, <2>1
<1>15. \A i \in 1 .. 9 : Pair(b, 62 + 4 * i) = s.counters[i]
  <2> TAKE i \in 1 .. 9
  <2>1. i + 21 \in 22 .. 30 /\ (i + 21) - 21 = i /\ DebugAt(i + 21) = 62 + 4 * i
    BY DEF DebugAt
  <2> QED BY <1>13, <2>1
<1>16. b[4] = 96 /\ b[5] = 0
  <2>1. b[4] \in Bytes /\ b[5] \in Bytes /\ b[4] + 256 * b[5] = 96
    BY <1>7, <1>10 DEF Read
  <2>2. \A x, y \in Bytes : x + 256 * y = 96 => x = 96 /\ y = 0
    BY SMT DEF Bytes
  <2> QED BY <2>1, <2>2
<1>17. DebugHeld(b, s)
  BY <1>9, <1>10, <1>11, <1>14, <1>15, <1>16 DEF DebugHeld
<1> QED BY <1>7, <1>17 DEF b, w

(* An encoded frame, whatever the buffer held before. *)
Sizes(kind) == F!Sizes[kind]

Sealed(e, z) ==
  e \in [0 .. z - 1 -> Bytes] /\ Read(e, z - 2) = F!Crc(e, 2, z - 4)

LEMMA EncodedIs ==
  ASSUME NEW s \in Samples, NEW byte \in {0, 255}
  PROVE  LET e == F!Encoded(s, F!Stale(s.kind, byte)) IN
         /\ Sealed(e, Sizes(s.kind))
         /\ s.kind = "telemetry" => TelemetryHeld(e, s)
         /\ s.kind = "debug" => DebugHeld(e, s)
<1> DEFINE z == Sizes(s.kind)
           f == F!Stale(s.kind, byte)
           w == IF s.kind = "telemetry" THEN F!TelemetryWrites(s) ELSE F!DebugWrites(s)
           b == F!Apply(f, w)
           e == F!Apply(b, <<F!PutU16(z - 2, F!Crc(b, 2, z - 4))>>)
<1>1. F!Encoded(s, f) = e
  BY Zenon DEF F!Encoded, F!CrcLength, Sizes
<1>2. /\ s.kind \in {"telemetry", "debug"} /\ z \in Nat /\ z > 4
      /\ s.kind = "telemetry" => z = 40
      /\ s.kind = "debug" => z = 104
  BY SampleIs DEF F!Sizes, Sizes
<1>3. f \in [0 .. z - 1 -> Bytes]
  <2>1. byte \in Bytes
    BY SMT DEF Bytes
  <2>2. f = [i \in 0 .. z - 1 |-> byte]
    BY Zenon DEF F!Stale, Sizes
  <2> QED BY <2>1, <2>2
<1> HIDE DEF z, f
<1>4. /\ b \in [0 .. z - 1 -> Bytes]
      /\ s.kind = "telemetry" => TelemetryHeld(b, s)
      /\ s.kind = "debug" => DebugHeld(b, s)
  <2>1. CASE s.kind = "telemetry"
    <3> DEFINE g == F!Apply(f, F!TelemetryWrites(s))
    <3>1. b = g /\ s.kind # "debug"
      BY <2>1
    <3>2. g \in [0 .. z - 1 -> Bytes] /\ TelemetryHeld(g, s)
      BY <1>2, <1>3, <2>1, TelemetryBody
    <3> HIDE DEF g, b
    <3> QED BY <3>1, <3>2
  <2>2. CASE s.kind = "debug"
    <3> DEFINE g == F!Apply(f, F!DebugWrites(s))
    <3>1. b = g /\ s.kind # "telemetry"
      BY <2>2
    <3>2. g \in [0 .. z - 1 -> Bytes] /\ DebugHeld(g, s)
      BY <1>2, <1>3, <2>2, DebugBody
    <3> HIDE DEF g, b
    <3> QED BY <3>1, <3>2
  <2> QED BY <1>2, <2>1, <2>2
<1> HIDE DEF b
<1>5. /\ e \in [0 .. z - 1 -> Bytes]
      /\ \A i \in 0 .. z - 3 : e[i] = b[i]
      /\ e[z - 2] + 256 * e[z - 1] = F!Crc(e, 2, z - 4)
  BY <1>2, <1>4, Closed
<1> HIDE DEF e
<1>6. Sealed(e, z)
  <2>1. (z - 2) + 1 = z - 1
    BY <1>2
  <2> QED BY <1>5, <2>1 DEF Sealed, Read
<1>7. ASSUME s.kind = "telemetry" PROVE TelemetryHeld(e, s)
  <2>1. \A i \in 0 .. 37 : e[i] = b[i]
    BY <1>2, <1>5, <1>7
  <2>2. \A p \in 0 .. 36 : Read(e, p) = Read(b, p)
    BY <2>1 DEF Read
  <2>3. /\ e[0] = b[0] /\ e[1] = b[1] /\ e[2] = b[2] /\ e[3] = b[3]
        /\ Read(e, 4) = Read(b, 4) /\ Pair(e, 6) = Pair(b, 6) /\ Read(e, 10) = Read(b, 10)
    BY <2>1, <2>2 DEF Pair
  <2>4. /\ \A i \in 1 .. 3 : /\ Read(e, 10 + 2 * i) = Read(b, 10 + 2 * i)
                             /\ Read(e, 16 + 2 * i) = Read(b, 16 + 2 * i)
                             /\ Read(e, 22 + 2 * i) = Read(b, 22 + 2 * i)
        /\ \A i \in 1 .. 4 : Read(e, 28 + 2 * i) = Read(b, 28 + 2 * i)
    BY <2>2
  <2> QED BY <1>4, <1>7, <2>3, <2>4 DEF TelemetryHeld
<1>8. ASSUME s.kind = "debug" PROVE DebugHeld(e, s)
  <2>1. \A i \in 0 .. 101 : e[i] = b[i]
    BY <1>2, <1>5, <1>8
  <2>2. \A p \in 0 .. 100 : Read(e, p) = Read(b, p)
    BY <2>1 DEF Read
  <2>3. \A p \in 0 .. 98 : Pair(e, p) = Pair(b, p)
    BY <2>2 DEF Pair
  <2>4. /\ e[0] = b[0] /\ e[1] = b[1] /\ e[2] = b[2] /\ e[3] = b[3] /\ e[4] = b[4]
        /\ e[5] = b[5] /\ Read(e, 6) = Read(b, 6) /\ Pair(e, 8) = Pair(b, 8)
        /\ Read(e, 12) = Read(b, 12)
    BY <2>1, <2>2, <2>3
  <2>5. /\ \A i \in 1 .. 13 : Pair(e, 10 + 4 * i) = Pair(b, 10 + 4 * i)
        /\ \A i \in 1 .. 9 : Pair(e, 62 + 4 * i) = Pair(b, 62 + 4 * i)
    BY <2>3
  <2>6. DebugHeld(b, s)
    BY <1>4, <1>8
  <2>7. \A i \in 1 .. 13 : Pair(e, 10 + 4 * i) = s.floats[i]
    BY <2>5, <2>6 DEF DebugHeld
  <2>8. \A i \in 1 .. 9 : Pair(e, 62 + 4 * i) = s.counters[i]
    BY <2>5, <2>6 DEF DebugHeld
  <2> QED BY <2>4, <2>6, <2>7, <2>8 DEF DebugHeld
<1> QED BY <1>1, <1>6, <1>7, <1>8, Zenon DEF z, f

(* Damage changes a byte, and what changes two adjacent bytes of the covered  *)
(* part, or of the CRC field, is told by the CRC.                            *)
LEMMA XorChanges == \A x, d \in Bytes : d # 0 => F!Xor(x, d) # x
<1> SUFFICES ASSUME NEW x \in Bytes, NEW d \in Bytes, F!Xor(x, d) = x PROVE d = 0
  OBVIOUS
<1>1. x \in Words /\ d \in Words /\ x \in Nat /\ 0 \in Bytes /\ 0 \in Words
  <2> 0 \in Bytes
    BY SMT DEF Bytes
  <2> QED BY BytesAreWords
<1>2. F!Xor(x, 0) \in Words
  BY <1>1, XorIs
<1>3. \A i \in 1 .. 16 : F!Bit(F!Xor(x, 0), i) = F!Bit(x, i)
  <2> TAKE i \in 1 .. 16
  <2>1. F!Bit(0, i) = 0
    <3> DEFINE w == F!Weight[i]
    <3>1. w \in Nat \ {0}
      BY WeightIs
    <3> HIDE DEF w
    <3>2. 0 \div w = 0
      BY <3>1
    <3> QED BY <3>2 DEF F!Bit, w
  <2>2. F!Bit(F!Xor(x, 0), i) = IF F!Bit(x, i) = F!Bit(0, i) THEN 0 ELSE 1
    BY <1>1, XorBits
  <2>3. F!Bit(x, i) \in 0 .. 1
    BY <1>1, BitIs
  <2> QED BY <2>1, <2>2, <2>3
<1>4. F!Xor(x, 0) = x
  BY <1>1, <1>2, <1>3, SameBits
<1> QED BY <1>1, <1>4, XorUndone

LEMMA CrcTellsDamage ==
  ASSUME NEW z \in Nat, NEW g \in [0 .. z - 1 -> Bytes], Sealed(g, z),
         NEW f \in [0 .. z - 1 -> Bytes], Sealed(f, z),
         NEW at \in 2 .. z - 2, at # z - 3,
         \A i \in 0 .. z - 1 : i # at /\ i # at + 1 => f[i] = g[i]
  PROVE  f[at] = g[at] /\ f[at + 1] = g[at + 1]
<1> DEFINE n == z - 4
           a == [i \in 1 .. n |-> f[2 + i - 1]]
           b == [i \in 1 .. n |-> g[2 + i - 1]]
<1>1. /\ F!Crc(f, 2, n) = F!CrcOf(a) /\ Read(f, z - 2) = F!CrcOf(a)
      /\ F!Crc(g, 2, n) = F!CrcOf(b) /\ Read(g, z - 2) = F!CrcOf(b)
  BY Zenon DEF F!Crc, Sealed
<1>2. /\ z - 2 \in 0 .. z - 1 /\ z - 1 \in 0 .. z - 1 /\ (z - 2) + 1 = z - 1
      /\ n \in Int
  OBVIOUS
<1>3. CASE at = z - 2
  <2>1. \A i \in 1 .. n : f[2 + i - 1] = g[2 + i - 1]
    <3> TAKE i \in 1 .. n
    <3>1. 2 + i - 1 \in 0 .. z - 1 /\ 2 + i - 1 # at /\ 2 + i - 1 # at + 1
      BY <1>3
    <3> QED BY <3>1
  <2>2. a = b
    BY <2>1
  <2> HIDE DEF a, b
  <2>3. Read(f, z - 2) = Read(g, z - 2)
    BY <1>1, <2>2
  <2>4. \A p, q, r, s \in Bytes : p + 256 * q = r + 256 * s => p = r /\ q = s
    BY SMT DEF Bytes
  <2>5. f[at] + 256 * f[at + 1] = g[at] + 256 * g[at + 1]
    BY <1>2, <1>3, <2>3 DEF Read
  <2>6. f[at] \in Bytes /\ f[at + 1] \in Bytes /\ g[at] \in Bytes /\ g[at + 1] \in Bytes
    BY <1>2, <1>3
  <2> QED BY <2>4, <2>5, <2>6
<1>4. CASE at # z - 2
  <2> DEFINE k == at - 1
  <2>1. n \in Nat /\ k \in 1 .. n - 1 /\ 2 + k - 1 = at /\ 2 + (k + 1) - 1 = at + 1 /\ k \in 1 .. n /\ k + 1 \in 1 .. n
    BY <1>4
  <2>2. f[z - 2] = g[z - 2] /\ f[z - 1] = g[z - 1]
    BY <1>2, <1>4
  <2>3. Read(f, z - 2) = Read(g, z - 2)
    BY <1>2, <2>2 DEF Read
  <2>4. F!CrcOf(a) = F!CrcOf(b)
    BY <1>1, <2>3, Zenon
  <2>5. \A i \in 1 .. n : 2 + i - 1 \in 0 .. z - 1
    OBVIOUS
  <2>6. a \in [1 .. n -> Bytes] /\ b \in [1 .. n -> Bytes]
    BY <2>5
  <2>7. \A i \in 1 .. n : i # k /\ i # k + 1 => a[i] = b[i]
    <3> TAKE i \in 1 .. n
    <3>1. i # k /\ i # k + 1 => 2 + i - 1 # at /\ 2 + i - 1 # at + 1
      OBVIOUS
    <3> QED BY <2>5, <3>1
  <2>8. a[k] = f[at] /\ a[k + 1] = f[at + 1] /\ b[k] = g[at] /\ b[k + 1] = g[at + 1]
    <3> HIDE DEF k, n
    <3> QED BY <2>1
  <2> HIDE DEF a, b, k, n
  <2>9. a[k] = b[k] /\ a[k + 1] = b[k + 1]
    BY <2>1, <2>4, <2>6, <2>7, CrcTells
  <2> QED BY <2>8, <2>9
<1> QED BY <1>3, <1>4


(* The invariant: an undamaged frame holds its sample, a damaged one is told. *)
FrameHolds ==
  /\ sample.kind = "telemetry" => TelemetryHeld(frame, sample)
  /\ sample.kind = "debug" => DebugHeld(frame, sample)

FrameInv ==
  /\ sample \in Samples \cup {F!NoSample} /\ damaged \in BOOLEAN
  /\ sample # F!NoSample => frame \in [0 .. Sizes(sample.kind) - 1 -> Bytes]
  /\ sample # F!NoSample /\ ~damaged => Sealed(frame, Sizes(sample.kind)) /\ FrameHolds
  /\ damaged => sample # F!NoSample /\ ~F!Accepted

LEMMA FrameInit == MCInit => FrameInv
  BY DEF MCInit, F!Init, FrameInv

LEMMA FrameEncode == FrameInv /\ F!Encode => FrameInv'
<1> SUFFICES ASSUME FrameInv, F!Encode PROVE FrameInv'
  OBVIOUS
<1>1. PICK s \in Samples, byte \in {0, 255} :
        sample' = s /\ frame' = F!Encoded(s, F!Stale(s.kind, byte))
  BY DEF F!Encode
<1>2. damaged' = damaged /\ damaged = FALSE
  BY DEF F!Encode, FrameInv
<1>3. Sealed(frame', Sizes(s.kind))
  BY <1>1, EncodedIs
<1>4. FrameHolds'
  BY <1>1, EncodedIs DEF FrameHolds
<1> QED BY <1>1, <1>2, <1>3, <1>4 DEF FrameInv, Sealed

LEMMA FrameDamage == FrameInv /\ F!Damage => FrameInv'
<1> SUFFICES ASSUME FrameInv, F!Damage PROVE FrameInv'
  OBVIOUS
<1> DEFINE z == Sizes(sample.kind)
<1>1. sample # F!NoSample /\ sample' = sample /\ damaged' = TRUE
  BY DEF F!Damage
<1>2. frame \in [0 .. z - 1 -> Bytes] /\ sample \in Samples
  BY <1>1 DEF FrameInv
<1>3. z \in Nat
  BY <1>2, SampleIs DEF Sizes, F!Sizes
<1>4. PICK at \in 0 .. z - 2, d \in Damages :
        /\ at # z - 3
        /\ frame' = [frame EXCEPT ![at] = F!Xor(@, d[1]), ![at + 1] = F!Xor(@, d[2])]
  BY Zenon DEF F!Damage, Sizes
<1> HIDE DEF z
<1>5. d[1] \in Bytes /\ d[2] \in Bytes
  BY FrameAssumption DEF Bytes
<1>6. \A x, y \in Bytes : F!Xor(x, y) \in Bytes
  <2>1. Bytes \subseteq Nat
    BY SMT DEF Bytes
  <2> QED BY <2>1, XorIs
<1>7. at \in 0 .. z - 1 /\ at + 1 \in 0 .. z - 1 /\ at # at + 1
  BY <1>3
<1>8. frame[at] \in Bytes /\ frame[at + 1] \in Bytes
  BY <1>2, <1>7
<1>9. frame' \in [0 .. z - 1 -> Bytes]
  BY <1>2, <1>4, <1>5, <1>6, <1>7, <1>8
<1>10. sample.kind \in {"telemetry", "debug"} /\ z > 5
  BY <1>2, SampleIs DEF z, Sizes, F!Sizes
<1>11. Sealed(frame, z) /\ FrameHolds
  BY <1>1 DEF FrameInv, F!Damage, z
<1>12. frame'[at] = F!Xor(frame[at], d[1]) /\ frame'[at + 1] = F!Xor(frame[at + 1], d[2])
  BY <1>2, <1>4, <1>7
<1>13. \A i \in 0 .. z - 1 : i # at /\ i # at + 1 => frame'[i] = frame[i]
  BY <1>2, <1>4, <1>7
<1>14. at # z - 3
  BY <1>4
<1>15. frame'[at] # frame[at] \/ frame'[at + 1] # frame[at + 1]
  <2>1. d[1] # 0 \/ d[2] # 0
    BY FrameAssumption
  <2> QED BY <1>5, <1>8, <1>12, <2>1, XorChanges
<1>16. ~F!Accepted'
  <2> SUFFICES ASSUME F!Accepted' PROVE FALSE
    OBVIOUS
  <2>1. /\ \A i \in DOMAIN F!Header(sample.kind) : frame'[i - 1] = F!Header(sample.kind)[i]
        /\ Read(frame', z - 2) = F!Crc(frame', 2, z - 4)
    BY <1>1, Zenon DEF F!Accepted, F!U16, Read, Sizes, z
  <2>2. \A i \in 0 .. 3 : frame'[i] = frame[i]
    <3>1. CASE sample.kind = "telemetry"
      BY <1>11, <2>1, <3>1 DEF FrameHolds, TelemetryHeld, F!Header
    <3>2. CASE sample.kind = "debug"
      BY <1>11, <2>1, <3>2 DEF FrameHolds, DebugHeld, F!Header
    <3> QED BY <1>10, <3>1, <3>2
  <2>3. at \in 2 .. z - 2
    BY <1>3, <1>15, <2>2
  <2>4. Sealed(frame', z)
    BY <1>9, <2>1 DEF Sealed
  <2>5. frame'[at] = frame[at] /\ frame'[at + 1] = frame[at + 1]
    BY <1>2, <1>3, <1>9, <1>11, <1>13, <1>14, <2>3, <2>4, CrcTellsDamage
  <2> QED BY <1>15, <2>5
<1> QED BY <1>1, <1>2, <1>9, <1>16 DEF FrameInv, z

LEMMA FrameRests == FrameInv /\ UNCHANGED frameVars => FrameInv'
  BY DEF FrameInv, FrameHolds, frameVars, F!Accepted, F!U16, F!Header

(* What the invariant says of the receiver. *)
LEMMA StatusBits ==
  ASSUME NEW x \in Nat, NEW i \in 1 .. 16
  PROVE  F!Bit(x % 512, i) = IF i <= 9 THEN F!Bit(x, i) ELSE 0
<1>1. /\ F!Weight[1] = 1 /\ F!Weight[2] = 2 /\ F!Weight[3] = 4 /\ F!Weight[4] = 8
      /\ F!Weight[5] = 16 /\ F!Weight[6] = 32 /\ F!Weight[7] = 64 /\ F!Weight[8] = 128
      /\ F!Weight[9] = 256
  BY DEF F!Weight
<1>2. \A k \in 10 .. 16 : F!Weight[k] \in Nat \ {0} /\ F!Weight[k] > 511
  BY DEF F!Weight
<1>3. CASE i \in 10 .. 16
  <2> DEFINE w == F!Weight[i]
             r == x % 512
  <2>1. w \in Nat \ {0} /\ w > 511 /\ r \in 0 .. 511
    BY <1>2, <1>3
  <2> HIDE DEF w, r
  <2>2. r \div w = 0
    BY <2>1
  <2> QED BY <1>3, <2>2 DEF F!Bit, w, r
<1>4. CASE i \in 1 .. 9
  <2> DEFINE q == x \div 512
             r == x % 512
  <2>1. x = 512 * q + r /\ q \in Nat /\ r \in Nat
    OBVIOUS
  <2> HIDE DEF q, r
  <2>2. i = 1 => F!Bit(r, i) = F!Bit(x, i)
    <3>1. x \div 1 = 2 * (256 * q) + r \div 1 /\ r \div 1 \in Nat
      BY <2>1
    <3>2. (x \div 1) % 2 = (r \div 1) % 2
      BY <2>1, <3>1
    <3> QED BY <1>1, <3>2 DEF F!Bit
  <2>3. i = 2 => F!Bit(r, i) = F!Bit(x, i)
    <3>1. x \div 2 = 2 * (128 * q) + r \div 2 /\ r \div 2 \in Nat
      BY <2>1
    <3>2. (x \div 2) % 2 = (r \div 2) % 2
      BY <2>1, <3>1
    <3> QED BY <1>1, <3>2 DEF F!Bit
  <2>4. i = 3 => F!Bit(r, i) = F!Bit(x, i)
    <3>1. x \div 4 = 2 * (64 * q) + r \div 4 /\ r \div 4 \in Nat
      BY <2>1
    <3>2. (x \div 4) % 2 = (r \div 4) % 2
      BY <2>1, <3>1
    <3> QED BY <1>1, <3>2 DEF F!Bit
  <2>5. i = 4 => F!Bit(r, i) = F!Bit(x, i)
    <3>1. x \div 8 = 2 * (32 * q) + r \div 8 /\ r \div 8 \in Nat
      BY <2>1
    <3>2. (x \div 8) % 2 = (r \div 8) % 2
      BY <2>1, <3>1
    <3> QED BY <1>1, <3>2 DEF F!Bit
  <2>6. i = 5 => F!Bit(r, i) = F!Bit(x, i)
    <3>1. x \div 16 = 2 * (16 * q) + r \div 16 /\ r \div 16 \in Nat
      BY <2>1
    <3>2. (x \div 16) % 2 = (r \div 16) % 2
      BY <2>1, <3>1
    <3> QED BY <1>1, <3>2 DEF F!Bit
  <2>7. i = 6 => F!Bit(r, i) = F!Bit(x, i)
    <3>1. x \div 32 = 2 * (8 * q) + r \div 32 /\ r \div 32 \in Nat
      BY <2>1
    <3>2. (x \div 32) % 2 = (r \div 32) % 2
      BY <2>1, <3>1
    <3> QED BY <1>1, <3>2 DEF F!Bit
  <2>8. i = 7 => F!Bit(r, i) = F!Bit(x, i)
    <3>1. x \div 64 = 2 * (4 * q) + r \div 64 /\ r \div 64 \in Nat
      BY <2>1
    <3>2. (x \div 64) % 2 = (r \div 64) % 2
      BY <2>1, <3>1
    <3> QED BY <1>1, <3>2 DEF F!Bit
  <2>9. i = 8 => F!Bit(r, i) = F!Bit(x, i)
    <3>1. x \div 128 = 2 * (2 * q) + r \div 128 /\ r \div 128 \in Nat
      BY <2>1
    <3>2. (x \div 128) % 2 = (r \div 128) % 2
      BY <2>1, <3>1
    <3> QED BY <1>1, <3>2 DEF F!Bit
  <2>10. i = 9 => F!Bit(r, i) = F!Bit(x, i)
    <3>1. x \div 256 = 2 * (1 * q) + r \div 256 /\ r \div 256 \in Nat
      BY <2>1
    <3>2. (x \div 256) % 2 = (r \div 256) % 2
      BY <2>1, <3>1
    <3> QED BY <1>1, <3>2 DEF F!Bit
  <2> QED BY <1>4, <2>2, <2>3, <2>4, <2>5, <2>6, <2>7, <2>8, <2>9, <2>10 DEF r
<1> QED BY <1>3, <1>4

LEMMA Accepts ==
  ASSUME FrameInv, sample \in Samples, ~damaged
  PROVE  F!Accepted
<1> DEFINE z == Sizes(sample.kind)
<1>1. /\ sample # F!NoSample /\ sample.kind \in {"telemetry", "debug"}
  <2>1. sample.kind \in {"telemetry", "debug"}
    BY SampleIs
  <2> QED BY <2>1 DEF F!NoSample
<1>2. Sealed(frame, z) /\ FrameHolds
  BY <1>1 DEF FrameInv
<1>3. F!U16(z - 2) = F!Crc(frame, 2, z - 4)
  BY <1>2, Zenon DEF Sealed, Read, F!U16
<1>4. \A i \in DOMAIN F!Header(sample.kind) : frame[i - 1] = F!Header(sample.kind)[i]
  <2>1. CASE sample.kind = "telemetry"
    BY <1>2, <2>1 DEF FrameHolds, TelemetryHeld, F!Header
  <2>2. CASE sample.kind = "debug"
    BY <1>2, <2>2 DEF FrameHolds, DebugHeld, F!Header
  <2> QED BY <1>1, <2>1, <2>2
<1> QED BY <1>3, <1>4, Zenon DEF F!Accepted, Sizes, z

LEMMA ReadsAre ==
  /\ \A p : F!U16(p) = Read(frame, p)
  /\ \A p : F!U32(p) = Pair(frame, p)
  /\ \A p : F!I16(p) = AsShort(Read(frame, p))
<1>1. \A p : F!U16(p) = Read(frame, p)
  BY DEF F!U16, Read
<1>2. \A p : F!U32(p) = Pair(frame, p)
  BY <1>1 DEF F!U32, Pair
<1>3. \A p : F!I16(p) = AsShort(Read(frame, p))
  BY <1>1, Zenon DEF F!I16, AsShort, Half, Whole
<1> QED BY <1>1, <1>2, <1>3

LEMMA TelemetryReads == FrameInv => F!TelemetryDecodes
<1> SUFFICES ASSUME FrameInv, sample.kind = "telemetry", ~damaged PROVE F!TelemetryDecodes
  BY DEF F!TelemetryDecodes, F!Sent
<1>1. sample \in Samples /\ TelemetryHeld(frame, sample)
  BY DEF FrameInv, FrameHolds, F!NoSample
<1>2. F!Accepted
  BY <1>1, Accepts
<1>3. /\ F!U16(4) = sample.sequence /\ F!U32(6) = sample.timestamp
      /\ F!U16(10) = sample.status % 512
  BY <1>1, ReadsAre DEF TelemetryHeld
<1>4. \A i \in 1 .. 16 : F!Bit(F!U16(10), i) = IF i <= 9 THEN F!Bit(sample.status, i) ELSE 0
  <2>1. sample.status \in Nat
    <3> sample.status \in Words
      BY <1>1, SampleIs
    <3> QED BY SizesAre, SMT DEF Words
  <2> QED BY <1>3, <2>1, StatusBits
<1>5. /\ \A i \in 1 .. 3 : /\ F!NearestAngle(F!I16(10 + 2 * i), sample.euler[i])
                           /\ F!Nearest(F!I16(16 + 2 * i), sample.gyro[i], 10)
                           /\ F!Nearest(F!I16(22 + 2 * i), sample.accel[i], 1000)
      /\ \A i \in 1 .. 4 : F!Nearest(F!I16(28 + 2 * i), sample.quaternion[i], 32767)
  BY <1>1, ReadsAre DEF TelemetryHeld
<1> QED BY <1>2, <1>3, <1>4, <1>5 DEF F!TelemetryDecodes

LEMMA DebugReads == FrameInv => F!DebugDecodes
<1> SUFFICES ASSUME FrameInv, sample.kind = "debug", ~damaged PROVE F!DebugDecodes
  BY DEF F!DebugDecodes, F!Sent
<1>1. sample \in Samples /\ DebugHeld(frame, sample)
  BY DEF FrameInv, FrameHolds, F!NoSample
<1>2. F!Accepted
  BY <1>1, Accepts
<1>3. /\ F!U16(6) = sample.sequence /\ F!U32(8) = sample.timestamp
      /\ F!U16(12) = sample.status
  BY <1>1, ReadsAre DEF DebugHeld
<1>4. /\ \A i \in 1 .. 13 : F!U32(10 + 4 * i) = sample.floats[i]
      /\ \A i \in 1 .. 9 : F!U32(62 + 4 * i) = sample.counters[i]
  BY <1>1, ReadsAre DEF DebugHeld
<1>5. \A i \in 1 .. 3 : /\ F!U32(10 + 4 * i) = sample.floats[i]
                        /\ F!U32(22 + 4 * i) = sample.floats[3 + i]
                        /\ F!U32(34 + 4 * i) = sample.floats[6 + i]
  <2> TAKE i \in 1 .. 3
  <2>1. /\ i \in 1 .. 13 /\ 3 + i \in 1 .. 13 /\ 6 + i \in 1 .. 13
        /\ 10 + 4 * (3 + i) = 22 + 4 * i /\ 10 + 4 * (6 + i) = 34 + 4 * i
    OBVIOUS
  <2> QED BY <1>4, <2>1
<1>6. \A i \in 1 .. 4 : F!U32(46 + 4 * i) = sample.floats[9 + i]
  <2> TAKE i \in 1 .. 4
  <2>1. 9 + i \in 1 .. 13 /\ 10 + 4 * (9 + i) = 46 + 4 * i
    OBVIOUS
  <2> QED BY <1>4, <2>1
<1> QED BY <1>2, <1>3, <1>4, <1>5, <1>6 DEF F!DebugDecodes

LEMMA FrameTypes == FrameInv => F!TypeOK
<1> SUFFICES ASSUME FrameInv, sample # F!NoSample
             PROVE  /\ DOMAIN frame = 0 .. F!Sizes[sample.kind] - 1
                    /\ \A i \in DOMAIN frame : frame[i] \in 0 .. 255
  BY DEF FrameInv, F!TypeOK
<1> DEFINE z == Sizes(sample.kind)
<1>1. frame \in [0 .. z - 1 -> Bytes]
  BY DEF FrameInv
<1> HIDE DEF z
<1>2. DOMAIN frame = 0 .. z - 1 /\ \A i \in DOMAIN frame : frame[i] \in Bytes
  BY <1>1
<1> QED BY <1>2, Zenon DEF z, Sizes, Bytes

(* A frame holds the sample it was encoded from, whatever the buffer held      *)
(* before: a receiver that reads it at the documented offsets accepts it and  *)
(* finds the numbers as they were given, the measured quantities and angles    *)
(* as near as a 16-bit code can be, and the status bits.  Damage within two     *)
(* adjacent bytes is told by the CRC.                                         *)
THEOREM TelemetryFramesDecode == MCSpec => []FramesDecode
<1>1. FrameInv /\ [MCNext]_allVars => FrameInv'
  <2> SUFFICES ASSUME FrameInv, [MCNext]_allVars PROVE FrameInv'
    OBVIOUS
  <2>1. CASE FrameStep
    BY <2>1, FrameEncode, FrameDamage DEF FrameStep, F!Next
  <2>2. CASE UNCHANGED frameVars
    BY <2>2, FrameRests
  <2>3. FrameStep \/ UNCHANGED frameVars
    BY Zenon DEF MCNext, LinkStep, StreamStep, Rests, allVars
  <2> QED BY <2>1, <2>2, <2>3
<1>2. FrameInv => FramesDecode
  <2> SUFFICES ASSUME FrameInv PROVE FramesDecode
    OBVIOUS
  <2>1. F!DamageDetected
    BY DEF FrameInv, F!DamageDetected
  <2> QED BY <2>1, FrameTypes, TelemetryReads, DebugReads DEF FramesDecode
<1> QED BY <1>1, <1>2, FrameInit, PTL DEF MCSpec
=============================================================================
