------------------------------- MODULE LogQueue -------------------------------
(***************************************************************************)
(* The asynchronous log of kernel/logging/imu_log_service.c over the       *)
(* message queue of RT-Thread (ipc.c).  The queue copies outside of its    *)
(* critical sections: a block is taken from the free list, filled, and     *)
(* linked; or unlinked, copied out, and put back.  The IMU thread preempts *)
(* the logger between any two of these steps.  The reverse cannot happen   *)
(* on one core, the logger being less urgent; allowing it here as well     *)
(* only adds behaviours.                                                   *)
(*                                                                         *)
(* imu_service_deinit, the only caller of imu_log_service_deinit on a      *)
(* running logger, has waited for the IMU thread to stop.                  *)
(***************************************************************************)
EXTENDS Naturals, SequencesExt

CONSTANTS
  Blocks,   \* the blocks of log_queue_buffer: 8 in the code
  Events,
  NoEvent,  \* an unused block
  MaxDrops, \* where log_drop_count saturates: 2^32 - 1 in the code
  NoBlock   \* a thread holds no block

ASSUME LogAssumption ==
  /\ IsFiniteSet(Blocks) /\ Blocks # {} /\ NoBlock \notin Blocks
  /\ NoEvent \notin Events
  /\ MaxDrops \in Nat

Capacity == Cardinality(Blocks)

VARIABLES
  service_initialized, service_enabled,
  thread_should_run, thread_stopped,
  log_drop_count,
  deiniting,  \* the caller waits in imu_log_service_deinit
  content,    \* of each block
  free,       \* msg_queue_free
  queue,      \* msg_queue_head .. msg_queue_tail
  imu,        \* where the IMU thread is in imu_log_submit
  event,      \* the event it submits
  imu_block,  \* the block it fills
  logger,     \* where imu_log_thread_entry is
  log_block,  \* the block it copies out
  received,   \* its local event
  printed     \* the last event on the console

flags    == <<service_initialized, service_enabled, thread_should_run,
              thread_stopped, deiniting>>
mq       == <<content, free, queue>>
imuVars  == <<imu, event, imu_block>>
logVars  == <<logger, log_block, received, printed>>
vars     == <<flags, log_drop_count, mq, imuVars, logVars>>

-----------------------------------------------------------------------------
(* imu_log_submit and rt_mq_send *)

(* rt_mq_send takes a free block, without waiting for one. *)
SubmitTakesBlock ==
  /\ imu = "idle" /\ service_enabled
  /\ \E e \in Events, b \in free :
       /\ event' = e /\ imu_block' = b
       /\ free' = free \ {b}
  /\ imu' = "fill"
  /\ UNCHANGED <<flags, log_drop_count, content, queue, logVars>>

(* Faulty form: the counter does not saturate. *)
SubmitDroppedUnbounded ==
  /\ imu = "idle"
  /\ ~service_enabled \/ free = {}
  /\ log_drop_count <= MaxDrops
  /\ log_drop_count' = log_drop_count + 1
  /\ UNCHANGED <<flags, mq, imuVars, logVars>>

SubmitDropped ==
  /\ imu = "idle"
  /\ ~service_enabled \/ free = {}
  /\ log_drop_count' = IF log_drop_count < MaxDrops THEN log_drop_count + 1
                       ELSE log_drop_count
  /\ UNCHANGED <<flags, mq, imuVars, logVars>>

FillBlock ==
  /\ imu = "fill"
  /\ content' = [content EXCEPT ![imu_block] = event]
  /\ imu' = "link"
  /\ UNCHANGED <<flags, log_drop_count, free, queue, event, imu_block, logVars>>

LinkBlock ==
  /\ imu = "link"
  /\ queue' = Append(queue, imu_block)
  /\ imu' = "idle" /\ imu_block' = NoBlock
  /\ UNCHANGED <<flags, log_drop_count, content, free, event, logVars>>

(* imu_service_init starts the IMU thread once the log is up.  Starting it   *)
(* again before the log was stopped is more than the code does.             *)
ImuStarts ==
  /\ imu = "stopped" /\ service_enabled
  /\ imu' = "idle"
  /\ UNCHANGED <<flags, log_drop_count, mq, event, imu_block, logVars>>

ImuStops ==
  /\ imu = "idle"
  /\ imu' = "stopped"
  /\ UNCHANGED <<flags, log_drop_count, mq, event, imu_block, logVars>>

-----------------------------------------------------------------------------
(* imu_log_thread_entry and rt_mq_recv *)

LoopTest ==
  /\ logger = "loop"
  /\ IF thread_should_run
     THEN logger' = "receive" /\ UNCHANGED thread_stopped
     ELSE logger' = "none" /\ thread_stopped' = TRUE
  /\ UNCHANGED <<service_initialized, service_enabled, thread_should_run,
                 deiniting, log_drop_count, mq, imuVars, log_block, received,
                 printed>>

(* Faulty form: an empty queue ends the thread. *)
TimeoutEndsThread ==
  /\ logger = "receive" /\ queue = <<>>
  /\ logger' = "none" /\ thread_stopped' = TRUE
  /\ UNCHANGED <<service_initialized, service_enabled, thread_should_run,
                 deiniting, log_drop_count, mq, imuVars, log_block, received,
                 printed>>

(* The wait of one tick ends without an event. *)
ReceiveTimesOut ==
  /\ logger = "receive" /\ queue = <<>>
  /\ logger' = "loop"
  /\ UNCHANGED <<flags, log_drop_count, mq, imuVars, log_block, received, printed>>

(* Faulty form: the block is free as soon as it is unlinked. *)
UnlinkFrees ==
  /\ logger = "receive" /\ queue # <<>>
  /\ log_block' = Head(queue)
  /\ queue' = Tail(queue)
  /\ free' = free \cup {Head(queue)}
  /\ logger' = "copy"
  /\ UNCHANGED <<flags, log_drop_count, content, imuVars, received, printed>>

UnlinkBlock ==
  /\ logger = "receive" /\ queue # <<>>
  /\ log_block' = Head(queue)
  /\ queue' = Tail(queue)
  /\ logger' = "copy"
  /\ UNCHANGED <<flags, log_drop_count, content, free, imuVars, received, printed>>

CopyBlock ==
  /\ logger = "copy"
  /\ received' = content[log_block]
  /\ logger' = "free"
  /\ UNCHANGED <<flags, log_drop_count, mq, imuVars, log_block, printed>>

(* Faulty form: the block is never put back. *)
ForgetBlock ==
  /\ logger = "free"
  /\ log_block' = NoBlock
  /\ logger' = "test"
  /\ UNCHANGED <<flags, log_drop_count, mq, imuVars, received, printed>>

FreeBlock ==
  /\ logger = "free"
  /\ free' = free \cup {log_block}
  /\ log_block' = NoBlock
  /\ logger' = "test"
  /\ UNCHANGED <<flags, log_drop_count, content, queue, imuVars, received, printed>>

(* An event received after the stop was requested is not printed. *)
StopTest ==
  /\ logger = "test"
  /\ IF thread_should_run
     THEN logger' = "print" /\ UNCHANGED thread_stopped
     ELSE logger' = "none" /\ thread_stopped' = TRUE
  /\ UNCHANGED <<service_initialized, service_enabled, thread_should_run,
                 deiniting, log_drop_count, mq, imuVars, log_block, received,
                 printed>>

PrintEvent ==
  /\ logger = "print"
  /\ printed' = received
  /\ logger' = "loop"
  /\ UNCHANGED <<flags, log_drop_count, mq, imuVars, log_block, received>>

Logger ==
  \/ LoopTest \/ ReceiveTimesOut \/ UnlinkBlock \/ CopyBlock \/ FreeBlock
  \/ StopTest \/ PrintEvent

-----------------------------------------------------------------------------
(* imu_log_service_init and imu_log_service_deinit *)

ServiceInit ==
  /\ ~service_initialized /\ ~deiniting
  /\ service_initialized' = TRUE /\ service_enabled' = TRUE
  /\ thread_should_run' = TRUE /\ thread_stopped' = FALSE
  /\ log_drop_count' = 0
  /\ free' = Blocks /\ queue' = <<>>
  /\ logger' = "loop"
  /\ UNCHANGED <<deiniting, content, imuVars, log_block, received, printed>>

(* rt_mq_init, rt_thread_init fails. *)
ServiceInitFails ==
  /\ ~service_initialized /\ ~deiniting
  /\ service_enabled' = FALSE
  /\ thread_should_run' = FALSE /\ thread_stopped' = FALSE
  /\ log_drop_count' = 0
  /\ UNCHANGED <<service_initialized, deiniting, mq, imuVars, logVars>>

DeinitRequest ==
  /\ service_initialized /\ ~deiniting /\ imu = "stopped"
  /\ service_enabled' = FALSE
  /\ thread_should_run' = FALSE
  /\ deiniting' = TRUE
  /\ UNCHANGED <<service_initialized, thread_stopped, log_drop_count, mq,
                 imuVars, logVars>>

(* service_wait_for_thread_stop gives up; imu_service_deinit fails and may   *)
(* be called again.                                                         *)
DeinitTimesOut ==
  /\ deiniting /\ ~thread_stopped
  /\ deiniting' = FALSE
  /\ UNCHANGED <<service_initialized, service_enabled, thread_should_run,
                 thread_stopped, log_drop_count, mq, imuVars, logVars>>

(* Faulty form: the wait is given up and the queue detached all the same. *)
DetachAnyway ==
  /\ deiniting
  /\ deiniting' = FALSE
  /\ service_initialized' = FALSE
  /\ free' = {} /\ queue' = <<>>
  /\ thread_stopped' = FALSE
  /\ UNCHANGED <<service_enabled, thread_should_run, log_drop_count, content,
                 imuVars, logVars>>

DeinitDetaches ==
  /\ deiniting /\ thread_stopped
  /\ deiniting' = FALSE
  /\ service_initialized' = FALSE
  /\ free' = {} /\ queue' = <<>>
  /\ thread_stopped' = FALSE
  /\ UNCHANGED <<service_enabled, thread_should_run, log_drop_count, content,
                 imuVars, logVars>>

-----------------------------------------------------------------------------

Init ==
  /\ service_initialized = FALSE /\ service_enabled = FALSE
  /\ thread_should_run = FALSE /\ thread_stopped = FALSE /\ deiniting = FALSE
  /\ log_drop_count = 0
  /\ content = [b \in Blocks |-> NoEvent] /\ free = {} /\ queue = <<>>
  /\ imu = "stopped" /\ event = NoEvent /\ imu_block = NoBlock
  /\ logger = "none" /\ log_block = NoBlock
  /\ received = NoEvent /\ printed = NoEvent

Submit == SubmitTakesBlock \/ SubmitDropped \/ FillBlock \/ LinkBlock

Next ==
  \/ Submit \/ ImuStarts \/ ImuStops
  \/ Logger
  \/ ServiceInit \/ ServiceInitFails
  \/ DeinitRequest \/ DeinitTimesOut \/ DeinitDetaches

Spec == Init /\ [][Next]_vars

(* The logger is the least urgent thread, but every thread above it sleeps  *)
(* between its periods, so that it gets the core again and again.           *)
FairSpec == Spec /\ WF_vars(Logger)
-----------------------------------------------------------------------------
(* Properties *)

TypeOK ==
  /\ {service_initialized, service_enabled, thread_should_run, thread_stopped,
      deiniting} \subseteq BOOLEAN
  /\ log_drop_count \in 0 .. MaxDrops
  /\ content \in [Blocks -> Events \cup {NoEvent}]
  /\ free \in SUBSET Blocks
  /\ queue \in Seq(Blocks)
  /\ imu \in {"stopped", "idle", "fill", "link"}
  /\ event \in Events \cup {NoEvent}
  /\ imu_block \in Blocks \cup {NoBlock}
  /\ logger \in {"none", "loop", "receive", "copy", "free", "test", "print"}
  /\ log_block \in Blocks \cup {NoBlock}
  /\ received \in Events \cup {NoEvent} /\ printed \in Events \cup {NoEvent}

(* No block is lost and none is in two places, so that the queue keeps its   *)
(* capacity however often submission and logger interrupt each other.       *)
BlocksConserved ==
  service_initialized =>
    LET held == {imu_block, log_block} \ {NoBlock}
    IN  /\ Blocks = free \cup ToSet(queue) \cup held
        /\ Capacity = Cardinality(free) + Len(queue)
             + (IF imu_block = NoBlock THEN 0 ELSE 1)
             + (IF log_block = NoBlock THEN 0 ELSE 1)

(* The queue is detached from under neither thread, also when earlier        *)
(* attempts to stop the logger timed out.                                   *)
DetachedUnused ==
  ~service_initialized => logger = "none" /\ imu = "stopped"

(* The pool, the queue and their two users fit together, with their types.   *)
QueueIntact == TypeOK /\ BlocksConserved /\ DetachedUnused

(* Every accepted event leaves the queue, or the service is being stopped. *)
EventsAreDrained ==
  \A b \in Blocks : b \in ToSet(queue) ~> b \notin ToSet(queue) \/ ~thread_should_run

(* The service implements the lossy log.  An event is accepted when its      *)
(* block is linked; once the stop was requested only an event past the       *)
(* logger's last test will still be printed.                                *)
Held ==
  CASE logger = "copy"             -> <<content[log_block]>>
    [] logger \in {"free", "test", "print"} -> <<received>>
    [] OTHER                       -> <<>>

Pending ==
  IF thread_should_run THEN Held \o [i \in 1 .. Len(queue) |-> content[queue[i]]]
  ELSE IF logger = "print" THEN Held ELSE <<>>

Log == INSTANCE LossyLog
         WITH pending <- Pending, drops <- log_drop_count, output <- printed

ImplementsLossyLog == Log!Spec
=============================================================================
