--------------------------- MODULE LogQueueProofs ---------------------------
(***************************************************************************)
(* For every set of blocks and of events: the pool of the message queue    *)
(* keeps its capacity however the IMU thread and the logger interleave,    *)
(* the queue is detached from under neither of them, and the service       *)
(* implements the lossy log: every accepted event is printed once, in      *)
(* order and unchanged, unless a stop discards it.                         *)
(*                                                                         *)
(* For all counters of at most ten digits and all buffers: the line made   *)
(* of an event is terminated in its buffer, whole or cut, its length is    *)
(* reported, and in the logger's buffer no field is missing.               *)
(***************************************************************************)
EXTENDS MCLogQueue, SequenceTheorems, FiniteSetTheorems, WellFoundedInduction, TLAPS

NoRepeats(q) == \A i, j \in 1 .. Len(q) : q[i] = q[j] => i = j

(* The flags of the service, and where the threads can be under them. *)
ServiceInv ==
  /\ service_enabled => service_initialized
  /\ ~service_enabled => imu = "stopped"
  /\ deiniting => service_initialized /\ ~service_enabled
  /\ ~service_initialized => logger = "none"
  /\ thread_stopped => logger = "none"

(* A thread has a block while it fills or copies it. *)
HeldInv ==
  /\ imu_block # NoBlock <=> imu \in {"fill", "link"}
  /\ log_block # NoBlock <=> logger \in {"copy", "free"}

(* No block is in two places. *)
ApartInv ==
  /\ free \cap ToSet(queue) = {} /\ NoRepeats(queue)
  /\ imu_block \notin free /\ imu_block \notin ToSet(queue)
  /\ log_block \notin free /\ log_block \notin ToSet(queue)
  /\ imu_block # NoBlock => imu_block # log_block

(* Every block is in one. *)
One(b) == IF b = NoBlock THEN 0 ELSE 1

Placed ==
  \A b \in Blocks :
    b \in free \/ b \in ToSet(queue) \/ b = imu_block \/ b = log_block

Counted ==
  Capacity = Cardinality(free) + Len(queue) + One(imu_block) + One(log_block)

PoolInv == service_initialized => Placed /\ Counted

IInv == TypeOK /\ ServiceInv /\ HeldInv /\ ApartInv /\ PoolInv

-----------------------------------------------------------------------------
(* rt_mq_send: the block is linked behind the others. *)
LEMMA AppendApart ==
  ASSUME NEW q \in Seq(Blocks), NEW b \in Blocks
  PROVE  /\ Append(q, b) \in Seq(Blocks) /\ Len(Append(q, b)) = Len(q) + 1
         /\ ToSet(Append(q, b)) = ToSet(q) \cup {b}
         /\ NoRepeats(q) /\ b \notin ToSet(q) => NoRepeats(Append(q, b))
<1> DEFINE a == Append(q, b)
<1>1. /\ a \in Seq(Blocks) /\ Len(a) = Len(q) + 1 /\ Len(q) \in Nat
      /\ \A i \in 1 .. Len(q) : a[i] = q[i]
      /\ a[Len(q) + 1] = b
      /\ DOMAIN a = 1 .. Len(a) /\ DOMAIN q = 1 .. Len(q)
  OBVIOUS
<1> HIDE DEF a
<1>2. ToSet(a) = ToSet(q) \cup {b}
  BY <1>1 DEF ToSet
<1>3. NoRepeats(q) /\ b \notin ToSet(q) => NoRepeats(a)
  BY <1>1 DEF ToSet, NoRepeats
<1> QED
  BY <1>1, <1>2, <1>3 DEF a

(* rt_mq_recv: the first block is unlinked. *)
LEMMA TailApart ==
  ASSUME NEW q \in Seq(Blocks), q # <<>>
  PROVE  /\ Head(q) \in Blocks
         /\ Tail(q) \in Seq(Blocks) /\ Len(Tail(q)) = Len(q) - 1
         /\ ToSet(q) = ToSet(Tail(q)) \cup {Head(q)}
         /\ NoRepeats(q) => NoRepeats(Tail(q)) /\ Head(q) \notin ToSet(Tail(q))
<1> DEFINE t == Tail(q)
<1>1. /\ t \in Seq(Blocks) /\ Len(t) = Len(q) - 1 /\ Len(q) \in Nat \ {0}
      /\ \A i \in 1 .. Len(t) : t[i] = q[i + 1]
      /\ Head(q) = q[1] /\ q[1] \in Blocks
      /\ DOMAIN t = 1 .. Len(t) /\ DOMAIN q = 1 .. Len(q)
  OBVIOUS
<1> HIDE DEF t
<1>2. ToSet(q) = ToSet(t) \cup {q[1]}
  <2>1. \A i \in 1 .. Len(q) : i = 1 \/ (i - 1 \in 1 .. Len(t) /\ t[i - 1] = q[i])
    BY <1>1
  <2>2. \A i \in 1 .. Len(t) : i + 1 \in 1 .. Len(q)
    BY <1>1
  <2>3. ASSUME NEW b \in ToSet(q) PROVE b \in ToSet(t) \cup {q[1]}
    <3>1. PICK i \in 1 .. Len(q) : b = q[i]
      BY <1>1, <2>3 DEF ToSet
    <3>2. CASE i = 1
      BY <3>1, <3>2
    <3>3. CASE i # 1
      BY <1>1, <2>1, <3>1, <3>3 DEF ToSet
    <3> QED
      BY <3>2, <3>3
  <2>4. ASSUME NEW b \in ToSet(t) PROVE b \in ToSet(q)
    <3>1. PICK i \in 1 .. Len(t) : b = t[i]
      BY <1>1, <2>4 DEF ToSet
    <3>2. b = q[i + 1]
      BY <1>1, <3>1
    <3> QED
      BY <1>1, <2>2, <3>2 DEF ToSet
  <2>5. q[1] \in ToSet(q)
    BY <1>1 DEF ToSet
  <2> QED
    BY <2>3, <2>4, <2>5
<1>3. NoRepeats(q) => NoRepeats(t) /\ q[1] \notin ToSet(t)
  <2> SUFFICES ASSUME NoRepeats(q) PROVE NoRepeats(t) /\ q[1] \notin ToSet(t)
    OBVIOUS
  <2>1. \A i \in 1 .. Len(t) : i + 1 \in 1 .. Len(q) /\ i + 1 # 1
    BY <1>1
  <2>2. 1 \in 1 .. Len(q)
    BY <1>1
  <2>3. q[1] \notin ToSet(t)
    BY <1>1, <2>1, <2>2 DEF ToSet, NoRepeats
  <2>4. ASSUME NEW i \in 1 .. Len(t), NEW j \in 1 .. Len(t), t[i] = t[j] PROVE i = j
    <3>1. i + 1 = j + 1
      BY <1>1, <2>1, <2>4 DEF NoRepeats
    <3> QED
      BY <1>1, <3>1
  <2> QED
    BY <2>3, <2>4 DEF NoRepeats
<1> QED
  BY <1>1, <1>2, <1>3 DEF t

(* The free list has a length.                                              *)
LEMMA FreeFinite ==
  ASSUME free \in SUBSET Blocks
  PROVE  IsFiniteSet(free) /\ Cardinality(free) \in Nat
  BY LogAssumption, FS_Subset, FS_CardinalityType

-----------------------------------------------------------------------------
(* Before imu_log_service_init nothing is held or queued.                   *)
LEMMA InitIInv == ASSUME Init PROVE IInv
<1>1. TypeOK
  <2>1. {service_initialized, service_enabled, thread_should_run, thread_stopped,
         deiniting} \subseteq BOOLEAN
    BY DEF Init
  <2>2. log_drop_count \in 0 .. MaxDrops
    BY LogAssumption DEF Init
  <2>3. content \in [Blocks -> Events \cup {NoEvent}] /\ queue \in Seq(Blocks)
    BY DEF Init
  <2> QED
    BY <2>1, <2>2, <2>3 DEF Init, TypeOK
<1>2. ServiceInv /\ HeldInv /\ PoolInv
  BY DEF Init, ServiceInv, HeldInv, PoolInv
<1>3. ApartInv
  BY DEF Init, ApartInv, ToSet, NoRepeats
<1> QED
  BY <1>1, <1>2, <1>3 DEF IInv

(* rt_mq_send takes a block from the free list: the free list is one        *)
(* shorter, and the IMU thread holds it.                                    *)
LEMMA TakesIInv == ASSUME IInv, SubmitTakesBlock PROVE IInv'
<1>1. PICK e \in Events, b \in free :
        event' = e /\ imu_block' = b /\ free' = free \ {b}
  BY DEF SubmitTakesBlock
<1>2. /\ imu = "idle" /\ service_enabled /\ imu' = "fill"
      /\ UNCHANGED <<flags, log_drop_count, content, queue, logVars>>
  BY DEF SubmitTakesBlock
<1>3. b \in Blocks /\ b # NoBlock /\ imu_block = NoBlock
  BY <1>1, <1>2, LogAssumption DEF IInv, TypeOK, HeldInv
<1>4. TypeOK'
  BY <1>1, <1>2, <1>3 DEF IInv, TypeOK, flags, logVars
<1>5. ServiceInv' /\ HeldInv'
  BY <1>1, <1>2, <1>3 DEF IInv, ServiceInv, HeldInv, flags, logVars
<1>6. ApartInv'
  BY <1>1, <1>2, <1>3 DEF IInv, ApartInv, flags, logVars
<1>7. PoolInv'
  <2>1. Cardinality(free') = Cardinality(free) - 1 /\ Cardinality(free) \in Nat
    BY <1>1, FreeFinite, FS_RemoveElement DEF IInv, TypeOK
  <2>2. One(imu_block) = 0 /\ One(imu_block') = 1 /\ One(log_block') = One(log_block)
        /\ One(log_block) \in Nat /\ Len(queue) \in Nat
    BY <1>1, <1>2, <1>3 DEF One, logVars, IInv, TypeOK
  <2>3. service_initialized' = service_initialized /\ queue' = queue /\ log_block' = log_block
    BY <1>2 DEF flags, logVars
  <2>4. Capacity' = Capacity
    BY DEF Capacity
  <2>5. ASSUME service_initialized PROVE Counted'
    BY <2>1, <2>2, <2>3, <2>5 DEF IInv, PoolInv, Counted
  <2>6. ASSUME service_initialized PROVE Placed'
    BY <1>1, <1>3, <2>3, <2>6, LogAssumption DEF IInv, PoolInv, Placed
  <2> QED
    BY <2>3, <2>4, <2>5, <2>6 DEF PoolInv
<1> QED
  BY <1>4, <1>5, <1>6, <1>7 DEF IInv

(* imu_log_submit of an event that is dropped counts it, up to the bound.   *)
LEMMA DroppedIInv == ASSUME IInv, SubmitDropped PROVE IInv'
<1>1. UNCHANGED <<flags, mq, imuVars, logVars>>
  BY DEF SubmitDropped
<1>2. log_drop_count' \in 0 .. MaxDrops
  BY LogAssumption DEF IInv, TypeOK, SubmitDropped
<1>3. TypeOK'
  BY <1>1, <1>2 DEF IInv, TypeOK, flags, mq, imuVars, logVars
<1> QED
  BY <1>1, <1>3 DEF IInv, ServiceInv, HeldInv, ApartInv, PoolInv, Placed,
     Counted, Capacity, flags, mq,
     imuVars, logVars

(* rt_mq_send fills the block while it is in no list.                       *)
LEMMA FillIInv == ASSUME IInv, FillBlock PROVE IInv'
<1>1. /\ imu = "fill" /\ imu' = "link"
      /\ content' = [content EXCEPT ![imu_block] = event]
      /\ UNCHANGED <<flags, log_drop_count, free, queue, event, imu_block, logVars>>
  BY DEF FillBlock
<1>2. content' \in [Blocks -> Events \cup {NoEvent}]
  BY <1>1 DEF IInv, TypeOK
<1>3. TypeOK'
  BY <1>1, <1>2 DEF IInv, TypeOK, flags, logVars
<1> QED
  BY <1>1, <1>3 DEF IInv, ServiceInv, HeldInv, ApartInv, PoolInv, Placed,
     Counted, Capacity, flags, logVars

(* rt_mq_send links the block: it is in the queue alone.                    *)
LEMMA LinkIInv == ASSUME IInv, LinkBlock PROVE IInv'
<1>1. /\ imu = "link" /\ imu' = "idle" /\ imu_block' = NoBlock
      /\ queue' = Append(queue, imu_block)
      /\ UNCHANGED <<flags, log_drop_count, content, free, event, logVars>>
  BY DEF LinkBlock
<1>2. imu_block \in Blocks /\ imu_block # NoBlock
  BY <1>1 DEF IInv, TypeOK, HeldInv
<1>3. /\ queue' \in Seq(Blocks) /\ Len(queue') = Len(queue) + 1 /\ Len(queue) \in Nat
      /\ ToSet(queue') = ToSet(queue) \cup {imu_block} /\ NoRepeats(queue')
  BY <1>1, <1>2, AppendApart DEF IInv, TypeOK, ApartInv
<1>4. TypeOK'
  BY <1>1, <1>3 DEF IInv, TypeOK, flags, logVars
<1>5. ServiceInv' /\ HeldInv'
  BY <1>1 DEF IInv, ServiceInv, HeldInv, flags, logVars
<1>6. ApartInv'
  <2>1. NoBlock \notin free /\ NoBlock \notin ToSet(queue) /\ NoBlock # imu_block
    BY <1>2, LogAssumption DEF IInv, TypeOK, ToSet
  <2>2. UNCHANGED <<free, log_block>>
    BY <1>1 DEF logVars
  <2> QED
    BY <1>1, <1>2, <1>3, <2>1, <2>2 DEF IInv, ApartInv
<1>7. PoolInv'
  <2>1. Cardinality(free) \in Nat /\ One(log_block) \in Nat
    BY FreeFinite DEF IInv, TypeOK, One
  <2>2. One(imu_block) = 1 /\ One(imu_block') = 0
    BY <1>1, <1>2 DEF One
  <2>3. UNCHANGED <<service_initialized, free, log_block>> /\ Capacity' = Capacity
    BY <1>1 DEF flags, logVars, Capacity
  <2>4. ASSUME service_initialized PROVE Counted'
    BY <1>3, <2>1, <2>2, <2>3, <2>4 DEF IInv, PoolInv, Counted
  <2>5. ASSUME service_initialized PROVE Placed'
    BY <1>3, <2>3, <2>5 DEF IInv, PoolInv, Placed
  <2> QED
    BY <2>3, <2>4, <2>5 DEF PoolInv
<1> QED
  BY <1>4, <1>5, <1>6, <1>7 DEF IInv

(* The IMU thread starts only when the log is enabled, and stops between    *)
(* two events.                                                              *)
LEMMA ImuIInv == ASSUME IInv, ImuStarts \/ ImuStops PROVE IInv'
<1>1. /\ UNCHANGED <<flags, log_drop_count, mq, event, imu_block, logVars>>
      /\ imu \in {"stopped", "idle"} /\ imu' \in {"stopped", "idle"}
      /\ imu' = "stopped" \/ service_enabled
  BY DEF ImuStarts, ImuStops
<1>2. TypeOK'
  BY <1>1 DEF IInv, TypeOK, flags, mq, logVars
<1>3. ServiceInv'
  BY <1>1 DEF IInv, ServiceInv, flags, logVars
<1> QED
  BY <1>1, <1>2, <1>3 DEF IInv, HeldInv, ApartInv, PoolInv, Placed, Counted,
     Capacity, mq, flags, logVars

-----------------------------------------------------------------------------
(* imu_log_thread_entry tests the request to stop and returns, holding      *)
(* nothing.                                                                 *)
LEMMA LoopIInv == ASSUME IInv, LoopTest \/ StopTest PROVE IInv'
<1>1. /\ UNCHANGED <<service_initialized, service_enabled, thread_should_run, deiniting,
                      log_drop_count, mq, imuVars, log_block, received, printed>>
      /\ logger \in {"loop", "test"}
      /\ \/ logger' \in {"receive", "print"} /\ thread_stopped' = thread_stopped
         \/ logger' = "none" /\ thread_stopped' = TRUE
  BY DEF LoopTest, StopTest
<1>2. TypeOK'
  BY <1>1 DEF IInv, TypeOK, mq, imuVars
<1>3. ServiceInv' /\ HeldInv'
  BY <1>1 DEF IInv, ServiceInv, HeldInv, imuVars
<1> QED
  BY <1>1, <1>2, <1>3 DEF IInv, ApartInv, PoolInv, Placed, Counted, Capacity,
     mq, imuVars

(* imu_log_thread_entry waits, copies or prints: no block moves.            *)
LEMMA QuietIInv ==
  ASSUME IInv, ReceiveTimesOut \/ CopyBlock \/ PrintEvent
  PROVE  IInv'
<1>1. /\ UNCHANGED <<flags, log_drop_count, mq, imuVars, log_block>>
      /\ \/ logger \in {"receive", "print"} /\ logger' = "loop"
         \/ logger = "copy" /\ logger' = "free"
  BY DEF ReceiveTimesOut, CopyBlock, PrintEvent
<1>2. received' \in Events \cup {NoEvent} /\ printed' \in Events \cup {NoEvent}
  <2>1. CASE CopyBlock
    <3>1. log_block \in Blocks
      BY <2>1 DEF IInv, TypeOK, HeldInv, CopyBlock
    <3> QED
      BY <2>1, <3>1 DEF IInv, TypeOK, CopyBlock
  <2>2. CASE ReceiveTimesOut \/ PrintEvent
    BY <2>2 DEF IInv, TypeOK, ReceiveTimesOut, PrintEvent
  <2> QED
    BY <2>1, <2>2
<1>3. TypeOK'
  BY <1>1, <1>2 DEF IInv, TypeOK, flags, mq, imuVars
<1> QED
  BY <1>1, <1>3 DEF IInv, ServiceInv, HeldInv, ApartInv, PoolInv, Placed,
     Counted, Capacity, flags, mq, imuVars

(* rt_mq_recv unlinks the first block: the logger alone has it.             *)
LEMMA UnlinkIInv == ASSUME IInv, UnlinkBlock PROVE IInv'
<1>1. /\ logger = "receive" /\ queue # <<>> /\ logger' = "copy"
      /\ log_block' = Head(queue) /\ queue' = Tail(queue)
      /\ UNCHANGED <<flags, log_drop_count, content, free, imuVars, received, printed>>
  BY DEF UnlinkBlock
<1>2. /\ Head(queue) \in Blocks /\ Head(queue) # NoBlock /\ log_block = NoBlock
      /\ queue' \in Seq(Blocks) /\ Len(queue') = Len(queue) - 1 /\ Len(queue) \in Nat
      /\ ToSet(queue) = ToSet(queue') \cup {Head(queue)}
      /\ NoRepeats(queue') /\ Head(queue) \notin ToSet(queue')
  BY <1>1, TailApart, LogAssumption DEF IInv, TypeOK, ApartInv, HeldInv
<1>3. TypeOK'
  BY <1>1, <1>2 DEF IInv, TypeOK, flags, imuVars
<1>4. ServiceInv' /\ HeldInv'
  BY <1>1, <1>2 DEF IInv, ServiceInv, HeldInv, flags, imuVars
<1>5. ApartInv'
  BY <1>1, <1>2 DEF IInv, ApartInv, imuVars
<1>6. PoolInv'
  <2>1. Cardinality(free) \in Nat /\ One(imu_block) \in Nat
    BY FreeFinite DEF IInv, TypeOK, One
  <2>2. One(log_block) = 0 /\ One(log_block') = 1
    BY <1>1, <1>2 DEF One
  <2>3. UNCHANGED <<service_initialized, free, imu_block>> /\ Capacity' = Capacity
    BY <1>1 DEF flags, imuVars, Capacity
  <2>4. ASSUME service_initialized PROVE Counted'
    BY <1>2, <2>1, <2>2, <2>3, <2>4 DEF IInv, PoolInv, Counted
  <2>5. ASSUME service_initialized PROVE Placed'
    BY <1>1, <1>2, <2>3, <2>5, LogAssumption DEF IInv, PoolInv, Placed
  <2> QED
    BY <2>3, <2>4, <2>5 DEF PoolInv
<1> QED
  BY <1>3, <1>4, <1>5, <1>6 DEF IInv

(* rt_mq_recv puts the block back.                                          *)
LEMMA FreeIInv == ASSUME IInv, FreeBlock PROVE IInv'
<1>1. /\ logger = "free" /\ logger' = "test" /\ log_block' = NoBlock
      /\ free' = free \cup {log_block}
      /\ UNCHANGED <<flags, log_drop_count, content, queue, imuVars, received, printed>>
  BY DEF FreeBlock
<1>2. log_block \in Blocks /\ log_block # NoBlock
  BY <1>1 DEF IInv, TypeOK, HeldInv
<1>3. TypeOK'
  BY <1>1, <1>2 DEF IInv, TypeOK, flags, imuVars
<1>4. ServiceInv' /\ HeldInv'
  BY <1>1 DEF IInv, ServiceInv, HeldInv, flags, imuVars
<1>5. ApartInv'
  BY <1>1, <1>2, <1>3, LogAssumption DEF IInv, TypeOK, ApartInv, imuVars, ToSet
<1>6. PoolInv'
  <2>1. Cardinality(free') = Cardinality(free) + 1 /\ Cardinality(free) \in Nat
        /\ One(imu_block) \in Nat /\ Len(queue) \in Nat
    <3>1. log_block \notin free /\ IsFiniteSet(free) /\ Cardinality(free) \in Nat
      BY FreeFinite DEF IInv, TypeOK, ApartInv
    <3>2. Cardinality(free') = Cardinality(free) + 1
      BY <1>1, <3>1, FS_AddElement
    <3> QED
      BY <3>1, <3>2 DEF IInv, TypeOK, One
  <2>2. One(log_block) = 1 /\ One(log_block') = 0
    BY <1>1, <1>2 DEF One
  <2>3. UNCHANGED <<service_initialized, queue, imu_block>> /\ Capacity' = Capacity
    BY <1>1 DEF flags, imuVars, Capacity
  <2>4. ASSUME service_initialized PROVE Counted'
    BY <2>1, <2>2, <2>3, <2>4 DEF IInv, PoolInv, Counted
  <2>5. ASSUME service_initialized PROVE Placed'
    BY <1>1, <2>3, <2>5 DEF IInv, PoolInv, Placed
  <2> QED
    BY <2>3, <2>4, <2>5 DEF PoolInv
<1> QED
  BY <1>3, <1>4, <1>5, <1>6 DEF IInv

-----------------------------------------------------------------------------
(* imu_log_service_init: all blocks are free, for neither thread holds one. *)
LEMMA ServiceInitIInv == ASSUME IInv, ServiceInit PROVE IInv'
<1>1. /\ ~service_initialized /\ ~deiniting /\ service_initialized' = TRUE
      /\ service_enabled' = TRUE /\ thread_should_run' = TRUE /\ thread_stopped' = FALSE
      /\ log_drop_count' = 0 /\ free' = Blocks /\ queue' = <<>> /\ logger' = "loop"
      /\ UNCHANGED <<deiniting, content, imuVars, log_block, received, printed>>
  BY DEF ServiceInit
<1>2. imu_block = NoBlock /\ log_block = NoBlock
  BY <1>1 DEF IInv, ServiceInv, HeldInv
<1>3. TypeOK'
  <2>1. log_drop_count' \in 0 .. MaxDrops /\ queue' \in Seq(Blocks)
    BY <1>1, LogAssumption
  <2> QED
    BY <1>1, <2>1 DEF IInv, TypeOK, imuVars
<1>4. ServiceInv' /\ HeldInv'
  BY <1>1, <1>2 DEF IInv, ServiceInv, HeldInv, imuVars
<1>5. ApartInv'
  BY <1>1, <1>2, LogAssumption DEF ApartInv, imuVars, ToSet, NoRepeats
<1>6. PoolInv'
  <2>1. Cardinality(free') = Capacity /\ Capacity' = Capacity /\ Capacity \in Nat
    BY <1>1, LogAssumption, FS_CardinalityType DEF Capacity
  <2>2. One(imu_block') = 0 /\ One(log_block') = 0 /\ Len(queue') = 0
    BY <1>1, <1>2 DEF One, imuVars
  <2> QED
    BY <1>1, <2>1, <2>2 DEF PoolInv, Placed, Counted
<1> QED
  BY <1>3, <1>4, <1>5, <1>6 DEF IInv

(* imu_log_service_init that fails, and imu_log_service_deinit up to its    *)
(* wait: the request to stop, and the end of the patience.                  *)
LEMMA StopIInv ==
  ASSUME IInv, ServiceInitFails \/ DeinitRequest \/ DeinitTimesOut
  PROVE  IInv'
<1>1. /\ UNCHANGED <<service_initialized, mq, imuVars, logVars>>
      /\ service_enabled' \in {FALSE, service_enabled}
      /\ thread_should_run' \in {FALSE, thread_should_run}
      /\ thread_stopped' \in {FALSE, thread_stopped}
      /\ deiniting' \in {TRUE, FALSE}
  BY DEF ServiceInitFails, DeinitRequest, DeinitTimesOut, IInv, TypeOK
<1>2. ~service_enabled' => imu' = "stopped"
  <2>1. CASE ServiceInitFails
    BY <2>1 DEF ServiceInitFails, IInv, ServiceInv, imuVars
  <2>2. CASE DeinitRequest
    BY <2>2 DEF DeinitRequest, imuVars
  <2>3. CASE DeinitTimesOut
    BY <2>3 DEF DeinitTimesOut, IInv, ServiceInv, imuVars
  <2> QED
    BY <2>1, <2>2, <2>3
<1>3. deiniting' => service_initialized' /\ ~service_enabled'
  <2>1. CASE ServiceInitFails
    BY <2>1 DEF ServiceInitFails
  <2>2. CASE DeinitRequest
    BY <2>2 DEF DeinitRequest
  <2>3. CASE DeinitTimesOut
    BY <2>3 DEF DeinitTimesOut
  <2> QED
    BY <2>1, <2>2, <2>3
<1>4. service_enabled' => service_initialized'
  BY <1>1 DEF IInv, ServiceInv
<1>5. log_drop_count' \in 0 .. MaxDrops
  BY LogAssumption DEF ServiceInitFails, DeinitRequest, DeinitTimesOut, IInv,
     TypeOK
<1>6. {service_initialized', service_enabled', thread_should_run', thread_stopped',
       deiniting'} \subseteq BOOLEAN
  BY <1>1 DEF IInv, TypeOK
<1>7. TypeOK'
  BY <1>1, <1>5, <1>6 DEF IInv, TypeOK, mq, imuVars, logVars
<1>8. ServiceInv'
  <2>1. thread_stopped' => thread_stopped
    BY <1>1
  <2>2. logger' = logger /\ service_initialized' = service_initialized
    BY <1>1 DEF logVars
  <2> QED
    BY <1>2, <1>3, <1>4, <2>1, <2>2 DEF IInv, ServiceInv
<1> QED
  BY <1>1, <1>7, <1>8 DEF IInv, HeldInv, ApartInv, PoolInv, Placed, Counted,
     Capacity, mq, imuVars, logVars

(* imu_log_service_deinit detaches the queue after the logger has stopped.  *)
LEMMA DetachIInv == ASSUME IInv, DeinitDetaches PROVE IInv'
<1>1. /\ deiniting /\ thread_stopped /\ deiniting' = FALSE
      /\ service_initialized' = FALSE /\ thread_stopped' = FALSE
      /\ free' = {} /\ queue' = <<>>
      /\ UNCHANGED <<service_enabled, thread_should_run, log_drop_count, content, imuVars,
                      logVars>>
  BY DEF DeinitDetaches
<1>2. TypeOK'
  <2>1. queue' \in Seq(Blocks)
    BY <1>1
  <2> QED
    BY <1>1, <2>1 DEF IInv, TypeOK, imuVars, logVars
<1>3. ServiceInv' /\ HeldInv'
  BY <1>1 DEF IInv, ServiceInv, HeldInv, imuVars, logVars
<1>4. ApartInv'
  BY <1>1 DEF IInv, ApartInv, imuVars, logVars, ToSet, NoRepeats
<1>5. PoolInv'
  BY <1>1 DEF PoolInv
<1> QED
  BY <1>2, <1>3, <1>4, <1>5 DEF IInv

-----------------------------------------------------------------------------
(* Every step keeps the invariant.                                          *)
LEMMA NextIInv == ASSUME IInv, [Next]_vars PROVE IInv'
<1>1. CASE UNCHANGED vars
  BY <1>1 DEF vars, flags, mq, imuVars, logVars, IInv, TypeOK, ServiceInv,
     HeldInv,
     ApartInv, PoolInv, Placed, Counted, Capacity
<1>2. CASE Submit \/ ImuStarts \/ ImuStops
  BY <1>2, TakesIInv, DroppedIInv, FillIInv, LinkIInv, ImuIInv DEF Submit
<1>3. CASE Logger
  BY <1>3, LoopIInv, QuietIInv, UnlinkIInv, FreeIInv DEF Logger
<1>4. CASE ServiceInit \/ ServiceInitFails \/ DeinitRequest \/ DeinitTimesOut \/ DeinitDetaches
  BY <1>4, ServiceInitIInv, StopIInv, DetachIInv
<1> QED
  BY <1>1, <1>2, <1>3, <1>4 DEF Next

(* The invariant of the log service is inductive.                           *)
THEOREM LogInvariant == Spec => []IInv
  BY InitIInv, NextIInv, PTL DEF Spec

(* The queue keeps its capacity, no block is lost or used twice, and it is  *)
(* detached from under neither thread, for any number of blocks.            *)
THEOREM LogQueueIntact == Spec => []QueueIntact
<1>1. IInv => QueueIntact
  <2> SUFFICES ASSUME IInv PROVE QueueIntact
    OBVIOUS
  <2>1. TypeOK /\ DetachedUnused
    BY DEF IInv, ServiceInv, DetachedUnused
  <2>2. BlocksConserved
    <3> SUFFICES ASSUME service_initialized
                 PROVE  /\ Blocks = free \cup ToSet(queue) \cup ({imu_block, log_block} \ {NoBlock})
                        /\ Capacity = Cardinality(free) + Len(queue)
                             + (IF imu_block = NoBlock THEN 0 ELSE 1)
                             + (IF log_block = NoBlock THEN 0 ELSE 1)
      BY DEF BlocksConserved
    <3>1. ToSet(queue) \subseteq Blocks
      BY DEF IInv, TypeOK, ToSet
    <3>2. Blocks = free \cup ToSet(queue) \cup ({imu_block, log_block} \ {NoBlock})
      BY <3>1, LogAssumption DEF IInv, TypeOK, PoolInv, Placed
    <3>3. Capacity = Cardinality(free) + Len(queue) + One(imu_block) + One(log_block)
      BY DEF IInv, PoolInv, Counted
    <3> QED
      BY <3>2, <3>3 DEF One
  <2> QED
    BY <2>1, <2>2 DEF QueueIntact
<1> QED
  BY <1>1, LogInvariant, PTL

-----------------------------------------------------------------------------
(* LogQueue implements LossyLog *)

(* The log is enabled exactly while its thread should run, and the IMU       *)
(* thread hands an event over unchanged.                                    *)
HandOverInv ==
  /\ thread_should_run = service_enabled
  /\ imu \in {"fill", "link"} => event \in Events
  /\ imu = "link" => content[imu_block] = event

Kept == Events \cup {NoEvent}

(* The events that wait in the blocks of a queue. *)
Waiting(c, q) == [i \in 1 .. Len(q) |-> c[q[i]]]

(* A function on the first n numbers is a sequence of length n. *)
LEMMA FunctionIsSeq ==
  ASSUME NEW S, NEW n \in Nat, NEW f \in [1 .. n -> S]
  PROVE  f \in Seq(S) /\ Len(f) = n
  OBVIOUS

LEMMA WaitingType ==
  ASSUME NEW c \in [Blocks -> Kept], NEW q \in Seq(Blocks)
  PROVE  Waiting(c, q) \in Seq(Kept) /\ Len(Waiting(c, q)) = Len(q)
<1>1. Len(q) \in Nat /\ \A i \in 1 .. Len(q) : c[q[i]] \in Kept
  BY LenProperties
<1>2. Waiting(c, q) \in [1 .. Len(q) -> Kept]
  BY <1>1 DEF Waiting
<1> QED
  BY <1>1, <1>2, FunctionIsSeq

(* Blocks that are not in the queue may be filled. *)
LEMMA WaitingFilled ==
  ASSUME NEW c \in [Blocks -> Kept], NEW q \in Seq(Blocks),
         NEW b \in Blocks, b \notin ToSet(q), NEW e \in Kept
  PROVE  Waiting([c EXCEPT ![b] = e], q) = Waiting(c, q)
<1>1. \A i \in 1 .. Len(q) : q[i] \in Blocks /\ q[i] # b
  BY LenProperties DEF ToSet
<1>2. \A i \in 1 .. Len(q) : [c EXCEPT ![b] = e][q[i]] = c[q[i]]
  BY <1>1
<1> QED
  BY <1>2, Zenon DEF Waiting

LEMMA WaitingAppend ==
  ASSUME NEW c \in [Blocks -> Kept], NEW q \in Seq(Blocks), NEW b \in Blocks
  PROVE  Waiting(c, Append(q, b)) = Append(Waiting(c, q), c[b])
<1> DEFINE a == Append(q, b)
           w == Append(Waiting(c, q), c[b])
<1>1. /\ a \in Seq(Blocks) /\ Len(a) = Len(q) + 1 /\ Len(q) \in Nat
      /\ \A i \in 1 .. Len(q) : a[i] = q[i]
      /\ a[Len(q) + 1] = b
  BY AppendProperties, LenProperties
<1>2. Waiting(c, a) \in Seq(Kept) /\ Len(Waiting(c, a)) = Len(q) + 1
  BY <1>1, WaitingType
<1>3. Waiting(c, q) \in Seq(Kept) /\ Len(Waiting(c, q)) = Len(q) /\ c[b] \in Kept
  BY WaitingType
<1>4. /\ w \in Seq(Kept) /\ Len(w) = Len(q) + 1
      /\ \A i \in 1 .. Len(q) : w[i] = Waiting(c, q)[i]
      /\ w[Len(q) + 1] = c[b]
  BY <1>3, AppendProperties
<1> HIDE DEF a, w
<1>5. \A i \in 1 .. Len(q) + 1 : Waiting(c, a)[i] = w[i]
  BY <1>1, <1>4 DEF Waiting
<1>6. Waiting(c, a) = w
  BY <1>2, <1>4, <1>5, SeqEqual
<1> QED
  BY <1>6 DEF a, w

LEMMA WaitingHead ==
  ASSUME NEW c \in [Blocks -> Kept], NEW q \in Seq(Blocks), q # <<>>
  PROVE  Waiting(c, q) = <<c[Head(q)]>> \o Waiting(c, Tail(q))
<1> DEFINE t == Tail(q)
           w == <<c[Head(q)]>> \o Waiting(c, t)
<1>1. /\ t \in Seq(Blocks) /\ Len(t) = Len(q) - 1 /\ Len(q) \in Nat \ {0}
      /\ \A i \in 1 .. Len(t) : t[i] = q[i + 1]
      /\ Head(q) = q[1] /\ Head(q) \in Blocks
  BY HeadTailProperties, EmptySeq
<1>2. Waiting(c, q) \in Seq(Kept) /\ Len(Waiting(c, q)) = Len(q)
  BY WaitingType
<1>3. Waiting(c, t) \in Seq(Kept) /\ Len(Waiting(c, t)) = Len(t)
  BY <1>1, WaitingType
<1>4. <<c[Head(q)]>> \in Seq(Kept) /\ Len(<<c[Head(q)]>>) = 1
  BY <1>1
<1> HIDE DEF t
<1>5. /\ w \in Seq(Kept) /\ Len(w) = 1 + Len(t)
      /\ \A i \in 1 .. 1 + Len(t) :
           w[i] = IF i <= 1 THEN <<c[Head(q)]>>[i] ELSE Waiting(c, t)[i - 1]
  BY <1>3, <1>4, ConcatProperties
<1> HIDE DEF w
<1>6. \A i \in 1 .. Len(q) : Waiting(c, q)[i] = w[i]
  <2> SUFFICES ASSUME NEW i \in 1 .. Len(q) PROVE Waiting(c, q)[i] = w[i]
    OBVIOUS
  <2>1. Waiting(c, q)[i] = c[q[i]]
    BY DEF Waiting
  <2>2. CASE i = 1
    BY <1>1, <1>5, <2>1, <2>2
  <2>3. CASE i # 1
    <3>1. i - 1 \in 1 .. Len(t) /\ i \in 1 .. 1 + Len(t) /\ ~(i <= 1)
      BY <1>1, <2>3
    <3>2. w[i] = Waiting(c, t)[i - 1]
      BY <1>5, <3>1
    <3>3. Waiting(c, t)[i - 1] = c[t[i - 1]]
      BY <3>1 DEF Waiting
    <3>4. t[i - 1] = q[i]
      BY <1>1, <3>1
    <3> QED
      BY <2>1, <3>2, <3>3, <3>4
  <2> QED
    BY <2>2, <2>3
<1>7. Waiting(c, q) = w
  BY <1>1, <1>2, <1>5, <1>6, SeqEqual
<1> QED
  BY <1>7 DEF t, w

-----------------------------------------------------------------------------
(* Each step keeps the hand-over, and is a step of the lossy log or none. *)

LEMMA NextHandOver == ASSUME IInv, HandOverInv, [Next]_vars PROVE HandOverInv'
<1>1. CASE SubmitTakesBlock
  BY <1>1 DEF SubmitTakesBlock, HandOverInv, flags
<1>2. CASE FillBlock
  BY <1>2 DEF FillBlock, HandOverInv, flags, IInv, TypeOK, HeldInv
<1>3. CASE SubmitDropped \/ LinkBlock \/ ImuStarts \/ ImuStops
  BY <1>3 DEF SubmitDropped, LinkBlock, ImuStarts, ImuStops, HandOverInv,
              flags, mq, imuVars
<1>4. CASE Logger
  BY <1>4 DEF Logger, LoopTest, ReceiveTimesOut, UnlinkBlock, CopyBlock, FreeBlock,
              StopTest, PrintEvent, HandOverInv, flags, mq, imuVars
<1>5. CASE ServiceInit \/ ServiceInitFails \/ DeinitRequest \/ DeinitTimesOut \/ DeinitDetaches
  BY <1>5 DEF ServiceInit, ServiceInitFails, DeinitRequest, DeinitTimesOut,
              DeinitDetaches, HandOverInv, flags, mq, imuVars
<1>6. CASE UNCHANGED vars
  BY <1>6 DEF vars, flags, mq, imuVars, HandOverInv
<1> QED
  BY <1>1, <1>2, <1>3, <1>4, <1>5, <1>6 DEF Next, Submit

LEMMA HandOver == Spec => [](IInv /\ HandOverInv)
<1>1. Init => HandOverInv
  BY DEF Init, HandOverInv
<1>2. IInv /\ HandOverInv /\ [Next]_vars => HandOverInv'
  BY NextHandOver
<1> QED
  BY <1>1, <1>2, LogInvariant, PTL DEF Spec

(* What is pending, by parts: what the logger holds, then what waits. *)
Queued == Waiting(content, queue)

PendingParts ==
  Pending = IF thread_should_run THEN Held \o Queued
            ELSE IF logger = "print" THEN Held ELSE <<>>

LEMMA PendingIs == PendingParts /\ PendingParts'
<1>1. PendingParts
  BY Zenon DEF PendingParts, Pending, Queued, Waiting
<1>2. PendingParts'
  BY Zenon DEF PendingParts, Pending, Queued, Waiting
<1> QED
  BY <1>1, <1>2

LEMMA Singleton == \A x \in Kept : <<x>> \in Seq(Kept) /\ Len(<<x>>) = 1
  OBVIOUS

(* The logger holds at most one event, and one exactly with its block or     *)
(* with what it received.                                                   *)
LEMMA HeldIs ==
  ASSUME IInv
  PROVE  /\ logger = "copy" => Held = <<content[log_block]>> /\ content[log_block] \in Kept
         /\ logger \in {"free", "test", "print"} => Held = <<received>> /\ received \in Kept
         /\ logger \notin {"copy", "free", "test", "print"} => Held = <<>>
         /\ Held \in Seq(Kept) /\ Len(Held) \in 0 .. 1
         /\ Queued \in Seq(Kept) /\ Len(Queued) = Len(queue)
         /\ Len(queue) \in Nat /\ Len(Held \o Queued) = Len(Held) + Len(queue)
<1>1. logger = "copy" => content[log_block] \in Kept
  BY DEF IInv, TypeOK, HeldInv, Kept
<1>2. received \in Kept /\ content \in [Blocks -> Kept] /\ queue \in Seq(Blocks)
  BY DEF IInv, TypeOK, Kept
<1>3. Queued \in Seq(Kept) /\ Len(Queued) = Len(queue)
  BY <1>2, WaitingType DEF Queued
<1>4. /\ logger = "copy" => Held = <<content[log_block]>>
      /\ logger \in {"free", "test", "print"} => Held = <<received>>
      /\ logger \notin {"copy", "free", "test", "print"} => Held = <<>>
  BY DEF Held
<1>5. Held \in Seq(Kept) /\ Len(Held) \in 0 .. 1
  <2>1. CASE logger = "copy"
    BY <1>1, <1>4, <2>1, Singleton
  <2>2. CASE logger \in {"free", "test", "print"}
    <3>1. Held = <<received>>
      BY <1>4, <2>2
    <3> QED
      BY <1>2, <3>1, Singleton
  <2>3. CASE logger \notin {"copy", "free", "test", "print"}
    BY <1>4, <2>3
  <2> QED
    BY <2>1, <2>2, <2>3
<1>6. Len(queue) \in Nat /\ Len(Held \o Queued) = Len(Held) + Len(queue)
  BY <1>2, <1>3, <1>5, LenProperties, ConcatProperties
<1> QED
  BY <1>1, <1>2, <1>3, <1>4, <1>5, <1>6

(* imu_log_submit: only linking the block accepts the event, and a drop is    *)
(* counted only when the queue is full.                                     *)
LEMMA SubmitImplements ==
  ASSUME IInv, HandOverInv, Submit
  PROVE  [Log!Next]_Log!vars
<1>0. /\ Held \in Seq(Kept) /\ Len(Held) \in 0 .. 1 /\ Queued \in Seq(Kept)
      /\ Len(queue) \in Nat /\ Len(Held \o Queued) = Len(Held) + Len(queue)
      /\ Capacity \in Nat
  BY HeldIs, LogAssumption, FS_CardinalityType DEF Capacity
<1>a. Len(Held) \in 0 .. 1 /\ Len(queue) \in Nat /\ Capacity \in Nat
  BY <1>0
<1>1. CASE SubmitTakesBlock \/ FillBlock
  <2>1. Queued' = Queued
    <3>1. CASE SubmitTakesBlock
      BY <3>1 DEF SubmitTakesBlock, Queued
    <3>2. CASE FillBlock
      BY <3>2, WaitingFilled DEF FillBlock, Queued, IInv, TypeOK, HeldInv, ApartInv, Kept
    <3> QED
      BY <1>1, <3>1, <3>2
  <2>2. Held' = Held
    <3>1. CASE SubmitTakesBlock
      BY <3>1 DEF SubmitTakesBlock, Held, logVars
    <3>2. CASE FillBlock
      <4>1. logger = "copy" => content'[log_block] = content[log_block]
        BY <3>2 DEF FillBlock, IInv, TypeOK, HeldInv, ApartInv
      <4> QED
        BY <3>2, <4>1 DEF FillBlock, Held, logVars
    <3> QED
      BY <1>1, <3>1, <3>2
  <2>3. UNCHANGED <<thread_should_run, logger, log_drop_count, printed>>
    BY <1>1 DEF SubmitTakesBlock, FillBlock, flags, logVars
  <2> QED
    BY <2>1, <2>2, <2>3, PendingIs DEF PendingParts, Log!vars
<1>2. CASE SubmitDropped
  <2>1. UNCHANGED <<thread_should_run, logger, printed>> /\ Held' = Held /\ Queued' = Queued
    BY <1>2 DEF SubmitDropped, flags, mq, logVars, Held, Queued
  <2>2. Pending' = Pending
    BY <2>1, PendingIs DEF PendingParts
  <2>3. log_drop_count' = log_drop_count \/ (log_drop_count < MaxDrops
                                              /\ log_drop_count' = log_drop_count + 1)
    BY <1>2 DEF SubmitDropped
  <2>4. Len(Pending) >= Capacity
    <3>1. service_enabled /\ free = {}
      BY <1>2 DEF SubmitDropped, IInv, ServiceInv
    <3>2. thread_should_run /\ service_initialized /\ imu_block = NoBlock
      BY <1>2, <3>1 DEF SubmitDropped, HandOverInv, IInv, ServiceInv, HeldInv
    <3>3. Capacity = Len(queue) + One(log_block)
      BY <3>1, <3>2, FS_EmptySet DEF IInv, PoolInv, Counted, One, TypeOK
    <3>4. log_block # NoBlock => Len(Held) = 1
      BY HeldIs, Singleton DEF IInv, HeldInv
    <3>5. Len(Pending) = Len(Held) + Len(queue)
      BY <1>0, <3>2, PendingIs DEF PendingParts
    <3> QED
      BY <1>a, <3>3, <3>4, <3>5 DEF One
  <2> QED
    BY <2>1, <2>2, <2>3, <2>4 DEF Log!Next, Log!Drop, Log!vars
<1>3. CASE LinkBlock
  <2>1. /\ imu = "link" /\ queue' = Append(queue, imu_block)
        /\ UNCHANGED <<flags, log_drop_count, content, logVars>>
    BY <1>3 DEF LinkBlock
  <2>2. /\ event \in Events /\ content[imu_block] = event
        /\ thread_should_run /\ service_initialized
        /\ imu_block \in Blocks /\ imu_block # NoBlock
    BY <2>1 DEF HandOverInv, IInv, ServiceInv, TypeOK, HeldInv
  <2>3. Queued' = Append(Queued, event)
    BY <2>1, <2>2, WaitingAppend DEF Queued, IInv, TypeOK, Kept
  <2>4. Held' = Held /\ thread_should_run'
    BY <2>1, <2>2 DEF Held, logVars, flags
  <2>5. Pending = Held \o Queued /\ Pending' = Held \o Append(Queued, event)
    BY <2>2, <2>3, <2>4, PendingIs DEF PendingParts
  <2>6. Held \o Append(Queued, event) = Append(Held \o Queued, event)
    <3>1. event \in Kept /\ <<event>> \in Seq(Kept)
      BY <2>2 DEF Kept
    <3>2. Append(Queued, event) = Queued \o <<event>>
      BY <3>1, HeldIs, AppendIsConcat
    <3>3. Held \o Queued \in Seq(Kept)
      BY HeldIs, ConcatProperties
    <3>4. Append(Held \o Queued, event) = (Held \o Queued) \o <<event>>
      BY <3>1, <3>3, AppendIsConcat
    <3> QED
      BY <3>1, <3>2, <3>4, HeldIs, ConcatAssociative
  <2>7. Len(Pending) <= Capacity
    <3>1. Capacity >= Len(queue) + 1
      <4>1. Capacity = Cardinality(free) + Len(queue) + One(imu_block) + One(log_block)
        BY <2>2 DEF IInv, PoolInv, Counted
      <4>2. Cardinality(free) \in Nat /\ One(imu_block) = 1 /\ One(log_block) \in Nat
        BY <2>2, FreeFinite DEF One, IInv, TypeOK
      <4> QED
        BY <1>0, <4>1, <4>2
    <3>2. Len(Pending) = Len(Held) + Len(queue)
      BY <1>0, <2>5
    <3>3. \A h \in 0 .. 1, q \in Nat, c \in Nat : c >= q + 1 => h + q <= c
      OBVIOUS
    <3>4. Len(Held) + Len(queue) <= Capacity
      BY <1>a, <3>1, <3>3, Zenon
    <3> QED
      BY <3>2, <3>4, Zenon
  <2>8. UNCHANGED <<log_drop_count, printed>>
    BY <2>1 DEF logVars
  <2> QED
    BY <2>2, <2>5, <2>6, <2>7, <2>8 DEF Log!Next, Log!Accept
<1> QED
  BY <1>1, <1>2, <1>3 DEF Submit

LEMMA FirstOut ==
  ASSUME NEW x \in Kept, NEW s \in Seq(Kept)
  PROVE  /\ <<x>> \o s # <<>> /\ Head(<<x>> \o s) = x /\ Tail(<<x>> \o s) = s
         /\ <<x>> # <<>> /\ Head(<<x>>) = x /\ Tail(<<x>>) = <<>>
<1> DEFINE w == <<x>> \o s
<1>1. /\ <<x>> \in Seq(Kept) /\ Len(<<x>>) = 1 /\ <<x>>[1] = x /\ Len(s) \in Nat
  BY Singleton, LenProperties
<1>2. /\ w \in Seq(Kept) /\ Len(w) = 1 + Len(s)
      /\ \A i \in 1 .. 1 + Len(s) : w[i] = IF i <= 1 THEN <<x>>[i] ELSE s[i - 1]
  BY <1>1, ConcatProperties
<1> HIDE DEF w
<1>3. w # <<>>
  BY <1>1, <1>2
<1>4. Head(w) = x
  BY <1>1, <1>2, <1>3
<1>5. Tail(w) = s
  <2>1. /\ Tail(w) \in Seq(Kept) /\ Len(Tail(w)) = Len(s)
        /\ \A i \in 1 .. Len(s) : Tail(w)[i] = w[i + 1]
    BY <1>1, <1>2, <1>3, HeadTailProperties
  <2>2. ASSUME NEW i \in 1 .. Len(s) PROVE Tail(w)[i] = s[i]
    <3>1. i + 1 \in 1 .. 1 + Len(s) /\ ~(i + 1 <= 1) /\ (i + 1) - 1 = i
      BY <1>1
    <3> QED
      BY <1>2, <2>1, <3>1
  <2> QED
    BY <2>1, <2>2, SeqEqual
<1>6. <<x>> # <<>> /\ Head(<<x>>) = x /\ Tail(<<x>>) = <<>>
  OBVIOUS
<1> QED
  BY <1>3, <1>4, <1>5, <1>6 DEF w

(* imu_log_thread_entry: an event moves from the queue through the block to   *)
(* the local copy and is pending all the way, until it is printed.          *)
LEMMA LoggerImplements ==
  ASSUME IInv, HandOverInv, Logger
  PROVE  [Log!Next]_Log!vars
<1>0. /\ Held \in Seq(Kept) /\ Queued \in Seq(Kept)
      /\ content \in [Blocks -> Kept] /\ queue \in Seq(Blocks) /\ received \in Kept
  BY HeldIs DEF IInv, TypeOK, Kept
<1>1. CASE LoopTest \/ ReceiveTimesOut \/ StopTest
  <2>1. UNCHANGED <<thread_should_run, log_drop_count, printed, received>> /\ Queued' = Queued
    BY <1>1 DEF LoopTest, ReceiveTimesOut, StopTest, flags, mq, Queued
  <2>2. thread_should_run => Held' = Held
    BY <1>1 DEF LoopTest, ReceiveTimesOut, StopTest, Held
  <2>3. ~thread_should_run => logger # "print" /\ logger' # "print"
    BY <1>1 DEF LoopTest, ReceiveTimesOut, StopTest
  <2> QED
    BY <2>1, <2>2, <2>3, PendingIs DEF PendingParts, Log!vars
<1>2. CASE UnlinkBlock
  <2>1. /\ logger = "receive" /\ queue # <<>> /\ logger' = "copy"
        /\ log_block' = Head(queue) /\ queue' = Tail(queue)
        /\ UNCHANGED <<thread_should_run, log_drop_count, content, printed>>
    BY <1>2 DEF UnlinkBlock, flags
  <2>2. Held = <<>> /\ Held' = <<content[Head(queue)]>>
    BY <2>1 DEF Held
  <2>3. Held \o Queued = Queued
    BY <1>0, <2>2, ConcatEmptySeq
  <2>4. Queued = Held' \o Queued'
    BY <1>0, <2>1, <2>2, WaitingHead DEF Queued
  <2> QED
    BY <2>1, <2>3, <2>4, PendingIs DEF PendingParts, Log!vars
<1>3. CASE CopyBlock \/ FreeBlock
  <2>1. UNCHANGED <<thread_should_run, log_drop_count, printed>> /\ Queued' = Queued
    BY <1>3 DEF CopyBlock, FreeBlock, flags, mq, Queued
  <2>2. Held' = Held /\ logger # "print" /\ logger' # "print"
    BY <1>3 DEF CopyBlock, FreeBlock, mq, Held
  <2> QED
    BY <2>1, <2>2, PendingIs DEF PendingParts, Log!vars
<1>4. CASE PrintEvent
  <2>1. /\ logger = "print" /\ logger' = "loop" /\ printed' = received
        /\ UNCHANGED <<thread_should_run, log_drop_count>> /\ Queued' = Queued
    BY <1>4 DEF PrintEvent, flags, mq, Queued
  <2>2. Held = <<received>> /\ Held' = <<>>
    BY <2>1 DEF Held
  <2>3. Held' \o Queued' = Queued
    BY <1>0, <2>1, <2>2, ConcatEmptySeq
  <2>4. Pending # <<>> /\ printed' = Head(Pending) /\ Pending' = Tail(Pending)
    <3>1. CASE thread_should_run
      <4>1. Pending = <<received>> \o Queued /\ Pending' = Queued
        BY <2>1, <2>2, <2>3, <3>1, PendingIs DEF PendingParts
      <4> QED
        BY <1>0, <2>1, <4>1, FirstOut
    <3>2. CASE ~thread_should_run
      <4>1. Pending = <<received>> /\ Pending' = <<>>
        BY <2>1, <2>2, <3>2, PendingIs DEF PendingParts
      <4> QED
        BY <1>0, <2>1, <4>1, FirstOut
    <3> QED
      BY <3>1, <3>2
  <2> QED
    BY <2>1, <2>4 DEF Log!Next, Log!Output
<1> QED
  BY <1>1, <1>2, <1>3, <1>4 DEF Logger

(* imu_log_service_init starts an empty log; imu_log_service_deinit keeps at  *)
(* most the event that is being printed.                                    *)
LEMMA ServiceImplements ==
  ASSUME IInv, HandOverInv,
         ServiceInit \/ ServiceInitFails \/ DeinitRequest \/ DeinitTimesOut \/ DeinitDetaches
  PROVE  [Log!Next]_Log!vars
<1>0. Held \in Seq(Kept) /\ Queued \in Seq(Kept) /\ received \in Kept
  BY HeldIs DEF IInv, TypeOK, Kept
<1>1. CASE ServiceInit \/ ServiceInitFails
  <2>1. ~service_initialized /\ ~thread_should_run /\ logger = "none"
    BY <1>1 DEF ServiceInit, ServiceInitFails, IInv, ServiceInv, HandOverInv
  <2>2. Pending = <<>>
    BY <2>1, PendingIs DEF PendingParts
  <2>3. Pending' = <<>>
    <3>1. CASE ServiceInit
      <4>1. thread_should_run' /\ queue' = <<>> /\ logger' = "loop"
        BY <3>1 DEF ServiceInit
      <4>2. Held' = <<>> /\ Queued' = <<>>
        BY <4>1 DEF Held, Queued, Waiting
      <4>3. Held' \o Queued' = <<>>
        BY <4>2
      <4> QED
        BY <4>1, <4>3, PendingIs DEF PendingParts
    <3>2. CASE ServiceInitFails
      BY <2>1, <3>2, PendingIs DEF PendingParts, ServiceInitFails, logVars
    <3> QED
      BY <1>1, <3>1, <3>2
  <2>4. log_drop_count' = 0 /\ printed' = printed
    BY <1>1 DEF ServiceInit, ServiceInitFails, logVars
  <2> QED
    BY <2>2, <2>3, <2>4 DEF Log!Next, Log!Start
<1>2. CASE DeinitRequest
  <2>1. /\ ~thread_should_run'
        /\ UNCHANGED <<logger, log_drop_count, printed>> /\ Held' = Held
    BY <1>2 DEF DeinitRequest, logVars, mq, Held
  <2>2. CASE ~thread_should_run
    BY <2>1, <2>2, PendingIs DEF PendingParts, Log!vars
  <2>3. CASE thread_should_run /\ logger = "print"
    <3>1. Held = <<received>>
      BY <2>3 DEF Held
    <3>2. Pending = <<received>> \o Queued /\ Pending' = <<received>>
      BY <2>1, <2>3, <3>1, PendingIs DEF PendingParts
    <3>3. Pending # <<>> /\ Pending' = <<Head(Pending)>>
      BY <1>0, <3>2, FirstOut
    <3> QED
      BY <2>1, <3>3 DEF Log!Next, Log!Stop
  <2>4. CASE thread_should_run /\ logger # "print"
    <3>1. Pending' = <<>>
      BY <2>1, <2>4, PendingIs DEF PendingParts
    <3>2. CASE Pending = <<>>
      BY <2>1, <3>1, <3>2 DEF Log!vars
    <3>3. CASE Pending # <<>>
      BY <2>1, <3>1, <3>3 DEF Log!Next, Log!Stop
    <3> QED
      BY <3>2, <3>3
  <2> QED
    BY <2>2, <2>3, <2>4
<1>3. CASE DeinitTimesOut \/ DeinitDetaches
  <2>1. ~thread_should_run /\ UNCHANGED <<thread_should_run, log_drop_count, logger, printed>>
        /\ Held' = Held
    BY <1>3 DEF DeinitTimesOut, DeinitDetaches, logVars, mq, Held, HandOverInv,
                IInv, ServiceInv
  <2> QED
    BY <2>1, PendingIs DEF PendingParts, Log!vars
<1> QED
  BY <1>1, <1>2, <1>3

(* The log service implements the lossy log: what was submitted is printed    *)
(* once, in order and unchanged, for any number of blocks and any events.   *)
THEOREM LogImplementsLossyLog == Spec => ImplementsLossyLog
<1>1. Init => Log!Init
  <2>1. Init => Pending = <<>>
    BY PendingIs DEF Init, PendingParts
  <2> QED
    BY <2>1 DEF Init, Log!Init
<1>2. IInv /\ HandOverInv /\ [Next]_vars => [Log!Next]_Log!vars
  <2> SUFFICES ASSUME IInv, HandOverInv, [Next]_vars PROVE [Log!Next]_Log!vars
    OBVIOUS
  <2>1. CASE UNCHANGED vars
    <3>1. Held' = Held /\ Queued' = Queued
          /\ UNCHANGED <<thread_should_run, logger, log_drop_count, printed>>
      BY <2>1 DEF vars, flags, mq, logVars, Held, Queued
    <3> QED
      BY <3>1, PendingIs DEF PendingParts, Log!vars
  <2>2. CASE ImuStarts \/ ImuStops
    <3>1. Held' = Held /\ Queued' = Queued
          /\ UNCHANGED <<thread_should_run, logger, log_drop_count, printed>>
      BY <2>2 DEF ImuStarts, ImuStops, flags, mq, logVars, Held, Queued
    <3> QED
      BY <3>1, PendingIs DEF PendingParts, Log!vars
  <2> QED
    BY <2>1, <2>2, SubmitImplements, LoggerImplements, ServiceImplements DEF Next
<1> QED
  BY <1>1, <1>2, HandOver, PTL DEF Spec, ImplementsLossyLog, Log!Spec

-----------------------------------------------------------------------------
(* From an event to its line: LogText *)

(* A set of numbers has a least one. *)
LEMMA Least ==
  ASSUME NEW R, R \subseteq Nat, R # {}
  PROVE  \E x \in R : \A y \in R : x <= y
<1>1. PICK x \in R : \A y \in R : ~(<<y, x>> \in OpToRel(<, Nat))
  BY NatLessThanWellFounded, WFMin
<1>2. ASSUME NEW y \in R PROVE x <= y
  <2>1. x \in Nat /\ y \in Nat
    OBVIOUS
  <2>2. ~(y < x)
    BY <1>1, <2>1 DEF OpToRel
  <2> QED BY <2>1, <2>2
<1> QED BY <1>2

-----------------------------------------------------------------------------
(* The line of an event.  A character of it is one of the texts' or a digit;  *)
(* the terminator is none.                                                  *)

Names ==
  {"IMU state", "initializing", "calibrating", "running", "fault_retry", "arrow",
   "accel", "gyro", "calibration complete", "newline", "digit", "spi",
   "accel_overrun", "gyro_overrun", "rejected_dt", "long_gap", "telemetry_drop",
   "reinit"}

Glyph == Names \X Nat

(* A digit of a number *)
Digit(d) == <<"digit", d>>

LEMMA DigitIs == \A d \in Nat : Digit(d) \in Glyph /\ Digit(d)[1] = "digit" /\ Digit(d)[2] = d
  BY DEF Glyph, Names, Digit

LEMMA NoTerminator == \A c \in Glyph : c # T!Nul
<1> SUFFICES ASSUME NEW a \in Names, NEW i \in Nat, <<a, i>> = T!Nul PROVE FALSE
  BY DEF Glyph
<1>1. a = "nul"
  BY DEF T!Nul
<1> QED BY <1>1 DEF Names

LEMMA TextIs ==
  ASSUME NEW name \in Names, NEW n \in Nat
  PROVE  /\ T!Text(name, n) \in Seq(Glyph) /\ Len(T!Text(name, n)) = n
         /\ \A i \in 1 .. n : T!Text(name, n)[i] = <<name, i>>
<1>1. T!Text(name, n) \in [1 .. n -> Glyph]
  BY DEF T!Text, Glyph
<1>2. \A i \in 1 .. n : T!Text(name, n)[i] = <<name, i>>
  BY DEF T!Text
<1> QED BY <1>1, <1>2, FunctionIsSeq

-----------------------------------------------------------------------------
(* write_uint.  The recursion has a solution up to every number, any two agree *)
(* where both are defined, and together they are the function.              *)

Digits(v, rest) == <<Digit(v % 10)>> \o (IF v < 10 THEN <<>> ELSE rest)

Solves(g, n) ==
  /\ g \in [0 .. n -> Seq(Glyph)]
  /\ \A v \in 0 .. n : g[v] = Digits(v, g[v \div 10])

LEMMA Tenth ==
  ASSUME NEW v \in Nat
  PROVE  /\ v \div 10 \in 0 .. v /\ v % 10 \in 0 .. 9 /\ v = 10 * (v \div 10) + (v % 10)
         /\ v >= 10 => v \div 10 < v
OBVIOUS

LEMMA DigitsIs ==
  ASSUME NEW v \in Nat, NEW rest \in Seq(Glyph)
  PROVE  Digits(v, rest) \in Seq(Glyph)
<1>1. v % 10 \in Nat /\ Digit(v % 10) \in Glyph
  BY Tenth, DigitIs
<1> QED BY <1>1 DEF Digits

LEMMA SolutionsAgree ==
  ASSUME NEW n \in Nat, NEW m \in Nat, NEW g, NEW h, Solves(g, n), Solves(h, m),
         NEW u \in 0 .. n, u \in 0 .. m
  PROVE  g[u] = h[u]
<1> DEFINE Differ == {v \in Nat : v \in 0 .. n /\ v \in 0 .. m /\ g[v] # h[v]}
<1> SUFFICES ASSUME u \in Differ PROVE FALSE
  OBVIOUS
<1>1. PICK v \in Differ : \A w \in Differ : v <= w
  BY Least
<1>2. v \in Nat /\ v \in 0 .. n /\ v \in 0 .. m /\ g[v] # h[v]
  OBVIOUS
<1>3. g[v] = Digits(v, g[v \div 10]) /\ h[v] = Digits(v, h[v \div 10])
  BY <1>2 DEF Solves
<1>4. v >= 10
  BY <1>2, <1>3 DEF Digits
<1>5. v \div 10 \in Nat /\ v \div 10 < v /\ v \div 10 \notin Differ
  BY <1>1, <1>2, <1>4, Tenth
<1>6. v \div 10 \in 0 .. n /\ v \div 10 \in 0 .. m
  BY <1>2, <1>5
<1>7. g[v \div 10] = h[v \div 10]
  BY <1>5, <1>6
<1> QED BY <1>2, <1>3, <1>7

LEMMA SolutionExists == \A n \in Nat : \E g : Solves(g, n)
<1> DEFINE Without == {n \in Nat : ~\E g : Solves(g, n)}
<1> SUFFICES ASSUME Without # {} PROVE FALSE
  OBVIOUS
<1>1. PICK n \in Without : \A k \in Without : n <= k
  <2> HIDE DEF Without
  <2>1. Without \subseteq Nat
    BY DEF Without
  <2> QED BY <2>1, Least
<1>2. CASE n = 0
  <2> DEFINE g == [v \in 0 .. 0 |-> <<Digit(0)>>]
  <2>1. <<Digit(0)>> \in Seq(Glyph) /\ <<Digit(0)>> \o <<>> = <<Digit(0)>>
    BY DigitIs
  <2>2. g \in [0 .. 0 -> Seq(Glyph)]
    BY <2>1
  <2>3. \A v \in 0 .. 0 : v % 10 = 0 /\ v < 10
    OBVIOUS
  <2>4. Solves(g, 0)
    BY <2>1, <2>2, <2>3 DEF Solves, Digits
  <2> QED BY <1>2, <2>4
<1>3. CASE n # 0
  <2>1. n - 1 \in Nat /\ n - 1 \notin Without
    BY <1>1, <1>3
  <2>2. PICK g : Solves(g, n - 1)
    BY <2>1
  <2> DEFINE h == [v \in 0 .. n |-> IF v = n THEN Digits(n, g[n \div 10]) ELSE g[v]]
  <2>3. \A v \in 0 .. n : v # n => v \in 0 .. n - 1
    OBVIOUS
  <2>4. g[n \div 10] \in Seq(Glyph) /\ n \div 10 \in 0 .. n - 1
    <3>1. n \div 10 \in 0 .. n - 1
      BY <1>3, Tenth
    <3> QED BY <2>2, <3>1 DEF Solves
  <2>5. h \in [0 .. n -> Seq(Glyph)]
    <3>1. \A v \in 0 .. n : h[v] \in Seq(Glyph)
      <4> TAKE v \in 0 .. n
      <4>1. CASE v = n
        BY <2>4, <4>1, DigitsIs
      <4>2. CASE v # n
        BY <2>2, <2>3, <4>2 DEF Solves
      <4> QED BY <4>1, <4>2
    <3> QED BY <3>1
  <2>6. \A v \in 0 .. n : h[v] = Digits(v, h[v \div 10])
    <3> TAKE v \in 0 .. n
    <3>1. CASE v = n
      <4>1. n \div 10 # n /\ n \div 10 \in 0 .. n
        BY <2>4
      <4> QED BY <3>1, <4>1
    <3>2. CASE v # n
      <4>1. v \div 10 \in 0 .. n /\ v \div 10 # n /\ v \in 0 .. n - 1
        BY <2>3, <3>2, Tenth
      <4>2. h[v] = g[v] /\ h[v \div 10] = g[v \div 10]
        BY <3>2, <4>1
      <4> QED BY <2>2, <4>1, <4>2 DEF Solves
    <3> QED BY <3>1, <3>2
  <2> HIDE DEF h
  <2>7. Solves(h, n)
    BY <2>5, <2>6 DEF Solves
  <2> QED BY <2>7
<1> QED BY <1>2, <1>3

LEMMA LowestFirstIs ==
  \A v \in Nat : /\ T!LowestFirst[v] \in Seq(Glyph)
                 /\ T!LowestFirst[v] = Digits(v, T!LowestFirst[v \div 10])
<1> DEFINE s == [n \in Nat |-> CHOOSE g : Solves(g, n)]
           f == [v \in Nat |-> s[v][v]]
<1>1. \A n \in Nat : Solves(s[n], n)
  BY SolutionExists
<1> HIDE DEF s
<1>2. ASSUME NEW v \in Nat
      PROVE  f[v] \in Seq(Glyph) /\ f[v] = Digits(v, f[v \div 10])
  <2>1. Solves(s[v], v) /\ v \in 0 .. v
    BY <1>1
  <2>2. v \div 10 \in Nat /\ v \div 10 \in 0 .. v
    BY Tenth
  <2>3. Solves(s[v \div 10], v \div 10) /\ v \div 10 \in 0 .. v \div 10
    BY <1>1, <2>2
  <2>4. s[v][v \div 10] = s[v \div 10][v \div 10]
    <3> DEFINE u == v \div 10
               g == s[v]
               h == s[u]
    <3>1. Solves(g, v) /\ Solves(h, u) /\ u \in Nat /\ u \in 0 .. v /\ u \in 0 .. u
      BY <2>1, <2>2, <2>3
    <3> HIDE DEF u, g, h
    <3>2. g[u] = h[u]
      BY <3>1, SolutionsAgree
    <3> QED BY <3>2 DEF u, g, h
  <2>5. f[v] = s[v][v] /\ f[v \div 10] = s[v \div 10][v \div 10]
    BY <2>2
  <2> HIDE DEF f
  <2>6. s[v][v] \in Seq(Glyph) /\ s[v][v] = Digits(v, s[v][v \div 10])
    BY <2>1 DEF Solves
  <2> QED BY <2>4, <2>5, <2>6
<1>3. f = [v \in Nat |-> <<<<"digit", v % 10>>>>
                           \o (IF v < 10 THEN <<>> ELSE f[v \div 10])]
  BY <1>2 DEF Digits, Digit
<1>4. \A v \in Nat : f[v] \in Seq(Glyph)
  BY <1>2
<1> HIDE DEF f
<1>5. PICK F : /\ T!LowestFirst = F
               /\ F = [v \in Nat |-> <<<<"digit", v % 10>>>>
                                       \o (IF v < 10 THEN <<>> ELSE F[v \div 10])]
  BY <1>3, Zenon DEF T!LowestFirst
<1>6. \A v \in Nat : F[v] = Digits(v, F[v \div 10]) /\ f[v] = Digits(v, f[v \div 10])
  BY <1>2, <1>5 DEF Digits, Digit
<1> DEFINE Differ == {v \in Nat : F[v] # f[v]}
<1>7. Differ = {}
  <2> SUFFICES ASSUME Differ # {} PROVE FALSE
    OBVIOUS
  <2>1. PICK v \in Differ : \A w \in Differ : v <= w
    <3>1. Differ \subseteq Nat
      OBVIOUS
    <3> HIDE DEF Differ
    <3> QED BY <3>1, Least
  <2>2. v \in Nat /\ F[v] # f[v]
    OBVIOUS
  <2>3. v >= 10
    <3>1. v < 10 => \A a, b : Digits(v, a) = Digits(v, b)
      BY DEF Digits
    <3>2. F[v] = Digits(v, F[v \div 10]) /\ f[v] = Digits(v, f[v \div 10])
      BY <1>6, <2>2
    <3>3. ~(v < 10)
      BY <2>2, <3>1, <3>2
    <3> QED BY <2>2, <3>3
  <2>4. v \div 10 \in Nat /\ v \div 10 < v
    BY <2>2, <2>3, Tenth
  <2>5. F[v \div 10] = f[v \div 10]
    BY <2>1, <2>2, <2>4
  <2> QED BY <1>6, <2>2, <2>5
<1>8. \A v \in Nat : F[v] = f[v]
  BY <1>7
<1> QED BY <1>4, <1>5, <1>6, <1>8

(* The digits as they are written: the last one is the lowest. *)
LEMMA DecimalIs ==
  ASSUME NEW v \in Nat
  PROVE  /\ T!Decimal(v) \in Seq(Glyph)
         /\ Len(T!Decimal(v)) \in Nat \ {0}
         /\ v < 10 => T!Decimal(v) = <<Digit(v % 10)>>
         /\ v >= 10 => T!Decimal(v) = T!Decimal(v \div 10) \o <<Digit(v % 10)>>
<1> DEFINE f == T!LowestFirst
           u == v \div 10
           d == Digit(v % 10)
<1>1. \A w \in Nat : f[w] \in Seq(Glyph) /\ Len(f[w]) \in Nat
  BY LowestFirstIs
<1>2. u \in Nat /\ d \in Glyph
  BY Tenth, DigitIs
<1>3. f[v] = <<d>> \o (IF v < 10 THEN <<>> ELSE f[u])
  BY LowestFirstIs DEF Digits
<1>4. \A w \in Nat : T!Decimal(w) = [i \in 1 .. Len(f[w]) |-> f[w][(Len(f[w]) - i) + 1]]
  BY DEF T!Decimal, T!Reverse
<1>5. \A w \in Nat : T!Decimal(w) \in Seq(Glyph) /\ Len(T!Decimal(w)) = Len(f[w])
  <2> TAKE w \in Nat
  <2> DEFINE r == f[w]
             n == Len(r)
  <2>1. r \in Seq(Glyph) /\ n \in Nat
    BY <1>1
  <2>2. T!Decimal(w) = [i \in 1 .. n |-> r[(n - i) + 1]]
    BY <1>4
  <2> HIDE DEF r, n
  <2>3. \A i \in 1 .. n : r[(n - i) + 1] \in Glyph
    <3> TAKE i \in 1 .. n
    <3>1. (n - i) + 1 \in 1 .. n
      BY <2>1
    <3> QED BY <2>1, <3>1 DEF n
  <2>4. T!Decimal(w) \in [1 .. n -> Glyph]
    BY <2>2, <2>3
  <2>5. T!Decimal(w) \in Seq(Glyph) /\ Len(T!Decimal(w)) = n
    BY <2>1, <2>4, FunctionIsSeq
  <2> QED BY <2>5 DEF n, r
<1> HIDE DEF f, d, u
<1>6. ASSUME v < 10 PROVE T!Decimal(v) = <<d>>
  <2>1. f[v] = <<d>> \o <<>>
    BY <1>3, <1>6
  <2>2. f[v] = <<d>>
    BY <1>2, <2>1
  <2>3. Len(f[v]) = 1 /\ f[v][1] = d
    BY <2>2
  <2>4. T!Decimal(v) = [i \in 1 .. 1 |-> f[v][(1 - i) + 1]]
    BY <1>4, <2>3
  <2>5. \A i \in 1 .. 1 : f[v][(1 - i) + 1] = d
    BY <2>3
  <2> QED BY <2>4, <2>5
<1>7. ASSUME v >= 10 PROVE T!Decimal(v) = T!Decimal(u) \o <<d>>
  <2> DEFINE r == f[u]
             n == Len(r)
             w == f[v]
             a == T!Decimal(u)
  <2>1. r \in Seq(Glyph) /\ n \in Nat
    BY <1>1, <1>2
  <2>2. w = <<d>> \o r
    BY <1>3, <1>7
  <2>3. a = [i \in 1 .. n |-> r[(n - i) + 1]] /\ a \in Seq(Glyph) /\ Len(a) = n
    BY <1>2, <1>4, <1>5
  <2>w. T!Decimal(v) = [i \in 1 .. Len(w) |-> w[(Len(w) - i) + 1]] /\ T!Decimal(v) \in Seq(Glyph)
        /\ Len(T!Decimal(v)) = Len(w)
    BY <1>4, <1>5
  <2> HIDE DEF r, n, w, a
  <2>4. Len(w) = n + 1 /\ w[1] = d /\ \A i \in 1 .. n : w[i + 1] = r[i]
    BY <1>2, <2>1, <2>2 DEF n
  <2>r. T!Decimal(v) = [i \in 1 .. n + 1 |-> w[((n + 1) - i) + 1]]
    BY <2>w, <2>4
  <2>5. (a \o <<d>>) \in Seq(Glyph) /\ Len(a \o <<d>>) = n + 1
    BY <1>2, <2>1, <2>3
  <2>6. ASSUME NEW i \in 1 .. n + 1 PROVE T!Decimal(v)[i] = (a \o <<d>>)[i]
    <3>1. T!Decimal(v)[i] = w[((n + 1) - i) + 1]
      BY <2>r
    <3>2. CASE i = n + 1
      <4>1. ((n + 1) - i) + 1 = 1
        BY <2>1, <3>2
      <4>2. (a \o <<d>>)[i] = d
        BY <1>2, <2>1, <2>3, <3>2
      <4> QED BY <2>4, <3>1, <4>1, <4>2
    <3>3. CASE i # n + 1
      <4>1. i \in 1 .. n /\ ((n + 1) - i) \in 1 .. n /\ (n + 1) - i = (n - i) + 1
        BY <2>1, <3>3
      <4>2. w[((n + 1) - i) + 1] = r[(n + 1) - i]
        BY <2>4, <4>1
      <4>3. (a \o <<d>>)[i] = a[i] /\ a[i] = r[(n - i) + 1]
        BY <1>2, <2>1, <2>3, <4>1
      <4> QED BY <3>1, <4>1, <4>2, <4>3
    <3> QED BY <3>2, <3>3
  <2>7. Len(T!Decimal(v)) = n + 1
    BY <2>w, <2>4
  <2>8. T!Decimal(v) = a \o <<d>>
    BY <2>w, <2>5, <2>6, <2>7, SeqEqual
  <2> QED BY <2>8 DEF a
<1>8. Len(f[v]) # 0
  <2>1. \A r \in Seq(Glyph) : Len(<<d>> \o r) = 1 + Len(r) /\ Len(r) \in Nat
    BY <1>2
  <2>2. <<>> \in Seq(Glyph) /\ f[u] \in Seq(Glyph)
    BY <1>1, <1>2
  <2> QED BY <1>3, <2>1, <2>2
<1> QED BY <1>1, <1>5, <1>6, <1>7, <1>8 DEF u, d

LEMMA DecimalType ==
  \A v \in Nat :
    /\ T!Decimal(v) \in Seq(Glyph) /\ Len(T!Decimal(v)) \in Nat \ {0}
    /\ v < 10 => T!Decimal(v) = <<Digit(v % 10)>>
    /\ v >= 10 => T!Decimal(v) = T!Decimal(v \div 10) \o <<Digit(v % 10)>>
<1> TAKE v \in Nat
<1> QED BY DecimalIs

(* Read digit by digit, s is the number v. *)
Sums(s, sum) ==
  /\ sum \in [0 .. Len(s) -> Nat] /\ sum[0] = 0
  /\ \A k \in 1 .. Len(s) : sum[k] = 10 * sum[k - 1] + s[k][2]

Spells(s, v) ==
  /\ s \in Seq(Glyph) /\ Len(s) \in Nat \ {0}
  /\ \A k \in 1 .. Len(s) : s[k][1] = "digit" /\ s[k][2] \in Nat
  /\ \E sum : Sums(s, sum) /\ sum[Len(s)] = v

LEMMA SpellsMore ==
  ASSUME NEW s, NEW u \in Nat, Spells(s, u), NEW d \in Nat
  PROVE  Spells(s \o <<Digit(d)>>, 10 * u + d)
<1> DEFINE n == Len(s)
           t == s \o <<Digit(d)>>
<1>1. s \in Seq(Glyph) /\ n \in Nat \ {0} /\ Digit(d) \in Glyph
  BY DigitIs DEF Spells
<1>2. /\ t \in Seq(Glyph) /\ Len(t) = n + 1 /\ t[n + 1] = Digit(d)
      /\ \A k \in 1 .. n : t[k] = s[k]
  BY <1>1
<1>3. PICK sum : Sums(s, sum) /\ sum[n] = u
  BY DEF Spells
<1> DEFINE more == [k \in 0 .. n + 1 |-> IF k = n + 1 THEN 10 * u + d ELSE sum[k]]
<1> HIDE DEF t
<1>4. sum \in [0 .. n -> Nat] /\ sum[0] = 0 /\ \A k \in 1 .. n : sum[k] = 10 * sum[k - 1] + s[k][2]
  BY <1>3 DEF Sums
<1>5. \A k \in 1 .. n : s[k][1] = "digit" /\ s[k][2] \in Nat
  BY DEF Spells
<1> HIDE DEF n
<1>6. more \in [0 .. n + 1 -> Nat]
  <2>1. 10 * u + d \in Nat
    OBVIOUS
  <2>2. \A k \in 0 .. n + 1 : k # n + 1 => k \in 0 .. n
    BY <1>1
  <2> QED BY <1>4, <2>1, <2>2
<1>7. more[0] = 0 /\ more[n + 1] = 10 * u + d
  BY <1>1, <1>4
<1>8. \A k \in 1 .. n + 1 : more[k] = 10 * more[k - 1] + t[k][2]
  <2> TAKE k \in 1 .. n + 1
  <2>1. CASE k = n + 1
    <3>1. more[k - 1] = u /\ t[k][2] = d
      BY <1>1, <1>2, <1>3, <2>1, DigitIs
    <3> QED BY <1>7, <2>1, <3>1
  <2>2. CASE k # n + 1
    <3>1. k \in 1 .. n /\ k - 1 \in 0 .. n /\ k - 1 # n + 1
      BY <1>1, <2>2
    <3>2. more[k] = sum[k] /\ more[k - 1] = sum[k - 1] /\ t[k] = s[k]
      BY <1>1, <1>2, <2>2, <3>1
    <3> QED BY <1>4, <3>1, <3>2
  <2> QED BY <2>1, <2>2
<1> HIDE DEF more
<1>9. Sums(t, more)
  BY <1>2, <1>6, <1>7, <1>8 DEF Sums
<1>10. \A k \in 1 .. n + 1 : t[k][1] = "digit" /\ t[k][2] \in Nat
  <2> TAKE k \in 1 .. n + 1
  <2>1. CASE k = n + 1
    BY <1>2, <2>1, DigitIs
  <2>2. CASE k # n + 1
    <3>1. k \in 1 .. n
      BY <1>1, <2>2
    <3> QED BY <1>2, <1>5, <3>1
  <2> QED BY <2>1, <2>2
<1>11. Spells(t, 10 * u + d)
  BY <1>1, <1>2, <1>7, <1>9, <1>10 DEF Spells
<1> QED BY <1>11 DEF t

LEMMA SpellsOne == \A d \in Nat : Spells(<<Digit(d)>>, d)
<1> TAKE d \in Nat
<1> DEFINE s == <<Digit(d)>>
           sum == [k \in 0 .. 1 |-> IF k = 0 THEN 0 ELSE d]
<1>1. s \in Seq(Glyph) /\ Len(s) = 1 /\ s[1] = Digit(d)
  BY DigitIs
<1>2. s[1][1] = "digit" /\ s[1][2] = d
  BY <1>1, DigitIs
<1>3. sum \in [0 .. 1 -> Nat] /\ sum[0] = 0 /\ sum[1] = d
  OBVIOUS
<1> HIDE DEF s, sum
<1>4. \A k \in 1 .. 1 : sum[k] = 10 * sum[k - 1] + s[k][2]
  BY <1>2, <1>3
<1>5. Sums(s, sum)
  BY <1>1, <1>3, <1>4 DEF Sums
<1>6. Spells(s, d)
  BY <1>1, <1>2, <1>3, <1>5 DEF Spells
<1> QED BY <1>6 DEF s

(* write_uint writes the number. *)
LEMMA DecimalSpells == \A v \in Nat : Spells(T!Decimal(v), v)
<1> DEFINE Wrong == {v \in Nat : ~Spells(T!Decimal(v), v)}
<1> SUFFICES ASSUME Wrong # {} PROVE FALSE
  OBVIOUS
<1>1. PICK v \in Wrong : \A w \in Wrong : v <= w
  <2>1. Wrong \subseteq Nat
    OBVIOUS
  <2> HIDE DEF Wrong
  <2> QED BY <2>1, Least
<1>2. v \in Nat /\ ~Spells(T!Decimal(v), v)
  OBVIOUS
<1> DEFINE u == v \div 10
           d == v % 10
<1>3. u \in Nat /\ d \in Nat /\ v = 10 * u + d /\ (v < 10 => d = v) /\ (v >= 10 => u < v)
  BY <1>2, Tenth
<1>4. /\ v < 10 => T!Decimal(v) = <<Digit(d)>>
      /\ v >= 10 => T!Decimal(v) = T!Decimal(u) \o <<Digit(d)>>
  BY <1>2, DecimalIs
<1>5. v >= 10 => Spells(T!Decimal(u), u)
  BY <1>1, <1>2, <1>3
<1> HIDE DEF u, d, Wrong
<1>6. CASE v < 10
  BY <1>2, <1>3, <1>4, <1>6, SpellsOne
<1>7. CASE v >= 10
  <2>1. Spells(T!Decimal(u) \o <<Digit(d)>>, 10 * u + d)
    BY <1>3, <1>5, <1>7, SpellsMore
  <2> QED BY <1>2, <1>3, <1>4, <1>7, <2>1
<1> QED BY <1>2, <1>6, <1>7

LEMMA DecimalLength ==
  \A w \in Nat :
    /\ Len(T!Decimal(w)) \in Nat /\ w \div 10 \in Nat
    /\ w < 10 => Len(T!Decimal(w)) = 1
    /\ w >= 10 => Len(T!Decimal(w)) = Len(T!Decimal(w \div 10)) + 1
<1> TAKE w \in Nat
<1>1. w \div 10 \in Nat /\ w % 10 \in Nat
  BY Tenth
<1>2. /\ T!Decimal(w) \in Seq(Glyph) /\ T!Decimal(w \div 10) \in Seq(Glyph)
      /\ Digit(w % 10) \in Glyph
  BY <1>1, DecimalType, DigitIs, Zenon
<1>3. /\ w < 10 => T!Decimal(w) = <<Digit(w % 10)>>
      /\ w >= 10 => T!Decimal(w) = T!Decimal(w \div 10) \o <<Digit(w % 10)>>
  BY DecimalType, Zenon
<1> QED BY <1>1, <1>2, <1>3

LEMMA DecimalWidth ==
  \E n : \A w \in Nat :
    /\ n[w] = Len(T!Decimal(w)) /\ n[w] \in Nat /\ w \div 10 \in Nat
    /\ w < 10 => n[w] = 1
    /\ w >= 10 => n[w] = n[w \div 10] + 1
<1> DEFINE n == [w \in Nat |-> Len(T!Decimal(w))]
<1>1. \A w \in Nat : n[w] = Len(T!Decimal(w))
  OBVIOUS
<1> HIDE DEF n
<1>2. \A w \in Nat :
        /\ n[w] = Len(T!Decimal(w)) /\ n[w] \in Nat /\ w \div 10 \in Nat
        /\ w < 10 => n[w] = 1
        /\ w >= 10 => n[w] = n[w \div 10] + 1
  <2> TAKE w \in Nat
  <2>1. /\ Len(T!Decimal(w)) \in Nat /\ w \div 10 \in Nat
        /\ w < 10 => Len(T!Decimal(w)) = 1
        /\ w >= 10 => Len(T!Decimal(w)) = Len(T!Decimal(w \div 10)) + 1
    BY DecimalLength, Zenon
  <2>2. n[w] = Len(T!Decimal(w)) /\ n[w \div 10] = Len(T!Decimal(w \div 10))
    BY <1>1, <2>1, Zenon
  <2> QED BY <2>1, <2>2, Zenon
<1> QED BY <1>2

LEMMA DecimalFits ==
  ASSUME NEW v \in Counters
  PROVE  Len(T!Decimal(v)) <= 10
<1>0. v \in Nat /\ v \div 1000000000 <= 9
  BY SMT DEF Counters
<1>1. PICK n : \A w \in Nat :
        /\ n[w] = Len(T!Decimal(w)) /\ n[w] \in Nat /\ w \div 10 \in Nat
        /\ w < 10 => n[w] = 1
        /\ w >= 10 => n[w] = n[w \div 10] + 1
  BY DecimalWidth, SMT
<1>2. \A w \in Nat :
        /\ n[w] \in Nat /\ w \div 10 \in Nat
        /\ w < 10 => n[w] = 1
        /\ w >= 10 => n[w] = n[w \div 10] + 1
  BY <1>1, SMT
<1>3. \A w \in Nat : w < 100 => n[w] <= 2
  BY <1>2, SMT
<1>4. \A w \in Nat : w < 1000 => n[w] <= 3
  BY <1>2, <1>3, SMT
<1>5. \A w \in Nat : w < 10000 => n[w] <= 4
  BY <1>2, <1>4, SMT
<1>6. \A w \in Nat : w < 100000 => n[w] <= 5
  BY <1>2, <1>5, SMT
<1>7. \A w \in Nat : w < 1000000 => n[w] <= 6
  BY <1>2, <1>6, SMT
<1>8. \A w \in Nat : w < 10000000 => n[w] <= 7
  BY <1>2, <1>7, SMT
<1>9. \A w \in Nat : w < 100000000 => n[w] <= 8
  BY <1>2, <1>8, SMT
<1>10. \A w \in Nat : w < 1000000000 => n[w] <= 9
  BY <1>2, <1>9, SMT
<1>11. \A w \in Nat : w < 10000000000 => n[w] <= 10
  BY <1>2, <1>10, SMT
<1>12. v < 10000000000
  BY <1>0, SMT
<1> QED BY <1>0, <1>1, <1>11, <1>12, SMT

-----------------------------------------------------------------------------
(* A number that stands somewhere in a line is read as that number. *)
Stands(line, s, v, at) ==
  v \in Nat /\ at \in Nat /\ Spells(s, v) /\ \A k \in 1 .. Len(s) : line[at + k] = s[k]

LEMMA DigitsAtIs ==
  ASSUME NEW line, NEW s, NEW v, NEW at, Stands(line, s, v, at)
  PROVE  T!DigitsAt(line, at + 1, at + Len(s)) = v
<1>a. at \in Nat /\ v \in Nat /\ Spells(s, v) /\ \A k \in 1 .. Len(s) : line[at + k] = s[k]
  BY DEF Stands
<1> SUFFICES ASSUME at \in Nat, v \in Nat
             PROVE  T!DigitsAt(line, at + 1, at + Len(s)) = v
  BY <1>a
<1> DEFINE n == Len(s)
<1>1. n \in Nat \ {0} /\ \A k \in 1 .. n : s[k][2] \in Nat
  BY <1>a DEF Spells
<1>2. PICK sum : /\ sum \in [0 .. n -> Nat] /\ sum[0] = 0 /\ sum[n] = v
                 /\ \A k \in 1 .. n : sum[k] = 10 * sum[k - 1] + s[k][2]
  BY <1>a DEF Spells, Sums
<1>h. \A k \in 1 .. n : line[at + k] = s[k]
  BY <1>a
<1> HIDE DEF n
<1> DEFINE g == [i \in (at + 1) - 1 .. at + n |-> sum[i - at]]
<1>3. \A i \in (at + 1) - 1 .. at + n :
        /\ i < at + 1 => i - at = 0
        /\ i >= at + 1 => /\ i - at \in 1 .. n /\ i = at + (i - at)
                          /\ i - 1 \in (at + 1) - 1 .. at + n
                          /\ (i - 1) - at = (i - at) - 1
  BY <1>1
<1>4. g = [i \in (at + 1) - 1 .. at + n |->
             IF i < at + 1 THEN 0 ELSE 10 * g[i - 1] + line[i][2]]
  <2>1. ASSUME NEW i \in (at + 1) - 1 .. at + n
        PROVE  g[i] = IF i < at + 1 THEN 0 ELSE 10 * g[i - 1] + line[i][2]
    <3>1. CASE i < at + 1
      BY <1>2, <1>3, <3>1
    <3>2. CASE i >= at + 1
      <4> DEFINE k == i - at
      <4>1. k \in 1 .. n /\ i = at + k /\ g[i] = sum[k] /\ g[i - 1] = sum[k - 1]
        BY <1>3, <3>2
      <4>2. line[i] = s[k]
        BY <1>h, <4>1
      <4> HIDE DEF k
      <4> QED BY <1>2, <3>2, <4>1, <4>2
    <3> QED BY <3>1, <3>2
  <2> QED BY <2>1
<1> HIDE DEF g
<1>5. PICK F : /\ F = [i \in (at + 1) - 1 .. at + n |->
                         IF i < at + 1 THEN 0 ELSE 10 * F[i - 1] + line[i][2]]
               /\ T!DigitsAt(line, at + 1, at + n) = F[at + n]
  BY <1>4, Zenon DEF T!DigitsAt
<1> DEFINE Differ == {i \in (at + 1) - 1 .. at + n : F[i] # g[i]}
<1>6. Differ = {}
  <2> SUFFICES ASSUME Differ # {} PROVE FALSE
    OBVIOUS
  <2>1. Differ \subseteq Nat
    BY <1>1
  <2>2. PICK i \in Differ : \A j \in Differ : i <= j
    <3> HIDE DEF Differ
    <3> QED BY <2>1, Least
  <2>3. i \in (at + 1) - 1 .. at + n /\ F[i] # g[i]
    OBVIOUS
  <2>4. /\ F[i] = IF i < at + 1 THEN 0 ELSE 10 * F[i - 1] + line[i][2]
        /\ g[i] = IF i < at + 1 THEN 0 ELSE 10 * g[i - 1] + line[i][2]
    BY <1>4, <1>5, <2>3
  <2>5. i >= at + 1
    BY <1>1, <2>3, <2>4
  <2>6. i - 1 \in (at + 1) - 1 .. at + n /\ ~(i <= i - 1)
    BY <1>3, <2>3, <2>5
  <2>7. F[i - 1] = g[i - 1]
    BY <2>2, <2>6
  <2> QED BY <2>3, <2>4, <2>7
<1>7. at + n \in (at + 1) - 1 .. at + n /\ (at + n) - at = n
  BY <1>1
<1>8. g[at + n] = v
  BY <1>2, <1>7 DEF g
<1> QED BY <1>5, <1>6, <1>7, <1>8 DEF n

-----------------------------------------------------------------------------
(* The line of the diagnostics is its pieces, one behind the other. *)

Chain(F, p, n) ==
  /\ F \in [1 .. n -> Seq(Glyph)] /\ F[1] = p[1]
  /\ \A i \in 2 .. n : F[i] = F[i - 1] \o p[i]

Chained(F, p, n) ==
  n \in Nat \ {0} /\ p \in [1 .. n -> Seq(Glyph)] /\ Chain(F, p, n)

LEMMA JoinIs ==
  ASSUME NEW a \in Seq(Glyph), NEW b \in Seq(Glyph)
  PROVE  /\ a \o b \in Seq(Glyph) /\ Len(a) \in Nat /\ Len(b) \in Nat
         /\ Len(a \o b) = Len(a) + Len(b)
         /\ \A k \in 1 .. Len(a) : (a \o b)[k] = a[k]
         /\ \A k \in 1 .. Len(b) : (a \o b)[Len(a) + k] = b[k]
OBVIOUS

LEMMA ChainExists ==
  ASSUME NEW n \in Nat \ {0}, NEW p \in [1 .. n -> Seq(Glyph)]
  PROVE  \E F : Chain(F, p, n)
<1> DEFINE Without == {m \in 1 .. n : ~\E F : Chain(F, p, m)}
<1>1. Without = {}
  <2> SUFFICES ASSUME Without # {} PROVE FALSE
    OBVIOUS
  <2>1. Without \subseteq Nat
    OBVIOUS
  <2>2. PICK m \in Without : \A k \in Without : m <= k
    <3> HIDE DEF Without
    <3> QED BY <2>1, Least
  <2>3. m \in 1 .. n /\ ~\E F : Chain(F, p, m)
    OBVIOUS
  <2>4. CASE m = 1
    <3> DEFINE F == [i \in 1 .. 1 |-> p[1]]
    <3>1. F \in [1 .. 1 -> Seq(Glyph)] /\ F[1] = p[1]
      OBVIOUS
    <3>2. Chain(F, p, 1)
      BY <3>1 DEF Chain
    <3> QED BY <2>3, <2>4, <3>2
  <2>5. CASE m # 1
    <3>1. m - 1 \in 1 .. n /\ ~(m <= m - 1)
      BY <2>3, <2>5
    <3>2. PICK G : Chain(G, p, m - 1)
      BY <2>2, <3>1
    <3> DEFINE F == [i \in 1 .. m |-> IF i = m THEN G[m - 1] \o p[m] ELSE G[i]]
    <3>3. G \in [1 .. m - 1 -> Seq(Glyph)] /\ G[1] = p[1]
          /\ \A i \in 2 .. m - 1 : G[i] = G[i - 1] \o p[i]
      BY <3>2 DEF Chain
    <3>4. G[m - 1] \o p[m] \in Seq(Glyph)
      <4>1. G[m - 1] \in Seq(Glyph) /\ p[m] \in Seq(Glyph)
        BY <2>3, <2>5, <3>3
      <4> QED BY <4>1
    <3>5. F \in [1 .. m -> Seq(Glyph)]
      <4>1. \A i \in 1 .. m : i # m => i \in 1 .. m - 1
        OBVIOUS
      <4> QED BY <3>3, <3>4, <4>1
    <3>6. F[1] = p[1]
      BY <2>3, <2>5, <3>3
    <3>7. \A i \in 2 .. m : F[i] = F[i - 1] \o p[i]
      <4> TAKE i \in 2 .. m
      <4>1. i \in 1 .. m /\ i - 1 \in 1 .. m /\ i - 1 # m
        OBVIOUS
      <4>2. CASE i = m
        BY <4>1, <4>2
      <4>3. CASE i # m
        <5>1. i \in 2 .. m - 1
          BY <4>3
        <5> QED BY <3>3, <4>1, <4>3, <5>1
      <4> QED BY <4>2, <4>3
    <3> HIDE DEF F
    <3>8. Chain(F, p, m)
      BY <3>5, <3>6, <3>7 DEF Chain
    <3> QED BY <2>3, <3>8
  <2> QED BY <2>4, <2>5
<1>2. n \in 1 .. n
  OBVIOUS
<1> QED BY <1>1, <1>2

LEMMA FlattenIs ==
  ASSUME NEW n \in Nat \ {0}, NEW p \in [1 .. n -> Seq(Glyph)]
  PROVE  \E F : Chained(F, p, n) /\ T!FlattenSeq(p) = F[n]
<1>1. PICK G : Chain(G, p, n)
  BY ChainExists
<1>2. p \in Seq(Seq(Glyph)) /\ Len(p) = n
  BY FunctionIsSeq
<1>3. G = [i \in 1 .. n |-> IF i = 1 THEN p[i] ELSE G[i - 1] \o p[i]]
  <2>1. \A i \in 1 .. n : i # 1 => i \in 2 .. n
    OBVIOUS
  <2> QED BY <1>1, <2>1 DEF Chain
<1>4. Len(p) # 0
  BY <1>2
<1>5. PICK F : /\ F = [i \in 1 .. n |-> IF i = 1 THEN p[i] ELSE F[i - 1] \o p[i]]
               /\ T!FlattenSeq(p) = F[n]
  BY <1>2, <1>3, <1>4, Zenon DEF T!FlattenSeq
<1>6. F[1] = p[1] /\ \A i \in 2 .. n : F[i] = F[i - 1] \o p[i]
  <2>1. 1 \in 1 .. n /\ \A i \in 2 .. n : i \in 1 .. n /\ i # 1
    OBVIOUS
  <2> QED BY <1>5, <2>1
<1> DEFINE Strays == {i \in 1 .. n : F[i] \notin Seq(Glyph)}
<1>7. Strays = {}
  <2> SUFFICES ASSUME Strays # {} PROVE FALSE
    OBVIOUS
  <2>1. Strays \subseteq Nat
    OBVIOUS
  <2>2. PICK i \in Strays : \A k \in Strays : i <= k
    <3> HIDE DEF Strays
    <3> QED BY <2>1, Least
  <2>3. i \in 2 .. n
    BY <1>6
  <2>4. i - 1 \in 1 .. n /\ ~(i <= i - 1)
    BY <2>3
  <2>5. F[i - 1] \in Seq(Glyph) /\ p[i] \in Seq(Glyph)
    BY <2>2, <2>3, <2>4
  <2>6. F[i] = F[i - 1] \o p[i]
    BY <1>6, <2>3
  <2>7. F[i] \in Seq(Glyph)
    BY <2>5, <2>6, JoinIs
  <2> QED BY <2>7
<1>8. F \in [1 .. n -> Seq(Glyph)]
  <2>1. \A i \in 1 .. n : F[i] \in Seq(Glyph)
    BY <1>7
  <2> QED BY <1>5, <2>1
<1> QED BY <1>5, <1>6, <1>8 DEF Chain, Chained

(* What is written stays where it was written. *)
LEMMA ChainKeeps ==
  ASSUME NEW n, NEW p, NEW F, Chained(F, p, n), NEW i \in 1 .. n
  PROVE  Len(F[i]) <= Len(F[n]) /\ \A k \in 1 .. Len(F[i]) : F[n][k] = F[i][k]
<1> DEFINE Keeps(j) == Len(F[i]) <= Len(F[j]) /\ \A k \in 1 .. Len(F[i]) : F[j][k] = F[i][k]
           Lose == {j \in i .. n : ~Keeps(j)}
<1>1. /\ n \in Nat \ {0} /\ p \in [1 .. n -> Seq(Glyph)]
      /\ F \in [1 .. n -> Seq(Glyph)] /\ \A j \in 2 .. n : F[j] = F[j - 1] \o p[j]
  BY DEF Chain, Chained
<1>2. Lose = {}
  <2> SUFFICES ASSUME Lose # {} PROVE FALSE
    OBVIOUS
  <2>1. Lose \subseteq Nat
    OBVIOUS
  <2>2. PICK j \in Lose : \A k \in Lose : j <= k
    <3> HIDE DEF Lose
    <3> QED BY <2>1, Least
  <2>3. j \in i .. n /\ ~Keeps(j)
    OBVIOUS
  <2>4. F[i] \in Seq(Glyph) /\ Len(F[i]) \in Nat
    BY <1>1
  <2>5. j # i
    BY <2>3, <2>4
  <2>6. j \in 2 .. n /\ j - 1 \in i .. n /\ ~(j <= j - 1) /\ j - 1 \in 1 .. n
    BY <1>1, <2>3, <2>5
  <2>7. Keeps(j - 1)
    BY <2>2, <2>6
  <2>8. F[j - 1] \in Seq(Glyph) /\ p[j] \in Seq(Glyph) /\ F[j] = F[j - 1] \o p[j]
    <3>1. j \in 1 .. n
      BY <2>6
    <3> HIDE DEF Lose
    <3>2. F[j - 1] \in Seq(Glyph)
      BY <1>1, <2>6
    <3>3. p[j] \in Seq(Glyph)
      BY <1>1, <3>1
    <3>4. F[j] = F[j - 1] \o p[j]
      BY <1>1, <2>6
    <3> QED BY <3>2, <3>3, <3>4
  <2>9. /\ Len(F[j - 1]) \in Nat /\ Len(F[j]) \in Nat /\ Len(F[j]) >= Len(F[j - 1])
        /\ \A k \in 1 .. Len(F[j - 1]) : F[j][k] = F[j - 1][k]
    <3> DEFINE a == F[j - 1]
               b == p[j]
    <3>1. a \in Seq(Glyph) /\ b \in Seq(Glyph) /\ F[j] = a \o b
      BY <2>8
    <3> HIDE DEF a, b, Lose
    <3>2. /\ Len(a) \in Nat /\ Len(a \o b) \in Nat /\ Len(a \o b) >= Len(a)
          /\ \A k \in 1 .. Len(a) : (a \o b)[k] = a[k]
      BY <3>1, JoinIs
    <3> QED BY <3>1, <3>2 DEF a
  <2>10. \A k \in 1 .. Len(F[i]) : k \in 1 .. Len(F[j - 1])
    BY <2>4, <2>7, <2>9
  <2>l. Len(F[i]) <= Len(F[j])
    <3> DEFINE a == Len(F[i])
               b == Len(F[j - 1])
               c == Len(F[j])
    <3>1. a \in Nat /\ b \in Nat /\ c \in Nat /\ a <= b /\ b <= c
      BY <2>4, <2>7, <2>9
    <3> HIDE DEF a, b, c
    <3>2. a <= c
      BY <3>1
    <3> QED BY <3>2 DEF a, c
  <2>11. Keeps(j)
    BY <2>7, <2>9, <2>10, <2>l
  <2> QED BY <2>3, <2>11
<1>3. n \in i .. n
  BY <1>1
<1>4. Keeps(n)
  BY <1>2, <1>3
<1> QED BY <1>4

(* A piece, and what follows it. *)
PieceOf(F, p, n, i) ==
  Chained(F, p, n) /\ i \in 1 .. n /\ \A j \in 1 .. n : p[j] # <<>>

Lies(F, p, n, i, o) ==
  /\ o \in Nat /\ o + Len(p[i]) <= Len(F[n])
  /\ \A k \in 1 .. Len(p[i]) : F[n][o + k] = p[i][k]
  /\ i = n => o + Len(p[i]) = Len(F[n])
  /\ i < n => o + Len(p[i]) + 1 <= Len(F[n]) /\ F[n][o + Len(p[i]) + 1] = p[i + 1][1]

LEMMA PieceAt ==
  ASSUME NEW n, NEW p, NEW F, NEW i, PieceOf(F, p, n, i)
  PROVE  \E o : Lies(F, p, n, i, o)
<1>a. Chained(F, p, n) /\ i \in 1 .. n /\ \A j \in 1 .. n : p[j] # <<>>
  BY DEF PieceOf
<1>1. /\ n \in Nat \ {0} /\ p \in [1 .. n -> Seq(Glyph)]
      /\ F \in [1 .. n -> Seq(Glyph)] /\ F[1] = p[1]
      /\ \A j \in 2 .. n : F[j] = F[j - 1] \o p[j]
  BY <1>a DEF Chain, Chained
<1> DEFINE q == p[i]
           m == Len(q)
           f == F[i]
           e == F[n]
<1>2. q \in Seq(Glyph) /\ m \in Nat \ {0} /\ f \in Seq(Glyph) /\ e \in Seq(Glyph)
  BY <1>1, <1>a
<1>3. \E o \in Nat : Len(f) = o + m /\ \A k \in 1 .. m : f[o + k] = q[k]
  <2>1. CASE i = 1
    <3>1. f = q /\ 0 \in Nat /\ Len(f) = 0 + m /\ \A k \in 1 .. m : 0 + k = k
      BY <1>1, <1>2, <2>1
    <3>2. \A k \in 1 .. m : f[0 + k] = q[k]
      BY <3>1
    <3> QED BY <3>1, <3>2
  <2>2. CASE i # 1
    <3> DEFINE g == F[i - 1]
    <3>1. i \in 2 .. n /\ i - 1 \in 1 .. n
      BY <1>1, <1>a, <2>2
    <3>2. g \in Seq(Glyph) /\ f = g \o q
      BY <1>1, <3>1
    <3> HIDE DEF g, f, q
    <3>3. Len(g) \in Nat /\ Len(f) = Len(g) + m
      BY <1>2, <3>2 DEF m
    <3>4. \A k \in 1 .. m : f[Len(g) + k] = q[k]
      BY <1>2, <3>2, <3>3
    <3> QED BY <3>3, <3>4
  <2> QED BY <2>1, <2>2
<1>4. PICK o \in Nat : Len(f) = o + m /\ \A k \in 1 .. m : f[o + k] = q[k]
  BY <1>3
<1>5. Len(f) <= Len(e) /\ \A k \in 1 .. Len(f) : e[k] = f[k]
  BY <1>a, ChainKeeps
<1>6. i = n => f = e
  OBVIOUS
<1>7. ASSUME i < n PROVE o + m + 1 <= Len(e) /\ e[o + m + 1] = p[i + 1][1]
  <2> DEFINE r == p[i + 1]
             g == F[i + 1]
  <2>1. i + 1 \in 1 .. n /\ i + 1 \in 2 .. n /\ (i + 1) - 1 = i
    BY <1>1, <1>a, <1>7
  <2>2. r \in Seq(Glyph) /\ r # <<>> /\ g \in Seq(Glyph) /\ g = f \o r
    BY <1>1, <1>a, <2>1
  <2>3. Len(g) <= Len(e) /\ \A k \in 1 .. Len(g) : e[k] = g[k]
    BY <1>a, <2>1, ChainKeeps
  <2> HIDE DEF r, g, f, e, q
  <2>4. Len(r) \in Nat /\ Len(r) >= 1 /\ Len(f) \in Nat /\ Len(g) = Len(f) + Len(r)
    BY <1>2, <2>2
  <2>5. Len(f) + 1 \in 1 .. Len(g) /\ g[Len(f) + 1] = r[1]
    BY <1>2, <2>2, <2>4
  <2>6. e[Len(f) + 1] = r[1] /\ Len(e) \in Nat /\ Len(f) + 1 <= Len(e)
    BY <1>2, <2>3, <2>4, <2>5
  <2>7. Len(f) + 1 = o + m + 1
    BY <1>4
  <2> QED BY <2>6, <2>7 DEF r
<1>8. o + m <= Len(e) /\ \A k \in 1 .. m : e[o + k] = q[k]
  <2>1. \A k \in 1 .. m : o + k \in 1 .. Len(f)
    BY <1>2, <1>4
  <2> QED BY <1>4, <1>5, <2>1
<1> HIDE DEF q, e, f
<1>9. /\ o + m <= Len(e)
      /\ \A k \in 1 .. m : e[o + k] = q[k]
      /\ i = n => o + m = Len(e)
      /\ i < n => o + m + 1 <= Len(e) /\ e[o + m + 1] = p[i + 1][1]
  BY <1>4, <1>6, <1>7, <1>8
<1>10. o \in Nat
  OBVIOUS
<1> QED BY <1>9, <1>10 DEF q, e, m, Lies

-----------------------------------------------------------------------------
(* The line of the diagnostics *)

Piece(d, i)  == T!Text(T!Fields[i][1], T!Fields[i][2]) \o T!Decimal(d[i])
Pieces(d)    == [i \in DOMAIN T!Fields |-> Piece(d, i)]
Widths       == <<16, 15, 14, 13, 10, 16, 8>>

(* What LogText asks of the line, of any counters. *)
HasCounter(line, i, v) ==
  \E at \in DOMAIN line :
    /\ line[at] = <<T!Fields[i][1], T!Fields[i][2]>>
    /\ \E last \in at + 1 .. Len(line) :
         /\ \A j \in at + 1 .. last : T!IsDigit(line[j])
         /\ last = Len(line) \/ ~T!IsDigit(line[last + 1])
         /\ T!DigitsAt(line, at + 1, last) = v

HasCounters(line, d) == \A i \in DOMAIN T!Fields : HasCounter(line, i, d[i])

LEMMA FieldsAre ==
  /\ DOMAIN T!Fields = 1 .. 7
  /\ \A i \in 1 .. 7 : /\ T!Fields[i][1] \in Names \ {"digit"}
                       /\ T!Fields[i][2] \in Nat \ {0} /\ T!Fields[i][2] = Widths[i]
<1>1. DOMAIN T!Fields = 1 .. 7
  BY DEF T!Fields
<1>2. ASSUME NEW i \in 1 .. 7
      PROVE  /\ T!Fields[i][1] \in Names \ {"digit"}
             /\ T!Fields[i][2] \in Nat \ {0} /\ T!Fields[i][2] = Widths[i]
  <2>1. i = 1 \/ i = 2 \/ i = 3 \/ i = 4 \/ i = 5 \/ i = 6 \/ i = 7
    OBVIOUS
  <2>2. T!Fields[i][2] \in Nat \ {0} /\ T!Fields[i][2] = Widths[i]
    BY <2>1 DEF T!Fields, Widths
  <2>3. T!Fields[i][1] \in {"spi", "accel_overrun", "gyro_overrun", "rejected_dt",
                            "long_gap", "telemetry_drop", "reinit"}
    BY <2>1 DEF T!Fields
  <2>4. T!Fields[i][1] \in Names \ {"digit"}
    BY <2>3 DEF Names
  <2> QED BY <2>2, <2>4
<1> QED BY <1>1, <1>2

LEMMA PieceIs ==
  ASSUME NEW d, NEW i \in 1 .. 7, d[i] \in Counters
  PROVE  /\ Piece(d, i) \in Seq(Glyph) /\ Piece(d, i) # <<>>
         /\ Len(Piece(d, i)) = T!Fields[i][2] + Len(T!Decimal(d[i]))
         /\ Len(Piece(d, i)) <= Widths[i] + 10
         /\ \A k \in 1 .. T!Fields[i][2] : Piece(d, i)[k] = <<T!Fields[i][1], k>>
         /\ \A k \in 1 .. Len(T!Decimal(d[i])) :
              Piece(d, i)[T!Fields[i][2] + k] = T!Decimal(d[i])[k]
<1> DEFINE label == T!Fields[i][1]
           width == T!Fields[i][2]
           text  == T!Text(label, width)
           number == T!Decimal(d[i])
<1>1. label \in Names /\ width \in Nat \ {0} /\ width = Widths[i]
  BY FieldsAre
<1>2. d[i] \in Nat
  BY SMT DEF Counters
<1>3. number \in Seq(Glyph) /\ Len(number) \in Nat /\ Len(number) <= 10
  BY <1>2, DecimalIs, DecimalFits
<1> HIDE DEF label, width, number
<1>4. text \in Seq(Glyph) /\ Len(text) = width /\ \A k \in 1 .. width : text[k] = <<label, k>>
  BY <1>1, TextIs
<1> HIDE DEF text
<1>5. /\ text \o number \in Seq(Glyph)
      /\ Len(text \o number) = width + Len(number)
      /\ \A k \in 1 .. width : (text \o number)[k] = text[k]
      /\ \A k \in 1 .. Len(number) : (text \o number)[width + k] = number[k]
  BY <1>3, <1>4, JoinIs
<1>6. text \o number # <<>>
  BY <1>1, <1>3, <1>5
<1>7. Piece(d, i) = text \o number
  BY DEF Piece, text, number, label, width
<1> DEFINE piece == Piece(d, i)
<1>p. piece = text \o number
  BY <1>7
<1> HIDE DEF piece
<1>8. /\ piece \in Seq(Glyph) /\ piece # <<>>
      /\ Len(piece) = width + Len(number)
      /\ Len(piece) <= Widths[i] + 10
      /\ \A k \in 1 .. width : piece[k] = <<label, k>>
      /\ \A k \in 1 .. Len(number) : piece[width + k] = number[k]
  <2>1. width \in Nat /\ Len(number) \in Nat /\ width + Len(number) <= width + 10
    BY <1>1, <1>3
  <2> QED BY <1>1, <1>4, <1>5, <1>6, <1>p, <2>1
<1> QED BY <1>8 DEF label, width, number, piece

(* A number that follows its label in a line and ends before another label. *)
LEMMA SumIs == \A a \in Nat : \A b \in Nat \ {0} : a + b \in Nat
OBVIOUS

LEMMA OffsetIs ==
  \A at \in Nat, m \in Nat : \A j \in at + 1 .. at + m : j - at \in 1 .. m /\ j = at + (j - at)
OBVIOUS

CounterAt(line, i, v, o, w, m) ==
  /\ line \in Seq(Glyph) /\ i \in 1 .. 7 /\ v \in Nat /\ o \in Nat
  /\ w \in Nat \ {0} /\ w = T!Fields[i][2]
  /\ m \in Nat \ {0} /\ m = Len(T!Decimal(v))
  /\ o + w + m + 1 <= Len(line)
  /\ line[o + w] = <<T!Fields[i][1], w>>
  /\ \A k \in 1 .. m : line[o + w + k] = T!Decimal(v)[k]
  /\ ~T!IsDigit(line[o + w + m + 1])

LEMMA CounterStands ==
  ASSUME NEW line, NEW i, NEW v, NEW o, NEW w, NEW m, CounterAt(line, i, v, o, w, m)
  PROVE  HasCounter(line, i, v)
<1> SUFFICES ASSUME line \in Seq(Glyph), i \in 1 .. 7, v \in Nat, o \in Nat,
                    w \in Nat \ {0}, w = T!Fields[i][2],
                    m \in Nat \ {0}, m = Len(T!Decimal(v)),
                    o + w + m + 1 <= Len(line),
                    line[o + w] = <<T!Fields[i][1], w>>,
                    \A k \in 1 .. m : line[o + w + k] = T!Decimal(v)[k],
                    ~T!IsDigit(line[o + w + m + 1])
             PROVE  HasCounter(line, i, v)
  BY DEF CounterAt
<1> DEFINE at == o + w
           last == at + m
           s == T!Decimal(v)
<1>1. Spells(s, v)
  BY DecimalSpells
<1>2. at \in Nat /\ Len(s) = m
  <2>1. at \in Nat
    BY SumIs, Zenon
  <2>2. Len(s) = m
    OBVIOUS
  <2> QED BY <2>1, <2>2
<1>3. \A k \in 1 .. Len(s) : line[at + k] = s[k]
  OBVIOUS
<1>4. T!DigitsAt(line, at + 1, last) = v
  <2> HIDE DEF at, s
  <2>1. T!DigitsAt(line, at + 1, at + Len(s)) = v
    <3>1. Stands(line, s, v, at)
      BY <1>1, <1>2, <1>3 DEF Stands
    <3> QED BY <3>1, DigitsAtIs
  <2> QED BY <1>2, <2>1
<1>5. \A j \in at + 1 .. last : T!IsDigit(line[j])
  <2> TAKE j \in at + 1 .. last
  <2> DEFINE k == j - at
  <2>1. k \in 1 .. m /\ j = at + k
    <3> HIDE DEF at
    <3> QED BY <1>2, OffsetIs, Zenon
  <2>2. s[k][1] = "digit" /\ line[j] = s[k]
    BY <1>1, <1>2, <1>3, <2>1 DEF Spells
  <2> QED BY <2>2 DEF T!IsDigit
<1>6. at \in DOMAIN line /\ last \in at + 1 .. Len(line) /\ ~T!IsDigit(line[last + 1])
      /\ line[at] = <<T!Fields[i][1], T!Fields[i][2]>>
  OBVIOUS
<1> HIDE DEF at, last
<1> QED BY <1>4, <1>5, <1>6 DEF HasCounter

LEMMA DiagnosticsLine ==
  ASSUME NEW d, \A i \in 1 .. 7 : d[i] \in Counters
  PROVE  LET line == T!FlattenSeq(Pieces(d)) \o T!Newline
         IN  /\ line \in Seq(Glyph) /\ Len(line) \in Nat \ {0}
             /\ Len(line) <= 92 + 7 * 10 + 1
             /\ line[Len(line)] = T!Newline[1]
             /\ HasCounters(line, d)
<1> DEFINE p == Pieces(d)
<1>1. p \in [1 .. 7 -> Seq(Glyph)] /\ \A i \in 1 .. 7 : p[i] = Piece(d, i) /\ p[i] # <<>>
  BY FieldsAre, PieceIs DEF Pieces
<1> HIDE DEF p
<1>2. PICK F : Chained(F, p, 7) /\ T!FlattenSeq(p) = F[7]
  <2>1. 7 \in Nat \ {0}
    OBVIOUS
  <2> QED BY <1>1, <2>1, FlattenIs
<1> DEFINE e == F[7]
           line == e \o T!Newline
<1>3. /\ F \in [1 .. 7 -> Seq(Glyph)] /\ F[1] = p[1]
      /\ \A j \in 2 .. 7 : F[j] = F[j - 1] \o p[j]
  BY <1>2 DEF Chained, Chain
<1>4. Len(e) \in Nat /\ Len(e) <= 92 + 7 * 10
  <2> DEFINE l == [i \in 1 .. 7 |-> Len(F[i])]
             q == [i \in 1 .. 7 |-> Len(p[i])]
  <2>1. \A i \in 1 .. 7 : l[i] \in Nat /\ q[i] \in Nat
    <3> TAKE i \in 1 .. 7
    <3>1. F[i] \in Seq(Glyph) /\ p[i] \in Seq(Glyph)
      BY <1>1, <1>3
    <3> QED BY <3>1
  <2>2. \A i \in 2 .. 7 : l[i] = l[i - 1] + q[i]
    <3> TAKE i \in 2 .. 7
    <3>1. i \in 1 .. 7 /\ i - 1 \in 1 .. 7
      OBVIOUS
    <3>2. F[i - 1] \in Seq(Glyph) /\ p[i] \in Seq(Glyph) /\ F[i] = F[i - 1] \o p[i]
      BY <1>1, <1>3, <3>1
    <3>3. Len(F[i]) = Len(F[i - 1]) + Len(p[i])
      BY <3>2
    <3> QED BY <3>1, <3>3
  <2>3. \A i \in 1 .. 7 : q[i] <= Widths[i] + 10
    BY <1>1, PieceIs
  <2>4. l[1] = q[1] /\ l[7] = Len(e)
    BY <1>3
  <2> HIDE DEF l, q, e
  <2>5. /\ l[2] = l[1] + q[2] /\ l[3] = l[2] + q[3] /\ l[4] = l[3] + q[4]
        /\ l[5] = l[4] + q[5] /\ l[6] = l[5] + q[6] /\ l[7] = l[6] + q[7]
    BY <2>1, <2>2
  <2>6. /\ q[1] <= 16 + 10 /\ q[2] <= 15 + 10 /\ q[3] <= 14 + 10 /\ q[4] <= 13 + 10
        /\ q[5] <= 10 + 10 /\ q[6] <= 16 + 10 /\ q[7] <= 8 + 10
    <3>1. /\ Widths[1] = 16 /\ Widths[2] = 15 /\ Widths[3] = 14 /\ Widths[4] = 13
          /\ Widths[5] = 10 /\ Widths[6] = 16 /\ Widths[7] = 8
      BY DEF Widths
    <3>2. /\ q[1] <= Widths[1] + 10 /\ q[2] <= Widths[2] + 10 /\ q[3] <= Widths[3] + 10
          /\ q[4] <= Widths[4] + 10 /\ q[5] <= Widths[5] + 10 /\ q[6] <= Widths[6] + 10
          /\ q[7] <= Widths[7] + 10
      BY <2>3
    <3> QED BY <3>1, <3>2
  <2>7. /\ l[1] \in Nat /\ l[7] \in Nat /\ q[1] \in Nat /\ q[2] \in Nat /\ q[3] \in Nat
        /\ q[4] \in Nat /\ q[5] \in Nat /\ q[6] \in Nat /\ q[7] \in Nat
        /\ l[2] \in Nat /\ l[3] \in Nat /\ l[4] \in Nat /\ l[5] \in Nat /\ l[6] \in Nat
    BY <2>1
  <2> QED BY <2>4, <2>5, <2>6, <2>7, SMT
<1>5. e \in Seq(Glyph) /\ T!Newline \in Seq(Glyph) /\ Len(T!Newline) = 1
      /\ T!Newline[1] = <<"newline", 1>>
  <2>1. <<"newline", 1>> \in Glyph
    BY DEF Glyph, Names
  <2> QED BY <1>3, <2>1 DEF T!Newline
<1> HIDE DEF e
<1>6. /\ line \in Seq(Glyph) /\ Len(line) = Len(e) + 1
      /\ \A k \in 1 .. Len(e) : line[k] = e[k]
      /\ line[Len(e) + 1] = T!Newline[1]
  <2> DEFINE c == T!Newline
  <2>1. e \in Seq(Glyph) /\ c \in Seq(Glyph) /\ Len(c) = 1 /\ c[1] = T!Newline[1]
    BY <1>5
  <2> HIDE DEF c
  <2>2. /\ e \o c \in Seq(Glyph) /\ Len(e \o c) = Len(e) + 1
        /\ \A k \in 1 .. Len(e) : (e \o c)[k] = e[k]
        /\ (e \o c)[Len(e) + 1] = c[1]
    <3>1. 1 \in 1 .. Len(c)
      BY <2>1
    <3>2. /\ e \o c \in Seq(Glyph) /\ Len(e \o c) = Len(e) + Len(c)
          /\ \A k \in 1 .. Len(e) : (e \o c)[k] = e[k]
          /\ \A k \in 1 .. Len(c) : (e \o c)[Len(e) + k] = c[k]
      BY <2>1, JoinIs
    <3> QED BY <2>1, <3>1, <3>2
  <2> QED BY <2>1, <2>2 DEF c
<1> HIDE DEF line
<1>7. HasCounters(line, d)
  <2> SUFFICES ASSUME NEW i \in 1 .. 7
               PROVE  HasCounter(line, i, d[i])
    BY FieldsAre DEF HasCounters
  <2> DEFINE w == T!Fields[i][2]
             v == d[i]
             s == T!Decimal(v)
             m == Len(s)
             n == Len(p[i])
  <2>1. v \in Nat
    BY SMT DEF Counters
  <2>2. w \in Nat \ {0} /\ m \in Nat \ {0}
    BY <2>1, FieldsAre, DecimalIs
  <2>3. /\ n = w + m
        /\ p[i][w] = <<T!Fields[i][1], w>>
        /\ \A k \in 1 .. m : p[i][w + k] = s[k]
    <3> HIDE DEF w, s
    <3>1. /\ p[i] = Piece(d, i) /\ Len(Piece(d, i)) = w + m
          /\ \A k \in 1 .. w : Piece(d, i)[k] = <<T!Fields[i][1], k>>
          /\ \A k \in 1 .. m : Piece(d, i)[w + k] = s[k]
      BY <1>1, PieceIs DEF w, s
    <3> QED BY <2>2, <3>1
  <2>4. PICK o \in Nat :
          /\ o + n <= Len(e)
          /\ \A k \in 1 .. n : e[o + k] = p[i][k]
          /\ i = 7 => o + n = Len(e)
          /\ i < 7 => o + n + 1 <= Len(e) /\ e[o + n + 1] = p[i + 1][1]
    <3>1. PieceOf(F, p, 7, i)
      BY <1>1, <1>2 DEF PieceOf
    <3>2. \E o : Lies(F, p, 7, i, o)
      BY <3>1, PieceAt
    <3> QED BY <3>2 DEF Lies, e
  <2>5. ~T!IsDigit(line[o + n + 1])
    <3>1. CASE i = 7
      <4>1. line[o + n + 1] = <<"newline", 1>>
        BY <1>5, <1>6, <2>4, <3>1
      <4> QED BY <4>1 DEF T!IsDigit
    <3>2. CASE i # 7
      <4>1. i + 1 \in 1 .. 7 /\ i < 7
        BY <3>2
      <4>2. p[i + 1][1] = <<T!Fields[i + 1][1], 1>> /\ T!Fields[i + 1][1] # "digit"
        <5> DEFINE j == i + 1
        <5>1. j \in 1 .. 7
          BY <4>1
        <5> HIDE DEF j
        <5>2. T!Fields[j][1] \in Names \ {"digit"} /\ T!Fields[j][2] \in Nat \ {0}
          BY <5>1, FieldsAre
        <5>3. \A k \in 1 .. T!Fields[j][2] : Piece(d, j)[k] = <<T!Fields[j][1], k>>
          BY <5>1, PieceIs
        <5>4. p[j][1] = <<T!Fields[j][1], 1>> /\ T!Fields[j][1] # "digit"
          <6>1. 1 \in 1 .. T!Fields[j][2] /\ T!Fields[j][1] # "digit"
            BY <5>2
          <6>2. Piece(d, j)[1] = <<T!Fields[j][1], 1>>
            BY <5>3, <6>1
          <6>3. p[j] = Piece(d, j)
            BY <1>1, <5>1
          <6> QED BY <6>1, <6>2, <6>3
        <5> QED BY <5>4 DEF j
      <4>3. o + n + 1 \in 1 .. Len(e) /\ e[o + n + 1] = p[i + 1][1]
        <5> HIDE DEF w, s, m
        <5>1. n \in Nat
          BY <2>2, <2>3
        <5> HIDE DEF n
        <5> QED BY <1>4, <2>4, <4>1, <5>1
      <4>4. line[o + n + 1] = <<T!Fields[i + 1][1], 1>>
        BY <1>6, <4>2, <4>3
      <4> QED BY <4>2, <4>4 DEF T!IsDigit
    <3> QED BY <3>1, <3>2
  <2>6. \A k \in 1 .. n : line[o + k] = p[i][k]
    <3> HIDE DEF w, s, m
    <3>1. n \in Nat
      BY <2>2, <2>3
    <3> HIDE DEF n
    <3>2. \A k \in 1 .. n : o + k \in 1 .. Len(e)
      BY <1>4, <2>4, <3>1
    <3> QED BY <1>6, <2>4, <3>2
  <2>7. /\ o + w + m + 1 <= Len(line)
        /\ line[o + w] = <<T!Fields[i][1], w>>
        /\ \A k \in 1 .. m : line[o + w + k] = s[k]
        /\ ~T!IsDigit(line[o + w + m + 1])
    <3> HIDE DEF w, s, m, n
    <3>1. w \in 1 .. n /\ \A k \in 1 .. m : w + k \in 1 .. n /\ o + w + k = o + (w + k)
      BY <2>2, <2>3
    <3>2. o + w + m + 1 = o + n + 1 /\ o + n + 1 <= Len(line)
      BY <1>4, <1>6, <2>2, <2>3, <2>4
    <3>3. line[o + w] = <<T!Fields[i][1], w>>
      BY <2>3, <2>6, <3>1
    <3>4. \A k \in 1 .. m : line[o + w + k] = s[k]
      BY <2>3, <2>6, <3>1
    <3> QED BY <2>5, <3>2, <3>3, <3>4
  <2> HIDE DEF v, w, m, n, s
  <2>8. w = T!Fields[i][2] /\ m = Len(T!Decimal(v)) /\ s = T!Decimal(v)
    BY DEF w, m, s
  <2>9. CounterAt(line, i, v, o, w, m)
    BY <1>6, <2>1, <2>2, <2>7, <2>8 DEF CounterAt
  <2>10. HasCounter(line, i, v)
    BY <2>9, CounterStands
  <2> QED BY <2>10 DEF v
<1>8. /\ line \in Seq(Glyph) /\ Len(line) \in Nat \ {0} /\ Len(line) <= 92 + 7 * 10 + 1
      /\ line[Len(line)] = T!Newline[1]
  BY <1>4, <1>6
<1> QED BY <1>2, <1>7, <1>8 DEF line, e, p

-----------------------------------------------------------------------------
(* The line of every event *)

LEMMA NewlineIs ==
  T!Newline \in Seq(Glyph) /\ Len(T!Newline) = 1
<1>1. <<"newline", 1>> \in Glyph
  BY DEF Glyph, Names
<1> QED BY <1>1 DEF T!Newline

LEMMA StateNameIs == \A s \in T!States : T!StateName(s) \in Seq(Glyph)
<1> TAKE s \in T!States
<1> DEFINE n == [initializing |-> 12, calibrating |-> 11, running |-> 7,
                 fault_retry |-> 11][s]
<1>1. s \in {"initializing", "calibrating", "running", "fault_retry"}
  BY DEF T!States
<1>2. n \in Nat
  BY <1>1
<1>3. s \in Names
  BY <1>1 DEF Names
<1>4. T!StateName(s) = T!Text(s, n)
  BY DEF T!StateName
<1> HIDE DEF n
<1> QED BY <1>2, <1>3, <1>4, TextIs

LEMMA HexByteIs == \A v \in {0, 15, 30, 255} : T!HexByte(v) \in Seq(Glyph)
<1> TAKE v \in {0, 15, 30, 255}
<1>1. v \div 16 \in Nat /\ v % 16 \in Nat
  OBVIOUS
<1>2. Digit(v \div 16) \in Glyph /\ Digit(v % 16) \in Glyph
  BY <1>1, DigitIs
<1>3. T!HexByte(v) = <<Digit(v \div 16), Digit(v % 16)>>
  BY DEF T!HexByte, Digit
<1> QED BY <1>2, <1>3

LEMMA ConcatIs == \A a, b \in Seq(Glyph) : a \o b \in Seq(Glyph)
OBVIOUS

LEMMA LineIs ==
  ASSUME NEW e \in T!Loggable, e.kind # "unknown"
  PROVE  /\ T!LineOf(e) \in Seq(Glyph)
         /\ e.kind = "diagnostics" =>
              /\ T!LineOf(e) = T!FlattenSeq(Pieces(e.diagnostics)) \o T!Newline
              /\ \A i \in 1 .. 7 : e.diagnostics[i] \in Counters
<1>1. CASE e \in [kind : {"initial_state"}, state : T!States]
  <2>1. e.kind = "initial_state" /\ e.state \in T!States
    BY <1>1
  <2>2. T!LineOf(e) = T!Text("IMU state", 11) \o T!StateName(e.state) \o T!Newline
    BY <2>1 DEF T!LineOf
  <2>3. T!Text("IMU state", 11) \in Seq(Glyph)
    <3>1. "IMU state" \in Names /\ 11 \in Nat
      BY DEF Names
    <3> QED BY <3>1, TextIs
  <2>4. T!LineOf(e) \in Seq(Glyph)
    BY <2>1, <2>2, <2>3, StateNameIs, NewlineIs, ConcatIs
  <2> QED BY <2>1, <2>4
<1>2. CASE e \in [kind : {"state"}, previous_state : T!States, state : T!States]
  <2>1. e.kind = "state" /\ e.state \in T!States /\ e.previous_state \in T!States
    BY <1>2
  <2>2. T!LineOf(e) = T!Text("IMU state", 11) \o T!StateName(e.previous_state)
                        \o T!Text("arrow", 4) \o T!StateName(e.state) \o T!Newline
    BY <2>1 DEF T!LineOf
  <2>3. T!Text("IMU state", 11) \in Seq(Glyph) /\ T!Text("arrow", 4) \in Seq(Glyph)
    <3>1. "IMU state" \in Names /\ 11 \in Nat /\ "arrow" \in Names /\ 4 \in Nat
      BY DEF Names
    <3> QED BY <3>1, TextIs
  <2>4. T!LineOf(e) \in Seq(Glyph)
    BY <2>1, <2>2, <2>3, StateNameIs, NewlineIs, ConcatIs
  <2> QED BY <2>1, <2>4
<1>3. CASE e \in [kind : {"ids"}, accel_id : {0, 30}, gyro_id : {15, 255}]
  <2>1. e.kind = "ids" /\ e.accel_id \in {0, 15, 30, 255} /\ e.gyro_id \in {0, 15, 30, 255}
    BY <1>3
  <2>2. T!LineOf(e) = T!Text("accel", 20) \o T!HexByte(e.accel_id)
                        \o T!Text("gyro", 8) \o T!HexByte(e.gyro_id) \o T!Newline
    BY <2>1 DEF T!LineOf
  <2>3. T!Text("accel", 20) \in Seq(Glyph) /\ T!Text("gyro", 8) \in Seq(Glyph)
    <3>1. "accel" \in Names /\ 20 \in Nat /\ "gyro" \in Names /\ 8 \in Nat
      BY DEF Names
    <3> QED BY <3>1, TextIs
  <2>4. T!LineOf(e) \in Seq(Glyph)
    BY <2>1, <2>2, <2>3, HexByteIs, NewlineIs, ConcatIs
  <2> QED BY <2>1, <2>4
<1>4. CASE e \in [kind : {"calibration_complete", "unknown"}]
  <2>1. e.kind = "calibration_complete"
    BY <1>4
  <2>2. T!LineOf(e) = T!Text("calibration complete", 24) \o T!Newline
    BY <2>1 DEF T!LineOf
  <2>3. T!Text("calibration complete", 24) \in Seq(Glyph)
    <3>1. "calibration complete" \in Names /\ 24 \in Nat
      BY DEF Names
    <3> QED BY <3>1, TextIs
  <2>4. T!LineOf(e) \in Seq(Glyph)
    BY <2>2, <2>3, NewlineIs, ConcatIs
  <2> QED BY <2>1, <2>4
<1>5. CASE e \in [kind : {"diagnostics"}, diagnostics : [DOMAIN T!Fields -> Values]]
  <2> DEFINE d == e.diagnostics
  <2>1. e.kind = "diagnostics" /\ d \in [DOMAIN T!Fields -> Values]
    BY <1>5
  <2>2. \A i \in 1 .. 7 : d[i] \in Counters
    <3>1. Values \subseteq Counters
      BY TextAssumption
    <3> QED BY <2>1, <3>1, FieldsAre
  <2>3. T!LineOf(e) = T!FlattenSeq([i \in DOMAIN T!Fields |->
                          T!Text(T!Fields[i][1], T!Fields[i][2]) \o T!Decimal(d[i])])
                        \o T!Newline
    BY <2>1, Zenon DEF T!LineOf
  <2>4. T!LineOf(e) = T!FlattenSeq(Pieces(d)) \o T!Newline
    BY <2>3, Zenon DEF Pieces, Piece
  <2>5. T!LineOf(e) \in Seq(Glyph)
    BY <2>2, <2>4, DiagnosticsLine
  <2> QED BY <2>2, <2>4, <2>5
<1> QED BY <1>1, <1>2, <1>3, <1>4, <1>5 DEF T!Loggable

-----------------------------------------------------------------------------
(* The invariant of the text: once an event has been formatted, the buffer   *)
(* holds as much of its line as fits, terminated.                           *)

Cells == (Names \cup {"nul", "old"}) \X Nat

Written(l) ==
  LET n == Len(buffer)
      k == IF Len(l) < n THEN Len(l) ELSE n - 1
  IN  /\ returned = Len(l) /\ buffer[k + 1] = T!Nul
      /\ \A i \in 1 .. k : buffer[i] = l[i]

TextInv ==
  /\ buffer \in Seq(Cells) /\ Len(buffer) \in Capacities
  /\ returned \in Nat /\ pc \in {"queued", "formatted", "printed"}
  /\ subject = "text" \/ pc # "queued" => to_format \in T!Loggable
  /\ pc # "queued" /\ to_format.kind # "unknown" => Written(T!LineOf(to_format))

LEMMA GlyphIsCell == \A c \in Glyph : c \in Cells
  BY DEF Glyph, Cells

LEMMA NulIsCell == T!Nul \in Cells /\ \A i \in Nat : <<"old", i>> \in Cells
  BY DEF T!Nul, Cells

LEMMA CapacityIs == \A n \in Capacities : n \in Nat \ {0}
  BY TextAssumption, Zenon

(* imu_log_event_format of a line: write_char, character by character, and   *)
(* finish.                                                                  *)
LEMMA LineIsWritten ==
  ASSUME NEW l \in Seq(Glyph), buffer \in Seq(Cells), Len(buffer) \in Capacities,
         buffer' = T!Finish(T!WriteText(l)), returned' = T!WriteText(l).length
  PROVE  /\ buffer' \in Seq(Cells) /\ Len(buffer') = Len(buffer)
         /\ returned' \in Nat /\ Written(l)'
<1> DEFINE n == Len(buffer)
           m == Len(l)
           k == IF m < n THEN m ELSE n - 1
           w == [i \in DOMAIN buffer |-> IF i <= m /\ i < n THEN l[i] ELSE buffer[i]]
<1>1. n \in Nat \ {0} /\ m \in Nat /\ DOMAIN buffer = 1 .. n /\ DOMAIN l = 1 .. m
  BY CapacityIs
<1>2. k \in Nat /\ k + 1 \in 1 .. n /\ k <= m /\ \A i \in 1 .. n : i <= k <=> i <= m /\ i < n
  BY <1>1
<1>3. T!WriteText(l) = [buffer |-> w, length |-> m]
  BY DEF T!WriteText, T!WriteAll
<1> HIDE DEF n, m, k
<1>4. w \in [1 .. n -> Cells]
  <2>1. ASSUME NEW i \in 1 .. n PROVE w[i] \in Cells
    <3>1. CASE i <= m /\ i < n
      <4>1. i \in DOMAIN l
        BY <1>1, <3>1
      <4>2. l[i] \in Glyph
        BY <4>1
      <4> QED BY <1>1, <3>1, <4>2, GlyphIsCell
    <3>2. CASE ~(i <= m /\ i < n)
      BY <1>1, <3>2
    <3> QED BY <3>1, <3>2
  <2> QED BY <1>1, <2>1
<1>5. w \in Seq(Cells) /\ Len(w) = n
  BY <1>1, <1>4, FunctionIsSeq
<1> DEFINE at == IF m < n THEN m + 1 ELSE n
<1>6. at = k + 1
  BY <1>1 DEF k
<1>7. buffer' = [w EXCEPT ![k + 1] = T!Nul]
  <2>1. T!Finish(T!WriteText(l)) = T!Store(w, at, T!Nul)
    <3> DEFINE r == T!WriteText(l)
    <3>1. r.buffer = w /\ r.length = m
      BY <1>3
    <3> HIDE DEF r, w
    <3>2. T!Finish(r) = T!Store(w, at, T!Nul)
      BY <1>5, <3>1 DEF T!Finish
    <3> QED BY <3>2 DEF r
  <2> HIDE DEF w, at
  <2> QED BY <1>2, <1>5, <1>6, <2>1 DEF T!Store
<1>8. \A i \in 1 .. k : w[i] = l[i]
  <2> TAKE i \in 1 .. k
  <2>1. i \in 1 .. n /\ i <= m /\ i < n
    BY <1>1, <1>2
  <2> QED BY <1>1, <2>1
<1> HIDE DEF w
<1>9. /\ buffer' \in [1 .. n -> Cells] /\ buffer'[k + 1] = T!Nul
      /\ \A i \in 1 .. k : buffer'[i] = l[i]
  <2>1. \A i \in 1 .. k : i \in 1 .. n /\ i # k + 1
    BY <1>1, <1>2
  <2> QED BY <1>2, <1>4, <1>7, <1>8, <2>1, NulIsCell
<1>10. buffer' \in Seq(Cells) /\ Len(buffer') = n
  BY <1>1, <1>9, FunctionIsSeq
<1>11. returned' = m
  BY <1>3
<1>12. Written(l)'
  BY <1>9, <1>10, <1>11 DEF Written, k, m
<1> QED BY <1>1, <1>10, <1>11, <1>12 DEF n

LEMMA InitTextInv == ASSUME MCInit PROVE TextInv
<1>1. \A n \in Capacities : [i \in 1 .. n |-> <<"old", 1>>] \in Seq(Cells)
                            /\ Len([i \in 1 .. n |-> <<"old", 1>>]) = n
  <2> TAKE n \in Capacities
  <2>1. n \in Nat /\ [i \in 1 .. n |-> <<"old", 1>>] \in [1 .. n -> Cells]
    BY CapacityIs, NulIsCell
  <2> QED BY <2>1, FunctionIsSeq
<1>2. CASE subject = "text" /\ T!Init
  <2>1. PICK n \in Capacities : buffer = [i \in 1 .. n |-> <<"old", 1>>]
    BY <1>2 DEF T!Init
  <2>2. to_format \in T!Loggable /\ returned = 0 /\ pc = "queued"
    BY <1>2 DEF T!Init
  <2> QED BY <1>1, <2>1, <2>2 DEF TextInv
<1>3. CASE subject = "queue" /\ buffer = T!Text("old", BufferSize) /\ returned = 0 /\ pc = "queued"
  <2>1. BufferSize \in Capacities /\ BufferSize \in Nat
    BY TextAssumption, CapacityIs, Zenon
  <2>2. buffer \in [1 .. BufferSize -> Cells]
    BY <1>3, <2>1, NulIsCell DEF T!Text
  <2>3. buffer \in Seq(Cells) /\ Len(buffer) = BufferSize
    BY <2>1, <2>2, FunctionIsSeq
  <2> QED BY <1>3, <2>1, <2>3 DEF TextInv
<1> QED BY <1>2, <1>3 DEF MCInit

LEMMA NextTextInv == ASSUME TextInv, [MCNext]_allVars PROVE TextInv'
<1>1. CASE UNCHANGED <<subject, textVars>>
  BY <1>1 DEF textVars, TextInv, Written
<1>2. CASE TextStep /\ T!Format
  <2>1. subject = "text" /\ subject' = subject /\ to_format' = to_format
        /\ to_format \in T!Loggable /\ pc' = "formatted"
    BY <1>2 DEF TextStep, T!Format, TextInv
  <2>2. CASE to_format.kind = "unknown"
    <3>1. buffer' = [buffer EXCEPT ![1] = T!Nul] /\ returned' = 0
      BY <1>2, <2>2 DEF T!Format
    <3>2. Len(buffer) \in Nat \ {0} /\ buffer \in [1 .. Len(buffer) -> Cells]
      BY CapacityIs DEF TextInv
    <3>3. buffer' \in [1 .. Len(buffer) -> Cells]
      BY <3>1, <3>2, NulIsCell
    <3>4. buffer' \in Seq(Cells) /\ Len(buffer') = Len(buffer)
      BY <3>2, <3>3, FunctionIsSeq
    <3> QED BY <2>1, <2>2, <3>1, <3>4 DEF TextInv
  <2>3. CASE to_format.kind # "unknown"
    <3>0. PICK l : l = T!LineOf(to_format)
      OBVIOUS
    <3>1. l \in Seq(Glyph)
      BY <2>1, <2>3, <3>0, LineIs
    <3>2. buffer' = T!Finish(T!WriteText(l)) /\ returned' = T!WriteText(l).length
      BY <1>2, <2>3, <3>0 DEF T!Format
    <3>3. buffer \in Seq(Cells) /\ Len(buffer) \in Capacities
      BY DEF TextInv
    <3>4. T!LineOf(to_format)' = l
      BY <2>1, <3>0
    <3>5. /\ buffer' \in Seq(Cells) /\ Len(buffer') = Len(buffer)
          /\ returned' \in Nat /\ Written(l)'
      BY <3>1, <3>2, <3>3, LineIsWritten
    <3> QED BY <2>1, <3>3, <3>4, <3>5 DEF TextInv, Written
  <2> QED BY <2>2, <2>3
<1>3. CASE TextStep /\ T!PrintLine
  <2>1. UNCHANGED <<subject, to_format, buffer, returned>> /\ pc = "formatted" /\ pc' = "printed"
    BY <1>3 DEF TextStep, T!PrintLine
  <2> QED BY <2>1 DEF TextInv, Written
<1>4. UNCHANGED <<subject, textVars>> \/ (TextStep /\ (T!Format \/ T!PrintLine))
  BY DEF MCNext, QueueStep, TextStep, Rests, allVars, T!Next
<1> QED BY <1>1, <1>2, <1>3, <1>4

LEMMA MinIs ==
  ASSUME NEW S, S \subseteq Nat, NEW m \in S, \A x \in S : m <= x
  PROVE  T!Min(S) = m
<1>1. \A x \in S : (\A y \in S : x <= y) => x = m
  OBVIOUS
<1> QED BY <1>1 DEF T!Min

(* The text in the buffer is what was written of the line. *)
LEMMA LineReads ==
  ASSUME NEW l \in Seq(Glyph), buffer \in Seq(Cells), Len(buffer) \in Capacities, Written(l)
  PROVE  LET n == Len(buffer)
             k == IF Len(l) < n THEN Len(l) ELSE n - 1
         IN  /\ k \in Nat /\ k + 1 \in DOMAIN buffer /\ buffer[k + 1] = T!Nul
             /\ T!Line \in Seq(Glyph) /\ Len(T!Line) = k
             /\ \A i \in 1 .. k : T!Line[i] = l[i]
             /\ T!Line = SubSeq(l, 1, k)
<1> DEFINE n == Len(buffer)
           m == Len(l)
           k == IF m < n THEN m ELSE n - 1
           S == {i \in DOMAIN buffer : buffer[i] = T!Nul}
<1>1. n \in Nat \ {0} /\ m \in Nat /\ DOMAIN buffer = 1 .. n /\ DOMAIN l = 1 .. m
  BY CapacityIs
<1>2. buffer[k + 1] = T!Nul /\ \A i \in 1 .. k : buffer[i] = l[i]
  BY DEF Written
<1>3. k \in Nat /\ k + 1 \in 1 .. n /\ k <= m /\ \A i \in 1 .. k : i \in 1 .. m
  BY <1>1
<1> HIDE DEF n, m, k
<1>4. \A i \in 1 .. k : l[i] \in Glyph /\ buffer[i] # T!Nul
  <2> TAKE i \in 1 .. k
  <2>1. l[i] \in Glyph
    BY <1>1, <1>3
  <2> QED BY <1>2, <2>1, NoTerminator
<1>5. T!Min(S) = k + 1
  <2>1. S \subseteq Nat /\ k + 1 \in S
    BY <1>1, <1>2, <1>3
  <2>2. ASSUME NEW x \in S PROVE k + 1 <= x
    <3>1. x \in 1 .. n /\ buffer[x] = T!Nul
      BY <1>1
    <3>2. x \notin 1 .. k
      BY <1>4, <3>1
    <3> QED BY <1>1, <1>3, <3>1, <3>2
  <2> HIDE DEF S
  <2> QED BY <2>1, <2>2, MinIs
<1>6. T!Line = SubSeq(buffer, 1, k)
  <2>1. T!Line = SubSeq(buffer, 1, T!Min(S) - 1)
    BY DEF T!Line
  <2> HIDE DEF S
  <2>2. T!Min(S) - 1 = k
    BY <1>3, <1>5
  <2> QED BY <2>1, <2>2
<1>7. SubSeq(buffer, 1, k) = [i \in 1 .. k |-> buffer[i]]
  BY <1>1, <1>3
<1>8. SubSeq(l, 1, k) = [i \in 1 .. k |-> l[i]]
  BY <1>1, <1>3
<1>9. T!Line = [i \in 1 .. k |-> l[i]]
  BY <1>2, <1>6, <1>7
<1>10. [i \in 1 .. k |-> l[i]] \in [1 .. k -> Glyph]
  BY <1>4
<1>11. T!Line \in Seq(Glyph) /\ Len(T!Line) = k
  BY <1>3, <1>9, <1>10, FunctionIsSeq
<1>12. \A i \in 1 .. k : T!Line[i] = l[i]
  BY <1>9
<1> HIDE DEF S
<1>13. /\ k \in Nat /\ k + 1 \in DOMAIN buffer /\ buffer[k + 1] = T!Nul
       /\ T!Line \in Seq(Glyph) /\ Len(T!Line) = k
       /\ \A i \in 1 .. k : T!Line[i] = l[i]
       /\ T!Line = SubSeq(l, 1, k)
  BY <1>1, <1>2, <1>3, <1>8, <1>9, <1>11, <1>12
<1> QED BY <1>13 DEF n, m, k

LEMMA TruncationHolds == ASSUME TextInv PROVE T!TruncationIsReported
<1> SUFFICES ASSUME pc # "queued", to_format.kind # "unknown"
             PROVE  /\ T!Nul \in T!ToSet(buffer)
                    /\ T!IsPrefix(T!Line, T!LineOf(to_format))
                    /\ Len(T!Line) = IF returned < Len(buffer) THEN returned
                                     ELSE Len(buffer) - 1
                    /\ returned = Len(T!LineOf(to_format))
  BY DEF T!TruncationIsReported
<1> DEFINE l == T!LineOf(to_format)
           n == Len(buffer)
           k == IF Len(l) < n THEN Len(l) ELSE n - 1
<1>1. l \in Seq(Glyph) /\ Written(l) /\ buffer \in Seq(Cells) /\ Len(buffer) \in Capacities
  BY LineIs DEF TextInv
<1>2. returned = Len(l) /\ Len(l) \in Nat /\ n \in Nat \ {0}
  BY <1>1, CapacityIs DEF Written
<1> HIDE DEF l
<1>3. /\ k \in Nat /\ k + 1 \in DOMAIN buffer /\ buffer[k + 1] = T!Nul
      /\ T!Line \in Seq(Glyph) /\ Len(T!Line) = k
      /\ T!Line = SubSeq(l, 1, k)
  BY <1>1, LineReads
<1>4. T!Nul \in T!ToSet(buffer)
  BY <1>3 DEF T!ToSet
<1>5. Len(T!Line) = IF returned < n THEN returned ELSE n - 1
  BY <1>2, <1>3
<1>6. k <= Len(l)
  BY <1>2
<1> HIDE DEF k
<1>7. SubSeq(T!Line, 1, k) = T!Line
  BY <1>3
<1>8. T!IsPrefix(T!Line, l)
  BY <1>3, <1>6, <1>7 DEF T!IsPrefix
<1> QED BY <1>2, <1>4, <1>5, <1>8 DEF l

LEMMA FieldsHold == ASSUME TextInv PROVE T!LineHasFields
<1> SUFFICES ASSUME pc # "queued", Len(buffer) = BufferSize, to_format.kind = "diagnostics"
             PROVE  T!HasFields(T!Line) /\ T!Last(T!Line) = T!Newline[1]
  BY DEF T!LineHasFields
<1> DEFINE d == to_format.diagnostics
           l == T!LineOf(to_format)
<1>1. /\ to_format \in T!Loggable /\ Written(l) /\ buffer \in Seq(Cells)
      /\ Len(buffer) \in Capacities
  BY DEF TextInv
<1>2. l \in Seq(Glyph) /\ l = T!FlattenSeq(Pieces(d)) \o T!Newline
      /\ \A i \in 1 .. 7 : d[i] \in Counters
  BY <1>1, LineIs
<1>3. /\ Len(l) \in Nat \ {0} /\ Len(l) <= 92 + 7 * 10 + 1
      /\ l[Len(l)] = T!Newline[1] /\ HasCounters(l, d)
  BY <1>2, DiagnosticsLine
<1>4. BufferSize \in Nat /\ 92 + 7 * 10 + 1 < BufferSize
  <2>1. BufferSize \in Nat
    BY TextAssumption, CapacityIs, Zenon
  <2> QED BY <2>1, TextAssumption, SMT
<1> HIDE DEF l
<1>5. Len(l) < Len(buffer)
  BY <1>3, <1>4
<1>6. T!Line = SubSeq(l, 1, Len(l))
  BY <1>1, <1>2, <1>5, LineReads
<1>7. T!Line = l
  BY <1>2, <1>6
<1>8. T!HasFields(l)
  BY <1>3 DEF HasCounters, HasCounter, T!HasFields
<1> QED BY <1>3, <1>7, <1>8 DEF T!Last

(* imu_log_event_format never writes behind the buffer, terminates what it    *)
(* writes and reports the length of the whole; and the logger's buffer      *)
(* holds every field of the diagnostics, whatever the counters.             *)
THEOREM LogLineIsWhole == MCSpec => []LineIsWhole
<1>1. TextInv => LineIsWhole
  <2> SUFFICES ASSUME TextInv PROVE LineIsWhole
    OBVIOUS
  <2>1. T!TypeOK
    BY DEF TextInv, T!TypeOK
  <2> QED BY <2>1, TruncationHolds, FieldsHold DEF LineIsWhole
<1> QED BY <1>1, InitTextInv, NextTextInv, PTL DEF MCSpec
=============================================================================
