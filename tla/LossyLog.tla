------------------------------- MODULE LossyLog -------------------------------
(***************************************************************************)
(* What the log service promises the IMU thread (imu_log_service.h and     *)
(* docs/requirements/firmware-behavior.md): submitted events are printed   *)
(* once, in order and unchanged; an event is dropped, and counted, only    *)
(* when as many as the queue holds are waiting; a stop discards what       *)
(* waits, except the event that is being printed.                          *)
(***************************************************************************)
EXTENDS Naturals, Sequences

CONSTANTS
  Events,   \* what can be submitted
  NoEvent,  \* nothing printed yet
  Capacity, \* IMU_LOG_QUEUE_CAPACITY: 8 in the code
  MaxDrops  \* where the drop counter saturates

VARIABLES
  pending, \* accepted and not yet printed
  drops,   \* log_drop_count
  output   \* the last event printed

vars == <<pending, drops, output>>

(* One event may be in the printing thread's hands besides a full queue. *)
Accept(e) ==
  /\ Len(pending) <= Capacity
  /\ pending' = Append(pending, e)
  /\ UNCHANGED <<drops, output>>

Drop ==
  /\ Len(pending) >= Capacity
  /\ drops < MaxDrops
  /\ drops' = drops + 1
  /\ UNCHANGED <<pending, output>>

Output ==
  /\ pending # <<>>
  /\ output' = Head(pending)
  /\ pending' = Tail(pending)
  /\ UNCHANGED drops

Stop ==
  /\ pending # <<>>
  /\ pending' \in {<<>>, <<Head(pending)>>}
  /\ UNCHANGED <<drops, output>>

Start ==
  /\ pending = <<>>
  /\ drops' = 0
  /\ UNCHANGED <<pending, output>>

Init == pending = <<>> /\ drops = 0 /\ output = NoEvent

Next == (\E e \in Events : Accept(e)) \/ Drop \/ Output \/ Stop \/ Start

Spec == Init /\ [][Next]_vars
=============================================================================
