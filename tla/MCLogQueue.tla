----------------------------- MODULE MCLogQueue -----------------------------
(* The log, from the IMU thread to the console: the queue and its two        *)
(* threads (LogQueue) with two blocks and two events, so that queues fill up *)
(* and an event is told from the next, and the line made of an event         *)
(* (LogText), for every event with counters of one, three and ten digits.    *)
(* The two share no state: a behaviour follows one of them, its subject, and *)
(* the other one rests.                                                     *)
EXTENDS LogQueue

CONSTANTS Subjects, Values, Capacities, BufferSize, ConsoleSize

(* Ten digits at most: what write_uint has room for *)
Counters == {v \in Nat : v \div 1000000000 <= 9}

(* The longest line has 92 characters of labels, seven such counters and the *)
(* newline; with its terminator it fits the logger's buffer.                *)
ASSUME TextAssumption ==
  /\ Values \subseteq Counters
  /\ Capacities \subseteq Nat \ {0} /\ BufferSize \in Capacities
  /\ 92 + 7 * 10 + 1 < BufferSize

VARIABLES subject, to_format, buffer, returned, on_console, pc

T == INSTANCE LogText WITH event <- to_format, printed <- on_console

textVars == <<to_format, buffer, returned, on_console, pc>>
allVars  == <<subject, vars, textVars>>

MCInit ==
  /\ subject \in Subjects
  /\ Init
  /\ \/ subject = "text" /\ T!Init
     \/ /\ subject = "queue"
        /\ to_format = [kind |-> "none"] /\ buffer = T!Text("old", BufferSize)
        /\ returned = 0 /\ on_console = <<>> /\ pc = "queued"

QueueStep == subject = "queue" /\ Next /\ UNCHANGED <<subject, textVars>>
TextStep  == subject = "text" /\ T!Next /\ UNCHANGED <<subject, vars>>

(* The event has been formatted or printed. *)
Rests == subject = "text" /\ pc # "queued" /\ UNCHANGED allVars

MCNext == QueueStep \/ TextStep \/ Rests

(* The logger that rests is not enabled: its fairness asks for nothing. *)
MCSpec == MCInit /\ [][MCNext]_allVars /\ WF_vars(Logger)
-----------------------------------------------------------------------------
(* What is asked of LogText *)

(* imu_log_event_format: nothing is written behind the buffer; a text that    *)
(* was cut is terminated, and the length of the whole returned; and the     *)
(* logger's buffer (IMU_LOG_BUFFER_SIZE) holds the longest diagnostics.     *)
LineIsWhole == T!TypeOK /\ T!TruncationIsReported /\ T!LineHasFields

(* rt_kprintf: what is printed has every field of the diagnostics. *)
FieldsPrinted == T!FieldsPrinted
=============================================================================
