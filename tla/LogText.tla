-------------------------------- MODULE LogText --------------------------------
(***************************************************************************)
(* From a log event to a line on the console: imu_log_event_format of      *)
(* kernel/logging/imu_log_event.c writes it into a buffer, and the logger  *)
(* passes that on to rt_kprintf of RT-Thread, which has a buffer of its    *)
(* own.                                                                    *)
(*                                                                         *)
(* A character of a fixed text is known by the text and its place in it, a *)
(* digit by its value.                                                     *)
(***************************************************************************)
EXTENDS Naturals, Sequences, SequencesExt

CONSTANTS
  Values,      \* the values the counters take
  Capacities,  \* the sizes of the buffers formatted into
  BufferSize,  \* IMU_LOG_BUFFER_SIZE
  ConsoleSize  \* RT_CONSOLEBUF_SIZE

VARIABLES event, buffer, returned, printed, pc

vars == <<event, buffer, returned, printed, pc>>

-----------------------------------------------------------------------------
(* Texts *)

Text(name, n) == [i \in 1 .. n |-> <<name, i>>]
Newline == <<<<"newline", 1>>>>
Nul     == <<"nul", 1>>

(* state_name *)
StateName(s) ==
  Text(s, [initializing |-> 12, calibrating |-> 11, running |-> 7,
           fault_retry |-> 11][s])

(* write_uint: the digits as they are gathered, the lowest first, and as they *)
(* are written.  Faulty form: as they were gathered.                        *)
LowestFirst[v \in Nat] ==
  <<<<"digit", v % 10>>>> \o (IF v < 10 THEN <<>> ELSE LowestFirst[v \div 10])
DecimalReversed(v) == LowestFirst[v]
Decimal(v)         == Reverse(LowestFirst[v])

(* write_hex_byte *)
HexByte(v) == <<<<"digit", v \div 16>>, <<"digit", v % 16>>>>

(* The fields of the diagnostics with the lengths of their labels. *)
Fields ==
  <<<<"spi", 16>>, <<"accel_overrun", 15>>, <<"gyro_overrun", 14>>,
    <<"rejected_dt", 13>>, <<"long_gap", 10>>, <<"telemetry_drop", 16>>,
    <<"reinit", 8>>>>

(* The cases of imu_log_event_format *)
LineOf(e) ==
  CASE e.kind = "initial_state" ->
         Text("IMU state", 11) \o StateName(e.state) \o Newline
    [] e.kind = "state" ->
         Text("IMU state", 11) \o StateName(e.previous_state)
           \o Text("arrow", 4) \o StateName(e.state) \o Newline
    [] e.kind = "ids" ->
         Text("accel", 20) \o HexByte(e.accel_id)
           \o Text("gyro", 8) \o HexByte(e.gyro_id) \o Newline
    [] e.kind = "calibration_complete" -> Text("calibration complete", 24) \o Newline
    [] e.kind = "diagnostics" ->
         FlattenSeq([i \in DOMAIN Fields |->
                       Text(Fields[i][1], Fields[i][2]) \o Decimal(e.diagnostics[i])])
           \o Newline

-----------------------------------------------------------------------------
(* imu_log_writer_t *)

(* write_char for each character.  Faulty form: a character that is not      *)
(* stored is not counted.                                                   *)
WriteAll(text) ==
  [buffer |-> [i \in DOMAIN buffer |->
                 IF i <= Len(text) /\ i < Len(buffer) THEN text[i] ELSE buffer[i]],
   length |-> Len(text)]
WriteCountsStored(text) ==
  [WriteAll(text) EXCEPT !.length = IF @ < Len(buffer) THEN @ ELSE Len(buffer) - 1]
WriteText(text) == WriteAll(text)

(* finish: a write behind the buffer would make it longer.  Faulty form: the *)
(* text is taken to fit.                                                    *)
Store(b, i, c) == IF i <= Len(b) THEN [b EXCEPT ![i] = c] ELSE Append(b, c)
FinishAtLength(w) == Store(w.buffer, w.length + 1, Nul)
Finish(w) ==
  Store(w.buffer, IF w.length < Len(w.buffer) THEN w.length + 1 ELSE Len(w.buffer),
        Nul)

Format ==
  /\ pc = "queued"
  /\ IF event.kind = "unknown"
     THEN /\ buffer' = [buffer EXCEPT ![1] = Nul] /\ returned' = 0
     ELSE LET w == WriteText(LineOf(event))
          IN  buffer' = Finish(w) /\ returned' = w.length
  /\ pc' = "formatted"
  /\ UNCHANGED <<event, printed>>

(* The text in the buffer ends before the first terminator. *)
Line == SubSeq(buffer, 1, Min({i \in DOMAIN buffer : buffer[i] = Nul}) - 1)

(* The call of rt_kprintf in imu_log_thread_entry: what does not fit the     *)
(* console's buffer, less a character and the terminator, is cut off.       *)
PrintLine ==
  /\ pc = "formatted" /\ Len(buffer) = BufferSize
  /\ printed' = IF returned = 0 THEN <<>>
                ELSE IF Len(Line) < ConsoleSize - 1 THEN Line
                ELSE SubSeq(Line, 1, ConsoleSize - 2)
  /\ pc' = "printed"
  /\ UNCHANGED <<event, buffer, returned>>

-----------------------------------------------------------------------------

States == {"initializing", "calibrating", "running", "fault_retry"}

Loggable ==
  [kind : {"initial_state"}, state : States]
    \cup [kind : {"state"}, previous_state : States, state : States]
    \cup [kind : {"ids"}, accel_id : {0, 30}, gyro_id : {15, 255}]
    \cup [kind : {"calibration_complete", "unknown"}]
    \cup [kind : {"diagnostics"}, diagnostics : [DOMAIN Fields -> Values]]

(* The buffer holds anything; <<"old", 1>> stands for it. *)
Init ==
  /\ event \in Loggable
  /\ \E n \in Capacities : buffer = [i \in 1 .. n |-> <<"old", 1>>]
  /\ returned = 0 /\ printed = <<>> /\ pc = "queued"

Next == Format \/ PrintLine

Spec == Init /\ [][Next]_vars
-----------------------------------------------------------------------------
(* Properties *)

(* The type invariant; the buffer keeps its size: nothing is written behind  *)
(* it.                                                                      *)
TypeOK ==
  /\ Len(buffer) \in Capacities
  /\ returned \in Nat /\ pc \in {"queued", "formatted", "printed"}

(* imu_log_event.h: the buffer holds a terminated text, the whole line or as  *)
(* much of it as fits, and the length of the whole is returned all the same. *)
TruncationIsReported ==
  pc # "queued" /\ event.kind # "unknown" =>
    /\ Nul \in ToSet(buffer)
    /\ IsPrefix(Line, LineOf(event))
    /\ Len(Line) = IF returned < Len(buffer) THEN returned ELSE Len(buffer) - 1
    /\ returned = Len(LineOf(event))

(* The number that the digits from the first place to the last are read as.   *)
DigitsAt(s, first, last) ==
  LET value[i \in first - 1 .. last] ==
        IF i < first THEN 0 ELSE 10 * value[i - 1] + s[i][2]
  IN  value[last]

(* Behind the label of each field stands a number, and it is the counter's.  *)
IsDigit(c) == c[1] = "digit"

HasFields(line) ==
  \A i \in DOMAIN Fields :
    \E at \in DOMAIN line :
      /\ line[at] = <<Fields[i][1], Fields[i][2]>>
      /\ \E last \in at + 1 .. Len(line) :
           /\ \A j \in at + 1 .. last : IsDigit(line[j])
           /\ last = Len(line) \/ ~IsDigit(line[last + 1])
           /\ DigitsAt(line, at + 1, last) = event.diagnostics[i]

(* In the logger's buffer the line of the diagnostics always has every field  *)
(* and every digit of it: the size suffices for the longest.                *)
LineHasFields ==
  pc # "queued" /\ Len(buffer) = BufferSize /\ event.kind = "diagnostics"
    => HasFields(Line) /\ Last(Line) = Newline[1]

(* docs/requirements/firmware-behavior.md: the line on the console has every  *)
(* field.                                                                   *)
FieldsPrinted ==
  pc = "printed" /\ event.kind = "diagnostics" => HasFields(printed)
=============================================================================
