------------------------------ MODULE DebugStream ------------------------------
(***************************************************************************)
(* The Foxglove debug stream end to end: the thread of                     *)
(* debug/foxglove_debug.c sends a frame every period over a line that      *)
(* loses and changes bytes, and FrameParser of                             *)
(* tools/foxglove_debug_bridge.py finds the frames in the stream, which it *)
(* reads in pieces of any size.                                            *)
(*                                                                         *)
(* A frame is seven symbols: two of synchronisation, the header, the       *)
(* sequence number, two of data and the check, which is taken to match     *)
(* only the content it was computed from.  The data always looks like the  *)
(* synchronisation.  The parser's error statistics are left out.           *)
(***************************************************************************)
EXTENDS Naturals, Sequences, FiniteSetsExt, SequencesExt

CONSTANTS
  SeqRange,   \* the range of the sequence number: 2^16 in the code
  MaxFrames,  \* bound on the frames sent
  MaxDamage,  \* bound on the symbols damaged and the frames cut short
  Chunks      \* the numbers of symbols read at a time

VARIABLES
  sequence,    \* of the next frame
  drop_count,  \* frames the thread could not send whole
  sent,        \* history: frames encoded
  intact,      \* history: frames that left the line as they were sent
  damage,      \* symbols damaged so far
  line,        \* symbols on their way
  buffer,      \* FrameParser._buffer
  feeding,     \* the loop of FrameParser.feed runs
  last_sequence, \* _last_sequence; SeqRange stands for None
  dropped_frames,
  delivered    \* the frames returned, by their place among those sent

vars == <<sequence, drop_count, sent, intact, damage, line, buffer, feeding,
          last_sequence, dropped_frames, delivered>>
device == <<sequence, drop_count, sent, intact, damage>>
parser == <<buffer, feeding, last_sequence, dropped_frames, delivered>>

FrameSize == 7
S1 == <<"D3">>  S2 == <<"91">>  Header == <<"header">>
Data == <<S1, S2>>

(* The check also says, for the history, which of the frames it belongs to.  *)
Frame(n, data, id) ==
  <<S1, S2, Header, <<"sequence", n>>>> \o data \o <<<<"check", <<n, data>>, id>>>>

-----------------------------------------------------------------------------
(* The line: as sent, a symbol changed or lost *)

Changed(f, i, s) == [f EXCEPT ![i] = s]
Lost(f, i)       == SubSeq(f, 1, i - 1) \o SubSeq(f, i + 1, Len(f))

Transmit(f) ==
  \/ /\ line' = line \o f
     /\ intact' = intact \cup {sent'}
     /\ UNCHANGED damage
  \/ /\ damage < MaxDamage /\ damage' = damage + 1
     /\ \E i \in DOMAIN f :
          \/ line' = line \o Lost(f, i)
          \/ \E s \in {S1, S2} \ {f[i]} : line' = line \o Changed(f, i, s)
     /\ UNCHANGED intact

(* foxglove_debug_thread_entry: the frame counts as dropped when             *)
(* foxglove_debug_uart_send wrote less than all of it.  Faulty form: the     *)
(* sequence number does not wrap.                                           *)
NextUnbounded(n) == n + 1
NextSequence(n)  == (n + 1) % SeqRange

SendFrame ==
  /\ sent < MaxFrames /\ Len(line) < FrameSize
  /\ sent' = sent + 1
  /\ sequence' = NextSequence(sequence)
  /\ LET f == Frame(sequence, Data, sent') IN
       \/ Transmit(f) /\ UNCHANGED drop_count
       \/ /\ damage < MaxDamage /\ damage' = damage + 1
          /\ drop_count' = drop_count + 1
          /\ \E written \in 0 .. FrameSize - 1 : line' = line \o SubSeq(f, 1, written)
          /\ UNCHANGED intact
  /\ UNCHANGED parser

-----------------------------------------------------------------------------
(* FrameParser.feed *)

Feed(n) ==
  /\ ~feeding /\ n <= Len(line)
  /\ buffer' = buffer \o SubSeq(line, 1, n)
  /\ line' = SubSeq(line, n + 1, Len(line))
  /\ feeding' = TRUE
  /\ UNCHANGED <<device, last_sequence, dropped_frames, delivered>>

SyncAt == {i \in 1 .. Len(buffer) - 1 : buffer[i] = S1 /\ buffer[i + 1] = S2}

(* A first symbol that may be split from its second is kept. *)
KeepSplitSync == IF buffer # <<>> /\ Last(buffer) = S1 THEN <<S1>> ELSE <<>>

NoSync ==
  /\ feeding /\ SyncAt = {}
  /\ buffer' = KeepSplitSync
  /\ feeding' = FALSE
  /\ UNCHANGED <<device, line, last_sequence, dropped_frames, delivered>>

FromSync == SubSeq(buffer, Min(SyncAt), Len(buffer))

Incomplete ==
  /\ feeding /\ SyncAt # {} /\ Len(FromSync) < FrameSize
  /\ buffer' = FromSync
  /\ feeding' = FALSE
  /\ UNCHANGED <<device, line, last_sequence, dropped_frames, delivered>>

Candidate == SubSeq(FromSync, 1, FrameSize)

Valid ==
  /\ Candidate[3] = Header
  /\ Candidate[4][1] = "sequence" /\ Candidate[7][1] = "check"
  /\ Candidate[7][2] = <<Candidate[4][2], <<Candidate[5], Candidate[6]>>>>

(* One symbol is given up, and the search goes on behind it.  Faulty forms:  *)
(* the whole candidate is given up; nothing is.                             *)
SkipCandidate(b) == SubSeq(b, FrameSize + 1, Len(b))
SkipNothing(b)   == b
SkipOne(b)       == Tail(b)

Reject ==
  /\ feeding /\ SyncAt # {} /\ Len(FromSync) >= FrameSize /\ ~Valid
  /\ buffer' = SkipOne(FromSync)
  /\ UNCHANGED <<device, line, feeding, last_sequence, dropped_frames, delivered>>

(* Faulty form: the frame itself is counted among the missing. *)
MissingInclusive(n) ==
  IF n = last_sequence \/ last_sequence = SeqRange THEN 0
  ELSE (n + SeqRange - last_sequence) % SeqRange
Missing(n) ==
  IF n = last_sequence \/ last_sequence = SeqRange THEN 0
  ELSE (n + SeqRange - last_sequence - 1) % SeqRange

(* Faulty form: the frame stays in the buffer. *)
Keep(b)    == b
Consume(b) == SubSeq(b, FrameSize + 1, Len(b))

Deliver ==
  /\ feeding /\ SyncAt # {} /\ Len(FromSync) >= FrameSize /\ Valid
  /\ last_sequence' = Candidate[4][2]
  /\ dropped_frames' = dropped_frames + Missing(Candidate[4][2])
  /\ delivered' = Append(delivered, Candidate[7][3])
  /\ buffer' = Consume(FromSync)
  /\ UNCHANGED <<device, line, feeding>>

-----------------------------------------------------------------------------

Init ==
  /\ sequence = 0 /\ drop_count = 0 /\ sent = 0 /\ intact = {} /\ damage = 0
  /\ line = <<>> /\ buffer = <<>> /\ feeding = FALSE
  /\ last_sequence = SeqRange /\ dropped_frames = 0 /\ delivered = <<>>

Loop == NoSync \/ Incomplete \/ Reject \/ Deliver

Next == SendFrame \/ (\E n \in Chunks : Feed(n)) \/ Loop

Spec == Init /\ [][Next]_vars

(* feed runs to its end. *)
FairSpec == Spec /\ WF_vars(Loop)
-----------------------------------------------------------------------------
(* Properties *)

TypeOK ==
  /\ sequence \in 0 .. SeqRange - 1 /\ last_sequence \in 0 .. SeqRange
  /\ sent \in 0 .. MaxFrames /\ intact \subseteq 1 .. MaxFrames
  /\ drop_count \in 0 .. MaxDamage /\ damage \in 0 .. MaxDamage
  /\ feeding \in BOOLEAN /\ dropped_frames \in Nat
  /\ delivered \in Seq(1 .. MaxFrames)

(* docs/protocols/foxglove-debug-v1.md: bad frames end nothing.  A frame that *)
(* came through whole is delivered, or still lies whole ahead of the parser, *)
(* whatever wreckage, false synchronisation or split came before it.        *)
NoIntactFrameLost ==
  ~feeding =>
    \A id \in intact :
      \/ id \in ToSet(delivered)
      \/ \E i \in 1 .. Len(buffer \o line) - FrameSize + 1 :
           LET f == SubSeq(buffer \o line, i, i + FrameSize - 1)
           IN  f[7][1] = "check" /\ f = Frame(f[7][2][1], f[7][2][2], id)

(* No frame is delivered twice or after a later one. *)
OnceInOrder ==
  \A i \in 1 .. Len(delivered) - 1 : delivered[i] < delivered[i + 1]

(* docs/protocols/foxglove-debug-v1.md, gaps: the parser counts exactly the   *)
(* frames missing between those it delivered, those the firmware dropped     *)
(* among them, over the wrap of the sequence number.  Only as many frames    *)
(* missing at once as make the number come round again escape it.           *)
GapsCounted ==
  LET n == Len(delivered)
      Gap(i) == delivered[i + 1] - delivered[i] - 1
  IN  n > 0 /\ (\A i \in 1 .. n - 1 : Gap(i) < SeqRange - 1)
        => dropped_frames = (Last(delivered) - Head(delivered) + 1) - n

(* A call of feed ends, whatever bytes it is given. *)
FeedReturns == feeding ~> ~feeding
=============================================================================
