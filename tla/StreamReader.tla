---------------------------- MODULE StreamReader ----------------------------
(***************************************************************************)
(* StreamReader of tpt-telemetry-core: newline-delimited lines out of any  *)
(* Read source, framed in one buffer that is compacted and grown in place. *)
(* One action per way through an iteration of the loop in next_line.  The  *)
(* source may deliver any number of bytes per read, fail, or be            *)
(* interrupted.                                                            *)
(***************************************************************************)
EXTENDS Integers, Sequences, FiniteSets

CONSTANTS
  Alphabet,      \* the bytes of the input
  LF, CR,        \* \n and \r
  NUL,           \* the byte a new part of the buffer is filled with
  InitialCap,    \* the cap of with_capacity
  MaxLineLen,    \* max_line_len
  MaxStream      \* bound: bytes the source delivers

ASSUME ReaderAssumption ==
  /\ LF \in Alphabet /\ CR \in Alphabet /\ LF # CR
  /\ InitialCap \in Nat
  /\ MaxLineLen \in Nat \ {0}
  /\ MaxStream \in Nat

VARIABLES
  buf,        \* the buffer, with whatever stale bytes it holds
  start,      \* how many of its bytes come before the ones not yet returned
  end,        \* and how many there are up to the last of these
  done,       \* no more reads
  error,      \* last_error
  stream,     \* every byte the source has delivered
  calls,      \* what the calls of next_line have returned
  used        \* how many bytes of stream the returned lines account for

vars == <<buf, start, end, done, error, stream, calls, used>>

\* buf[start .. end], and its length.
data == SubSeq(buf, start + 1, end)
Held == end - start

Some(line) == [some |-> TRUE, line |-> line]
None == [some |-> FALSE, line |-> <<>>]

HasLF(s) == \E i \in 1 .. Len(s) : s[i] = LF

\* iter().position(): the index of the first newline, from 1.
Position(s) ==
  CHOOSE i \in 1 .. Len(s) : s[i] = LF /\ \A j \in 1 .. i - 1 : s[j] # LF

\* The line before position i, without a \r at its end.
LineBefore(s, i) ==
  IF i > 1 /\ s[i - 1] = CR THEN SubSeq(s, 1, i - 2) ELSE SubSeq(s, 1, i - 1)

\* with_capacity, with_max_line_len
Init ==
  /\ buf = [i \in 1 .. InitialCap |-> NUL] /\ start = 0 /\ end = 0
  /\ done = FALSE /\ error = "none"
  /\ stream = <<>> /\ calls = <<>> /\ used = 0

Return(r) == calls' = Append(calls, r)

-----------------------------------------------------------------------------

\* Mutation: the carriage return stays in the line.
FoundLineKeepsCR ==
  /\ HasLF(data)
  /\ LET i == Position(data) IN
       /\ Return(Some(SubSeq(data, 1, i - 1)))
       /\ start' = start + i
       /\ used' = used + i
  /\ UNCHANGED <<buf, end, done, error, stream>>

\* A newline is in the buffer: the line before it is returned.
FoundLine ==
  /\ HasLF(data)
  /\ LET i == Position(data) IN
       /\ Return(Some(LineBefore(data, i)))
       /\ start' = start + i
       /\ used' = used + i
  /\ UNCHANGED <<buf, end, done, error, stream>>

\* After the last read: what is left is the last line.
LastLine ==
  /\ ~HasLF(data)
  /\ done
  /\ start < end
  /\ Return(Some(data))
  /\ start' = end
  /\ used' = used + Held
  /\ UNCHANGED <<buf, end, done, error, stream>>

Ended == calls # <<>> /\ calls[Len(calls)] = None

\* Nothing is left.  Further calls return None again, which is not recorded.
EndOfInput ==
  /\ start = end
  /\ done
  /\ IF Ended THEN UNCHANGED calls ELSE Return(None)
  /\ UNCHANGED <<buf, start, end, done, error, stream, used>>

Overlong == Held > MaxLineLen

\* Mutation: the condition is not recorded.
RejectLineSilently ==
  /\ ~HasLF(data)
  /\ ~done
  /\ Overlong
  /\ done' = TRUE
  /\ Return(None)
  /\ UNCHANGED <<buf, start, end, error, stream, used>>

\* The unframed bytes exceed the ceiling: the call returns None.
RejectLine ==
  /\ ~HasLF(data)
  /\ ~done
  /\ Overlong
  /\ error' = "InvalidData"
  /\ done' = TRUE
  /\ Return(None)
  /\ UNCHANGED <<buf, start, end, stream, used>>

\* Mutation: the last of the bytes is not moved.
CompactedShort ==
  [i \in 1 .. Len(buf) |-> IF i < Held THEN buf[start + i] ELSE buf[i]]

\* copy_within(start .. end, 0): the bytes behind the copy stay as they were.
Compacted ==
  [i \in 1 .. Len(buf) |-> IF i <= Held THEN buf[start + i] ELSE buf[i]]

Zeros(n) == [i \in 1 .. n |-> NUL]

\* Mutation: the buffer grows on every read.
RoomAlways == Compacted \o Zeros(Len(buf) + 1)

\* The buffer once it is compacted and, if full, resized to 2 * len + 1.
Room == IF Held = Len(buf) THEN Compacted \o Zeros(Len(buf) + 1) ELSE Compacted

\* The part of an iteration before the read, and the indices it leaves.
MakeRoom ==
  /\ ~HasLF(data)
  /\ ~done
  /\ ~Overlong
  /\ start' = 0

\* Room with the bytes of a read behind what it holds.
Filled(chunk) ==
  [i \in 1 .. Len(Room) |->
     IF i \in Held + 1 .. Held + Len(chunk) THEN chunk[i - Held] ELSE Room[i]]

\* Ok(k): some bytes of the source.
ReadSome(chunk) ==
  /\ MakeRoom
  /\ Len(stream) + Len(chunk) <= MaxStream
  /\ buf' = Filled(chunk)
  /\ end' = Held + Len(chunk)
  /\ stream' = stream \o chunk
  /\ UNCHANGED <<done, error, calls, used>>

\* A read that delivers nothing.
ReadNothing ==
  /\ MakeRoom
  /\ buf' = Room
  /\ end' = Held

\* Ok(0)
ReadEof ==
  /\ ReadNothing
  /\ done' = TRUE
  /\ UNCHANGED <<error, stream, calls, used>>

\* ErrorKind::Interrupted: the loop goes round again.
ReadInterrupted ==
  /\ ReadNothing
  /\ UNCHANGED <<done, error, stream, calls, used>>

\* Any other error ends the reading.
ReadError ==
  /\ ReadNothing
  /\ error' = "Io"
  /\ done' = TRUE
  /\ UNCHANGED <<stream, calls, used>>

-----------------------------------------------------------------------------

\* What a read may deliver: at most what there is room for.
Chunks ==
  UNION {[1 .. n -> Alphabet] :
           n \in {k \in 1 .. MaxStream - Len(stream) : k <= Len(Room) - Held}}

Next ==
  \/ FoundLine \/ LastLine \/ EndOfInput \/ RejectLine
  \/ \E chunk \in Chunks : ReadSome(chunk)
  \/ ReadEof \/ ReadInterrupted \/ ReadError

Spec == Init /\ [][Next]_vars

-----------------------------------------------------------------------------
Results == [some : BOOLEAN, line : Seq(Alphabet)]

\* The type of every variable of the reader.
TypeOK ==
  /\ buf \in Seq(Alphabet \cup {NUL}) /\ stream \in Seq(Alphabet)
  /\ start \in Nat /\ end \in Nat /\ used \in Nat
  /\ done \in BOOLEAN
  /\ error \in {"none", "InvalidData", "Io"}
  /\ calls \in Seq(Results)

\* start and end index the buffer: no slice of next_line is out of range.
IndicesInBuffer == start <= end /\ end <= Len(buf)

\* Growth is bounded by max_line_len: the buffer never exceeds its initial
\* size or about twice the ceiling, whichever is larger.
GrowthBounded == Len(buf) <= InitialCap \/ Len(buf) <= 2 * MaxLineLen + 1

\* No byte is lost, repeated, reordered or made up by compaction, growth and
\* reads: between its indices the buffer holds what the source delivered after
\* the bytes already returned, and none of the stale bytes around them.
BufferIsRest ==
  /\ Len(stream) = used + Len(data)
  /\ \A i \in 1 .. Len(data) : data[i] = stream[used + i]

\* A None without an error is a clean end of input: every byte has been
\* returned.
NoneIsCleanEnd == Ended /\ error = "none" => used = Len(stream)

\* How many lines calls 1 .. c have returned, and how many newlines are among the
\* first n bytes of s.
Lines(c) == Cardinality({d \in 1 .. c : calls[d].some})
Newlines(s, n) == Cardinality({j \in 1 .. n : s[j] = LF})

\* Bytes a + 1 .. b of s stand behind a newline or at the start, with no newline
\* inside.
Between(s, a, b) ==
  /\ a = 0 \/ s[a] = LF
  /\ \A j \in a + 1 .. b : s[j] # LF

\* The n-th line of s: what stands between two newlines, the second of which is
\* the n-th of s, without a \r at its end.
IsLine(s, n, line) ==
  \E a \in 0 .. Len(s) : \E b \in a + 1 .. Len(s) :
    /\ Between(s, a, b - 1) /\ s[b] = LF /\ Newlines(s, b) = n
    /\ line = LineBefore(SubSeq(s, a + 1, b), b - a)

\* The n-th line of s has no newline: it is the rest.
IsRest(s, n, line) ==
  \E a \in 0 .. Len(s) - 1 :
    /\ Between(s, a, Len(s)) /\ Newlines(s, Len(s)) = n - 1
    /\ line = SubSeq(s, a + 1, Len(s))

\* The lines returned depend on the bytes of the stream alone, not on how the
\* reads cut it up: the n-th line returned is the n-th line of the stream, one
\* for each newline used up, and after the last read the unterminated rest.
LinesExact ==
  /\ \/ Lines(Len(calls)) = Newlines(stream, used)
     \/ /\ done /\ used = Len(stream)
        /\ Lines(Len(calls)) = Newlines(stream, used) + 1
  /\ \A c \in 1 .. Len(calls) : calls[c].some =>
       \/ IsLine(stream, Lines(c), calls[c].line)
       \/ done /\ used = Len(stream) /\ IsRest(stream, Lines(c), calls[c].line)

\* What the documentation of with_max_line_len says: once the reader has
\* rejected an over-long line it stops.
StopsAfterReject ==
  [][Len(calls) > 0 /\ calls[Len(calls)] = None /\ error = "InvalidData" =>
       UNCHANGED calls]_vars
=============================================================================
