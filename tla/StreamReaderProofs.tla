------------------------- MODULE StreamReaderProofs -------------------------
(***************************************************************************)
(* Proofs about StreamReader, for every alphabet, initial capacity and     *)
(* ceiling: the indices of next_line stay inside the buffer, the buffer's  *)
(* growth is bounded, no byte is lost, a None without an error means that  *)
(* every byte has been returned, and the lines returned are those of the   *)
(* stream.                                                                 *)
(***************************************************************************)
EXTENDS StreamReader, SequenceTheorems, FiniteSetTheorems, WellFoundedInduction,
        NaturalsInduction, TLAPS

\* After a clean None nothing is buffered and nothing will be read.
CleanEndIsFinal == Ended /\ error = "none" => done /\ start = end

ReaderInv ==
  /\ TypeOK
  /\ IndicesInBuffer
  /\ GrowthBounded
  /\ BufferIsRest
  /\ CleanEndIsFinal

-----------------------------------------------------------------------------
(* The bytes between the indices. *)

Bytes == Alphabet \cup {NUL}

\* What a slice of a buffer holds.
LEMMA WindowFacts ==
  ASSUME NEW b \in Seq(Bytes), NEW m \in Nat, NEW n \in Nat, m <= n, n <= Len(b)
  PROVE  /\ SubSeq(b, m + 1, n) \in Seq(Bytes) /\ Len(SubSeq(b, m + 1, n)) = n - m
         /\ \A i \in 1 .. n - m : SubSeq(b, m + 1, n)[i] = b[m + i]
  OBVIOUS

\* Two sequences with the same bytes.
LEMMA SameSeq ==
  ASSUME NEW S, NEW T, NEW a \in Seq(S), NEW b \in Seq(T), Len(a) = Len(b),
         \A i \in 1 .. Len(a) : a[i] = b[i]
  PROVE  a = b
  OBVIOUS

\* The window of the buffer.
LEMMA DataFacts ==
  ASSUME TypeOK, IndicesInBuffer
  PROVE  /\ data \in Seq(Bytes) /\ Len(data) = Held /\ Held \in Nat
         /\ \A i \in 1 .. Held : data[i] = buf[start + i]
<1>1. buf \in Seq(Bytes) /\ start \in Nat /\ end \in Nat /\ start <= end /\ end <= Len(buf)
  BY DEF TypeOK, IndicesInBuffer, Bytes
<1> QED  BY <1>1, WindowFacts DEF data, Held

\* It holds bytes that were read.
LEMMA DataRead ==
  ASSUME TypeOK, IndicesInBuffer, BufferIsRest
  PROVE  data \in Seq(Alphabet)
<1>1. /\ stream \in Seq(Alphabet) /\ used \in Nat /\ Len(data) \in Nat
      /\ Len(stream) = used + Len(data)
      /\ \A i \in 1 .. Len(data) : data[i] = stream[used + i]
  BY DataFacts DEF TypeOK, BufferIsRest
<1>2. \A i \in 1 .. Len(data) : data[i] \in Alphabet
  BY <1>1
<1>3. data = [i \in 1 .. Len(data) |-> data[i]]
  BY DataFacts
<1> QED  BY <1>1, <1>2, <1>3

\* The returns move start only.
LEMMA FoundLineWindow ==
  ASSUME TypeOK, IndicesInBuffer, FoundLine
  PROVE  /\ Position(data) \in 1 .. Len(data)
         => data' = SubSeq(data, Position(data) + 1, Len(data)) /\ start' <= end
<1> SUFFICES ASSUME Position(data) \in 1 .. Len(data)
             PROVE  data' = SubSeq(data, Position(data) + 1, Len(data)) /\ start' <= end
  OBVIOUS
<1> DEFINE i == Position(data)
<1>1. /\ data \in Seq(Bytes) /\ Len(data) = Held /\ Held \in Nat
      /\ \A k \in 1 .. Held : data[k] = buf[start + k]
  BY DataFacts
<1>2. i \in 1 .. Held /\ start' = start + i /\ UNCHANGED <<buf, end>>
  BY <1>1 DEF FoundLine
<1> HIDE DEF i
<1>3. /\ buf \in Seq(Bytes) /\ start \in Nat /\ end \in Nat /\ end <= Len(buf)
      /\ start + i <= end /\ Held = end - start
  BY <1>2 DEF TypeOK, IndicesInBuffer, Bytes, Held
<1>4. data' = SubSeq(buf, (start + i) + 1, end)
  BY <1>2 DEF data
<1>5. /\ data' \in Seq(Bytes) /\ Len(data') = end - (start + i)
      /\ \A k \in 1 .. end - (start + i) : data'[k] = buf[(start + i) + k]
  BY <1>2, <1>3, <1>4, WindowFacts
<1> DEFINE rest == SubSeq(data, i + 1, Len(data))
<1>6. /\ rest \in Seq(Bytes) /\ Len(rest) = Held - i
      /\ \A k \in 1 .. Held - i : rest[k] = data[i + k]
  BY <1>1, <1>2, WindowFacts
<1> HIDE DEF rest
<1>7. Len(data') = Len(rest) /\ \A k \in 1 .. Len(data') : data'[k] = rest[k]
  BY <1>1, <1>2, <1>3, <1>5, <1>6
<1>8. data' = rest
  BY <1>5, <1>6, <1>7, SameSeq
<1> QED  BY <1>2, <1>3, <1>8 DEF rest, i

LEMMA LastLineWindow ==
  ASSUME TypeOK, IndicesInBuffer, LastLine
  PROVE  data' = <<>>
<1>1. end \in Nat /\ end' = end /\ start' = end
  BY DEF LastLine, TypeOK
<1>2. data' = SubSeq(buf', end + 1, end)
  BY <1>1 DEF data
<1>3. end + 1 > end
  BY <1>1
<1> QED  BY <1>1, <1>2, <1>3

\* Compaction moves the window to the front of the buffer, and growth leaves it.
LEMMA RoomWindow ==
  ASSUME TypeOK, IndicesInBuffer
  PROVE  /\ Room \in Seq(Bytes) /\ Len(Room) \in Nat /\ Held \in Nat /\ Held <= Len(Room)
         /\ Len(Room) = IF Held = Len(buf) THEN Len(buf) * 2 + 1 ELSE Len(buf)
         /\ \A i \in 1 .. Held : Room[i] = data[i]
<1>1. /\ buf \in Seq(Bytes) /\ Len(buf) \in Nat /\ start \in Nat /\ end \in Nat
      /\ Held = end - start /\ start <= end /\ end <= Len(buf)
  BY DEF TypeOK, IndicesInBuffer, Bytes, Held
<1>2. \A i \in 1 .. Held : data[i] = buf[start + i]
  BY DataFacts
<1>3. /\ Compacted \in Seq(Bytes) /\ Len(Compacted) = Len(buf)
      /\ \A i \in 1 .. Len(buf) : i <= Held => Compacted[i] = buf[start + i]
  <2>1. \A i \in 1 .. Len(buf) : i <= Held => start + i \in 1 .. Len(buf)
    BY <1>1
  <2>2. \A i \in 1 .. Len(buf) : buf[i] \in Bytes
    BY <1>1
  <2> QED  BY <1>1, <2>1, <2>2 DEF Compacted
<1>4. Zeros(Len(buf) + 1) \in Seq(Bytes) /\ Len(Zeros(Len(buf) + 1)) = Len(buf) + 1
  BY <1>1 DEF Zeros, Bytes
<1>5. CASE Held = Len(buf)
  <2>1. Room = Compacted \o Zeros(Len(buf) + 1)
    BY <1>5 DEF Room
  <2>2. /\ Room \in Seq(Bytes) /\ Len(Room) = Len(buf) + (Len(buf) + 1)
        /\ \A i \in 1 .. Len(buf) : Room[i] = Compacted[i]
    <3> DEFINE a == Compacted
               z == Zeros(Len(buf) + 1)
    <3>1. a \in Seq(Bytes) /\ z \in Seq(Bytes) /\ Len(a) = Len(buf) /\ Len(z) = Len(buf) + 1
      BY <1>3, <1>4
    <3> HIDE DEF a, z
    <3>2. /\ a \o z \in Seq(Bytes) /\ Len(a \o z) = Len(buf) + (Len(buf) + 1)
          /\ \A i \in 1 .. Len(buf) : (a \o z)[i] = a[i]
      BY <1>1, <3>1
    <3> QED  BY <2>1, <3>2, Zenon DEF a, z
  <2> QED  BY <1>1, <1>2, <1>3, <1>5, <2>2
<1>6. CASE Held # Len(buf)
  BY <1>1, <1>2, <1>3, <1>6 DEF Room
<1> QED  BY <1>5, <1>6

\* A read that delivers nothing leaves the window as it is.
LEMMA NothingWindow ==
  ASSUME TypeOK, IndicesInBuffer, ReadNothing
  PROVE  /\ data' = data /\ start' = 0 /\ end' = Held /\ buf' = Room
<1>1. start' = 0 /\ end' = Held /\ buf' = Room
  BY DEF ReadNothing, MakeRoom
<1>2. /\ Room \in Seq(Bytes) /\ Held \in Nat /\ Held <= Len(Room)
      /\ \A i \in 1 .. Held : Room[i] = data[i]
      /\ data \in Seq(Bytes) /\ Len(data) = Held
  BY RoomWindow, DataFacts
<1>3. data' = SubSeq(Room, 0 + 1, Held)
  BY <1>1 DEF data
<1>4. /\ data' \in Seq(Bytes) /\ Len(data') = Held - 0
      /\ \A i \in 1 .. Held - 0 : data'[i] = Room[0 + i]
  BY <1>2, <1>3, WindowFacts
<1>5. Len(data') = Len(data) /\ \A i \in 1 .. Len(data') : data'[i] = data[i]
  BY <1>2, <1>4
<1> QED  BY <1>1, <1>2, <1>4, <1>5, SameSeq

\* What a read delivers is behind it.
LEMMA SomeWindow ==
  ASSUME TypeOK, IndicesInBuffer, NEW chunk \in Seq(Alphabet),
         Held + Len(chunk) <= Len(Room), ReadSome(chunk)
  PROVE  /\ data' = data \o chunk /\ start' = 0 /\ end' = Held + Len(chunk)
         /\ buf' \in Seq(Bytes) /\ Len(buf') = Len(Room)
<1>1. start' = 0 /\ end' = Held + Len(chunk) /\ buf' = Filled(chunk)
  BY DEF ReadSome, MakeRoom
<1>2. /\ Room \in Seq(Bytes) /\ Len(Room) \in Nat /\ Held \in Nat
      /\ \A i \in 1 .. Held : Room[i] = data[i]
      /\ data \in Seq(Bytes) /\ Len(data) = Held /\ Len(chunk) \in Nat
      /\ chunk \in Seq(Bytes)
  BY RoomWindow, DataFacts DEF Bytes
<1>3. /\ buf' \in Seq(Bytes) /\ Len(buf') = Len(Room)
      /\ \A i \in 1 .. Len(Room) : buf'[i] =
           IF i \in Held + 1 .. Held + Len(chunk) THEN chunk[i - Held] ELSE Room[i]
  <2>1. \A i \in 1 .. Len(Room) : Room[i] \in Bytes
    BY <1>2
  <2>2. \A i \in Held + 1 .. Held + Len(chunk) : chunk[i - Held] \in Bytes
    BY <1>2
  <2> QED  BY <1>1, <1>2, <2>1, <2>2 DEF Filled
<1>4. data' = SubSeq(buf', 0 + 1, Held + Len(chunk))
  BY <1>1 DEF data
<1>5. /\ data' \in Seq(Bytes) /\ Len(data') = Held + Len(chunk) - 0
      /\ \A i \in 1 .. Held + Len(chunk) - 0 : data'[i] = buf'[0 + i]
  BY <1>2, <1>3, <1>4, WindowFacts
<1>6. /\ data \o chunk \in Seq(Bytes) /\ Len(data \o chunk) = Held + Len(chunk)
      /\ \A i \in 1 .. Held + Len(chunk) :
           (data \o chunk)[i] = IF i <= Held THEN data[i] ELSE chunk[i - Held]
  BY <1>2, ConcatProperties
<1>7. Len(data') = Len(data \o chunk)
      /\ \A i \in 1 .. Len(data') : data'[i] = (data \o chunk)[i]
  <2>1. \A i \in 1 .. Held + Len(chunk) : i \in 1 .. Len(Room) /\ 0 + i = i
    BY <1>2
  <2> QED  BY <1>2, <1>3, <1>5, <1>6, <2>1
<1>8. data' = data \o chunk
  BY <1>5, <1>6, <1>7, SameSeq
<1> QED  BY <1>1, <1>3, <1>8

-----------------------------------------------------------------------------
(* What the helpers on sequences return. *)

\* iter().position() finds the first newline of the buffer.
LEMMA PositionFacts ==
  ASSUME NEW s \in Seq(Alphabet), HasLF(s)
  PROVE  /\ Position(s) \in 1 .. Len(s) /\ s[Position(s)] = LF
         /\ \A j \in 1 .. Position(s) - 1 : s[j] # LF
  <1> DEFINE T == {i \in 1 .. Len(s) : s[i] = LF}
  <1>1. T \subseteq Nat /\ T # {}
    BY LenProperties DEF HasLF
  <1>2. PICK x \in T : \A y \in T : ~(<<y, x>> \in OpToRel(<, Nat))
    BY <1>1, WFMin, NatLessThanWellFounded
  <1>3. \A y \in T : ~(y < x)
    BY <1>1, <1>2 DEF OpToRel
  <1>4. x \in 1 .. Len(s) /\ s[x] = LF /\ \A j \in 1 .. x - 1 : s[j] # LF
    BY <1>1, <1>3
  <1> QED
    BY <1>4 DEF Position

\* A slice of the buffer is a sequence of its bytes.
LEMMA SliceFacts ==
  ASSUME NEW s \in Seq(Alphabet), NEW m \in Nat \ {0}, NEW n \in Nat, n <= Len(s)
  PROVE  SubSeq(s, m, n) \in Seq(Alphabet)
  <1>1. Len(s) \in Nat /\ \A i \in m .. n : s[i] \in Alphabet
    BY LenProperties
  <1> QED
    BY <1>1, SubSeqProperties

\* What is left of the buffer after its first n bytes.
LEMMA RestFacts ==
  ASSUME NEW s \in Seq(Alphabet), NEW n \in 1 .. Len(s)
  PROVE  /\ SubSeq(s, n + 1, Len(s)) \in Seq(Alphabet)
         /\ Len(SubSeq(s, n + 1, Len(s))) = Len(s) - n
         /\ \A i \in 1 .. Len(s) - n : SubSeq(s, n + 1, Len(s))[i] = s[n + i]
  <1>1. Len(s) \in Nat /\ \A i \in n + 1 .. Len(s) : s[i] \in Alphabet
    BY LenProperties
  <1>2. /\ SubSeq(s, n + 1, Len(s)) \in Seq(Alphabet)
        /\ Len(SubSeq(s, n + 1, Len(s))) =
             IF n + 1 <= Len(s) THEN Len(s) - (n + 1) + 1 ELSE 0
        /\ \A i \in 1 .. Len(s) - (n + 1) + 1 :
             SubSeq(s, n + 1, Len(s))[i] = s[(n + 1) + i - 1]
    BY <1>1, SubSeqProperties
  <1> QED
    BY <1>1, <1>2

\* The line in front of a newline.
LEMMA LineFacts ==
  ASSUME NEW s \in Seq(Alphabet), NEW n \in 1 .. Len(s)
  PROVE  LineBefore(s, n) \in Seq(Alphabet)
  <1>1. Len(s) \in Nat
    BY LenProperties
  <1>2. CASE n > 1 /\ s[n - 1] = CR
    <2>1. n - 2 \in Nat /\ n - 2 <= Len(s)
      BY <1>1, <1>2
    <2>2. SubSeq(s, 1, n - 2) \in Seq(Alphabet)
      BY <2>1, SliceFacts
    <2> QED
      BY <1>2, <2>2 DEF LineBefore
  <1>3. CASE ~(n > 1 /\ s[n - 1] = CR)
    <2>1. n - 1 \in Nat /\ n - 1 <= Len(s)
      BY <1>1
    <2>2. SubSeq(s, 1, n - 1) \in Seq(Alphabet)
      BY <2>1, SliceFacts
    <2> QED
      BY <1>3, <2>2 DEF LineBefore
  <1> QED
    BY <1>2, <1>3

\* Returning a result r from next_line keeps the record of the calls typed, and
\* makes r the last of them.
LEMMA ReturnFacts ==
  ASSUME TypeOK, NEW r \in Results, Return(r)
  PROVE  /\ calls' \in Seq(Results)
         /\ Len(calls') > 0 /\ calls'[Len(calls')] = r
  BY AppendProperties DEF TypeOK, Return

\* A chunk that a read delivers fits the room the buffer has.
LEMMA ChunkFacts ==
  ASSUME TypeOK, IndicesInBuffer, NEW chunk \in Chunks
  PROVE  /\ chunk \in Seq(Alphabet)
         /\ Len(chunk) \in Nat \ {0}
         /\ Held + Len(chunk) <= Len(Room)
  <1>1. Len(Room) \in Nat /\ Held \in Nat /\ Held <= Len(Room)
    BY RoomWindow
  <1>2. PICK n \in 1 .. Len(Room) - Held : chunk \in [1 .. n -> Alphabet]
    BY DEF Chunks
  <1>3. n \in Nat /\ chunk \in Seq(Alphabet) /\ Len(chunk) = n
    BY <1>1, <1>2, LenProperties, IsASeq
  <1> QED
    BY <1>1, <1>2, <1>3

-----------------------------------------------------------------------------
(* The inductive step, one lemma per way through an iteration. *)

\* FoundLine (lib.rs, the branch on a newline in the buffer).
LEMMA FoundLineStep ==
  ASSUME ReaderInv, FoundLine
  PROVE  ReaderInv'
  <1> DEFINE i == Position(data)
  <1> DEFINE rest == SubSeq(data, i + 1, Len(data))
  <1> DEFINE line == LineBefore(data, i)
  <1>1. data \in Seq(Alphabet) /\ i \in 1 .. Len(data) /\ Len(data) \in Nat
    BY PositionFacts, LenProperties, DataRead DEF ReaderInv, FoundLine
  <1>2. /\ rest \in Seq(Alphabet)
        /\ Len(rest) = Len(data) - i
        /\ \A k \in 1 .. Len(data) - i : rest[k] = data[i + k]
    BY <1>1, RestFacts
  <1>3. line \in Seq(Alphabet)
    BY <1>1, LineFacts
  <1>4. /\ data' = rest /\ start' = start + i /\ start' <= end /\ used' = used + i
        /\ Return(Some(line))
        /\ UNCHANGED <<buf, end, done, error, stream>>
    BY <1>1, FoundLineWindow DEF FoundLine, ReaderInv
  <1>5. Some(line) \in Results /\ Some(line) # None
    BY <1>3 DEF Some, None, Results
  <1> HIDE DEF i, rest, line
  <1>6. /\ calls' \in Seq(Results)
        /\ Len(calls') > 0 /\ calls'[Len(calls')] = Some(line)
    BY <1>4, <1>5, ReturnFacts DEF ReaderInv
  <1>7. TypeOK'
    BY <1>1, <1>2, <1>4, <1>6 DEF ReaderInv, TypeOK
  <1>8. IndicesInBuffer' /\ GrowthBounded'
    BY <1>4 DEF ReaderInv, IndicesInBuffer, GrowthBounded
  <1>9. BufferIsRest'
    <2>1. Len(stream) = used + Len(data) /\ used \in Nat
      BY DEF ReaderInv, TypeOK, BufferIsRest
    <2>2. Len(stream') = used' + Len(data')
      <3>1. Len(data') = Len(data) - i
        BY <1>2, <1>4
      <3> QED  BY <1>1, <1>4, <2>1, <3>1
    <2>3. ASSUME NEW k \in 1 .. Len(data')
          PROVE  data'[k] = stream'[used' + k]
      <3>1. k \in 1 .. Len(data) - i /\ i + k \in 1 .. Len(data)
        BY <1>1, <1>2, <1>4
      <3>2. data'[k] = data[i + k]
        BY <1>2, <1>4, <3>1
      <3>3. data[i + k] = stream[used + (i + k)]
        BY <3>1 DEF ReaderInv, BufferIsRest
      <3>4. used + (i + k) = used' + k
        BY <1>1, <1>4, <2>1, <3>1
      <3> QED
        BY <1>4, <3>2, <3>3, <3>4
    <2> QED
      BY <2>2, <2>3 DEF BufferIsRest
  <1>10. CleanEndIsFinal'
    BY <1>5, <1>6 DEF CleanEndIsFinal, Ended
  <1> QED
    BY <1>7, <1>8, <1>9, <1>10 DEF ReaderInv

\* The calls that return without a read: the last line, the end of the input, and
\* the rejection of an over-long line.
LEMMA ReturnStep ==
  ASSUME ReaderInv, LastLine \/ EndOfInput \/ RejectLine
  PROVE  ReaderInv'
  <1>0. None \in Results
    BY EmptySeq DEF None, Results
  <1>1. CASE LastLine
    <2>1. Some(data) \in Results /\ Some(data) # None
      BY DataRead DEF ReaderInv, Some, None, Results
    <2>2. /\ calls' \in Seq(Results)
          /\ Len(calls') > 0 /\ calls'[Len(calls')] = Some(data)
      BY <1>1, <2>1, ReturnFacts DEF ReaderInv, LastLine
    <2>3. Len(data') = 0 /\ Len(data) = Held /\ Held \in Nat
      BY <1>1, LastLineWindow, DataFacts DEF ReaderInv
    <2>4. TypeOK'
      BY <1>1, <2>2, <2>3 DEF LastLine, ReaderInv, TypeOK
    <2>5. IndicesInBuffer' /\ GrowthBounded' /\ BufferIsRest'
      BY <1>1, <2>3 DEF LastLine, ReaderInv, TypeOK, IndicesInBuffer,
                        GrowthBounded, BufferIsRest
    <2>6. CleanEndIsFinal'
      BY <2>1, <2>2 DEF CleanEndIsFinal, Ended
    <2> QED
      BY <2>4, <2>5, <2>6 DEF ReaderInv
  <1>2. CASE EndOfInput
    <2>1. calls' \in Seq(Results)
      BY <1>0, <1>2, ReturnFacts DEF EndOfInput, ReaderInv, TypeOK
    <2>2. data' = data /\ Len(data) = Held
      BY <1>2, DataFacts DEF EndOfInput, data, ReaderInv
    <2> QED
      BY <1>2, <2>1, <2>2 DEF EndOfInput, ReaderInv, TypeOK, IndicesInBuffer,
                        GrowthBounded, BufferIsRest, CleanEndIsFinal
  <1>3. CASE RejectLine
    <2>1. calls' \in Seq(Results)
      BY <1>0, <1>3, ReturnFacts DEF RejectLine, ReaderInv
    <2>2. data' = data
      BY <1>3 DEF RejectLine, data
    <2> QED
      BY <1>3, <2>1, <2>2 DEF RejectLine, ReaderInv, TypeOK, IndicesInBuffer,
                        GrowthBounded, BufferIsRest, CleanEndIsFinal
  <1> QED
    BY <1>1, <1>2, <1>3

\* Compaction and growth keep the buffer within its bound.
LEMMA RoomBounded ==
  ASSUME ReaderInv, ~Overlong
  PROVE  Len(Room) <= InitialCap \/ Len(Room) <= 2 * MaxLineLen + 1
<1>1. /\ Held \in Nat /\ Len(buf) \in Nat /\ Held <= MaxLineLen
      /\ MaxLineLen \in Nat /\ InitialCap \in Nat
  BY RoomWindow, ReaderAssumption DEF Overlong, ReaderInv, TypeOK
<1>2. Len(Room) = IF Held = Len(buf) THEN Len(buf) * 2 + 1 ELSE Len(buf)
  BY RoomWindow DEF ReaderInv
<1> QED  BY <1>1, <1>2 DEF ReaderInv, GrowthBounded

\* The iterations that read.
LEMMA ReadStep ==
  ASSUME ReaderInv,
         ReadEof \/ ReadInterrupted \/ ReadError \/ \E chunk \in Chunks : ReadSome(chunk)
  PROVE  ReaderInv'
  <1>1. CASE ReadEof \/ ReadInterrupted \/ ReadError
    <2>0. ReadNothing /\ ~done /\ ~Overlong
      BY <1>1 DEF ReadEof, ReadInterrupted, ReadError, ReadNothing, MakeRoom
    <2>1. /\ data' = data /\ start' = 0 /\ end' = Held /\ buf' = Room
          /\ Room \in Seq(Bytes) /\ Held \in Nat /\ Held <= Len(Room)
      BY <2>0, NothingWindow, RoomWindow DEF ReaderInv
    <2>2. /\ UNCHANGED <<stream, calls, used>>
          /\ done' \in BOOLEAN
          /\ error' = error \/ error' = "Io"
      BY <1>1 DEF ReadEof, ReadInterrupted, ReadError, ReaderInv, TypeOK
    <2>3. TypeOK'
      BY <2>1, <2>2 DEF ReaderInv, TypeOK, Bytes
    <2>4. IndicesInBuffer' /\ BufferIsRest' /\ GrowthBounded'
      BY <2>0, <2>1, <2>2, RoomBounded DEF ReaderInv, IndicesInBuffer, BufferIsRest, GrowthBounded
    <2>5. CleanEndIsFinal'
      BY <2>0, <2>2 DEF ReaderInv, CleanEndIsFinal, Ended
    <2> QED
      BY <2>3, <2>4, <2>5 DEF ReaderInv
  <1>2. ASSUME NEW chunk \in Chunks, ReadSome(chunk)
        PROVE  ReaderInv'
    <2>0. ~done /\ ~Overlong
      BY <1>2 DEF ReadSome, MakeRoom
    <2>2. /\ chunk \in Seq(Alphabet) /\ Len(chunk) \in Nat \ {0}
          /\ Held + Len(chunk) <= Len(Room)
      BY ChunkFacts DEF ReaderInv
    <2>1. /\ data' = data \o chunk /\ start' = 0 /\ end' = Held + Len(chunk)
          /\ buf' \in Seq(Bytes) /\ Len(buf') = Len(Room) /\ Len(data) \in Nat
          /\ Len(data) = Held
      BY <1>2, <2>2, SomeWindow, DataFacts DEF ReaderInv
    <2>3. data \in Seq(Alphabet) /\ stream \in Seq(Alphabet) /\ used \in Nat
      BY DataRead DEF ReaderInv, TypeOK
    <2>4. /\ data' \in Seq(Alphabet) /\ Len(data') = Len(data) + Len(chunk)
          /\ \A k \in 1 .. Len(data) + Len(chunk) :
               data'[k] = IF k <= Len(data) THEN data[k] ELSE chunk[k - Len(data)]
      BY <2>1, <2>2, <2>3, ConcatProperties
    <2>5. /\ stream' \in Seq(Alphabet) /\ Len(stream') = Len(stream) + Len(chunk)
          /\ \A k \in 1 .. Len(stream) + Len(chunk) :
               stream'[k] = IF k <= Len(stream) THEN stream[k]
                            ELSE chunk[k - Len(stream)]
      BY <1>2, <2>2, <2>3, ConcatProperties DEF ReadSome
    <2>6. UNCHANGED <<done, error, calls, used>>
      BY <1>2 DEF ReadSome
    <2>7. Len(stream) = used + Len(data) /\ Len(stream) \in Nat
      BY <2>3, LenProperties DEF ReaderInv, BufferIsRest
    <2>8. TypeOK'
      BY <2>1, <2>2, <2>5, <2>6 DEF ReaderInv, TypeOK, Bytes
    <2>9. IndicesInBuffer' /\ GrowthBounded'
      BY <2>0, <2>1, <2>2, RoomBounded DEF IndicesInBuffer, GrowthBounded
    <2>10. BufferIsRest'
      <3>1. Len(stream') = used' + Len(data')
        BY <2>1, <2>2, <2>3, <2>4, <2>5, <2>6, <2>7
      <3>2. ASSUME NEW k \in 1 .. Len(data')
            PROVE  data'[k] = stream'[used' + k]
        <4>1. k \in 1 .. Len(data) + Len(chunk)
              /\ used + k \in 1 .. Len(stream) + Len(chunk)
          BY <2>1, <2>2, <2>3, <2>4, <2>7
        <4>2. CASE k <= Len(data)
          <5>1. k \in 1 .. Len(data) /\ used + k <= Len(stream)
            BY <2>1, <2>3, <2>7, <4>1, <4>2
          <5>2. data[k] = stream[used + k]
            BY <5>1 DEF ReaderInv, BufferIsRest
          <5> QED
            BY <2>4, <2>5, <2>6, <4>1, <5>1, <5>2
        <4>3. CASE ~(k <= Len(data))
          <5>1. ~(used + k <= Len(stream)) /\ (used + k) - Len(stream) = k - Len(data)
            BY <2>1, <2>3, <2>7, <4>1, <4>3
          <5> QED
            BY <2>4, <2>5, <2>6, <4>1, <4>3, <5>1
        <4> QED
          BY <4>2, <4>3
      <3> QED
        BY <3>1, <3>2 DEF BufferIsRest
    <2>11. CleanEndIsFinal'
      BY <2>0, <2>6 DEF ReaderInv, CleanEndIsFinal, Ended
    <2> QED
      BY <2>8, <2>9, <2>10, <2>11 DEF ReaderInv
  <1> QED
    BY <1>1, <1>2

-----------------------------------------------------------------------------

\* The inductive invariant of the reader holds in every reachable state.
LEMMA ReaderInvInductive == Spec => []ReaderInv
  <1>1. Init => ReaderInv
    <2> SUFFICES ASSUME Init PROVE ReaderInv
      OBVIOUS
    <2>1. /\ <<>> \in Seq(Alphabet) /\ <<>> \in Seq(Results) /\ Len(<<>>) = 0
      BY EmptySeq
    <2>2. TypeOK /\ Len(buf) = InitialCap
      <3>1. buf = [i \in 1 .. InitialCap |-> NUL] /\ InitialCap \in Nat
        BY ReaderAssumption DEF Init
      <3>2. buf \in Seq(Alphabet \cup {NUL}) /\ Len(buf) = InitialCap
        BY <3>1
      <3> QED  BY <2>1, <3>2 DEF Init, TypeOK
    <2>3. IndicesInBuffer /\ GrowthBounded
      BY <2>2, ReaderAssumption DEF Init, IndicesInBuffer, GrowthBounded
    <2>4. BufferIsRest
      <3>1. Len(data) = 0
        BY <2>2, <2>3, DataFacts DEF Init, Held
      <3> QED  BY <2>1, <3>1 DEF Init, BufferIsRest
    <2>5. CleanEndIsFinal
      BY DEF Init, CleanEndIsFinal, Ended
    <2> QED
      BY <2>2, <2>3, <2>4, <2>5 DEF ReaderInv
  <1>2. ReaderInv /\ [Next]_vars => ReaderInv'
    <2> SUFFICES ASSUME ReaderInv, [Next]_vars PROVE ReaderInv'
      OBVIOUS
    <2>1. CASE UNCHANGED vars
      BY <2>1 DEF vars, ReaderInv, TypeOK, IndicesInBuffer, GrowthBounded,
                  BufferIsRest, CleanEndIsFinal, Ended, data
    <2>2. CASE Next
      BY <2>2, FoundLineStep, ReturnStep, ReadStep DEF Next
    <2> QED
      BY <2>1, <2>2
  <1> QED
    BY <1>1, <1>2, PTL DEF Spec

\* Every variable of the reader keeps its type.
THEOREM ReaderTypeCorrect == Spec => []TypeOK
  BY ReaderInvInductive, PTL DEF ReaderInv

\* The indices start and end stay inside the buffer: no slice in next_line panics.
THEOREM IndicesStayInBuffer == Spec => []IndicesInBuffer
  BY ReaderInvInductive, PTL DEF ReaderInv

\* The buffer never exceeds its initial size or twice the ceiling plus one.
THEOREM GrowthIsBounded == Spec => []GrowthBounded
  BY ReaderInvInductive, PTL DEF ReaderInv

\* Compaction, growth and reads of any size lose, repeat and reorder no byte.
THEOREM NoByteLost == Spec => []BufferIsRest
  BY ReaderInvInductive, PTL DEF ReaderInv

\* A None without an error is returned only when every byte has been returned.
THEOREM NoSilentTruncation == Spec => []NoneIsCleanEnd
  <1>1. ReaderInv => NoneIsCleanEnd
    BY DataFacts DEF ReaderInv, TypeOK, CleanEndIsFinal, BufferIsRest, NoneIsCleanEnd, Held
  <1> QED
    BY <1>1, ReaderInvInductive, PTL

-----------------------------------------------------------------------------
(***************************************************************************)
(* The lines returned are the lines of the stream.  Between two calls the  *)
(* bytes used up end with a newline, or else the rest was returned and     *)
(* nothing follows it: without this the next line would start in the       *)
(* middle of one.                                                          *)
(***************************************************************************)

\* As many lines were returned as newlines are used up, the last byte used is one.
AtNewline ==
  /\ used = 0 \/ stream[used] = LF
  /\ Lines(Len(calls)) = Newlines(stream, used)

\* The unterminated rest was returned as well.
AtRest ==
  /\ done /\ used = Len(stream)
  /\ Lines(Len(calls)) = Newlines(stream, used) + 1

\* Call c returned the line of the stream that is due.
CallExact(c) ==
  calls[c].some =>
    \/ IsLine(stream, Lines(c), calls[c].line)
    \/ done /\ used = Len(stream) /\ IsRest(stream, Lines(c), calls[c].line)

LinesInv ==
  /\ AtNewline \/ AtRest
  /\ \A c \in 1 .. Len(calls) : CallExact(c)

\* Counting newlines, and returned lines, is counting a finite set.
LEMMA CountFinite ==
  ASSUME NEW n \in Nat, NEW S, S \subseteq 1 .. n
  PROVE  IsFiniteSet(S) /\ Cardinality(S) \in Nat
<1>1. IsFiniteSet(1 .. n)
  BY FS_Interval
<1>2. IsFiniteSet(S)
  BY <1>1, FS_Subset
<1> QED  BY <1>2, FS_CardinalityType

\* Bytes without a newline change no count.
LEMMA NewlinesSame ==
  ASSUME NEW s, NEW n \in Nat, NEW k \in Nat,
         \A j \in n + 1 .. n + k : s[j] # LF
  PROVE  Newlines(s, n + k) = Newlines(s, n)
<1>1. {j \in 1 .. n + k : s[j] = LF} = {j \in 1 .. n : s[j] = LF}
  OBVIOUS
<1> QED  BY <1>1 DEF Newlines

\* One more newline.
LEMMA NewlinesNext ==
  ASSUME NEW s, NEW n \in Nat, NEW k \in Nat \ {0},
         \A j \in n + 1 .. n + k - 1 : s[j] # LF, s[n + k] = LF
  PROVE  Newlines(s, n + k) = Newlines(s, n) + 1
<1> DEFINE A == {j \in 1 .. n : s[j] = LF}
<1>1. {j \in 1 .. n + k : s[j] = LF} = A \cup {n + k}
  OBVIOUS
<1>2. n + k \notin A /\ A \subseteq 1 .. n
  OBVIOUS
<1>3. IsFiniteSet(A)
  <2> HIDE DEF A
  <2> QED  BY <1>2, CountFinite
<1> HIDE DEF A
<1>4. Cardinality(A \cup {n + k}) = Cardinality(A) + 1
  BY <1>2, <1>3, FS_AddElement
<1> QED  BY <1>1, <1>4 DEF Newlines, A

\* The count depends on the bytes counted alone.
LEMMA NewlinesPrefix ==
  ASSUME NEW s, NEW t, NEW n \in Nat, \A j \in 1 .. n : s[j] = t[j]
  PROVE  Newlines(s, n) = Newlines(t, n)
<1>1. {j \in 1 .. n : s[j] = LF} = {j \in 1 .. n : t[j] = LF}
  OBVIOUS
<1> QED  BY <1>1 DEF Newlines

\* Two texts with the same bytes in the range cut out have the same line there.
LEMMA LineSame ==
  ASSUME NEW s \in Seq(Alphabet), NEW t \in Seq(Alphabet), NEW n \in Nat \ {0},
         n <= Len(s), n <= Len(t), \A j \in 1 .. n : s[j] = t[j]
  PROVE  LineBefore(s, n) = LineBefore(t, n)
<1>1. \A m \in 0 .. n : SubSeq(s, 1, m) = SubSeq(t, 1, m)
  <2> SUFFICES ASSUME NEW m \in 0 .. n PROVE SubSeq(s, 1, m) = SubSeq(t, 1, m)
    OBVIOUS
  <2> QED  OBVIOUS
<1>2. n > 1 => n - 2 \in 0 .. n /\ s[n - 1] = t[n - 1]
  OBVIOUS
<1>3. n - 1 \in 0 .. n
  OBVIOUS
<1> QED  BY <1>1, <1>2, <1>3 DEF LineBefore

\* The bytes of the stream between two places.
LEMMA SameBytes ==
  ASSUME NEW a \in Seq(Alphabet), NEW b \in Seq(Alphabet), Len(b) = Len(a),
         \A j \in 1 .. Len(a) : b[j] = a[j]
  PROVE  a = b
  OBVIOUS

LEMMA PieceFacts ==
  ASSUME NEW s \in Seq(Alphabet), NEW a \in Nat, NEW b \in Nat, a <= b, b <= Len(s)
  PROVE  /\ SubSeq(s, a + 1, b) \in Seq(Alphabet)
         /\ Len(SubSeq(s, a + 1, b)) = b - a
         /\ \A j \in 1 .. b - a : SubSeq(s, a + 1, b)[j] = s[a + j]
  OBVIOUS

\* A longer stream has the same lines.
LEMMA LineStays ==
  ASSUME NEW s \in Seq(Alphabet), NEW t \in Seq(Alphabet), Len(s) <= Len(t),
         \A j \in 1 .. Len(s) : t[j] = s[j],
         NEW n, NEW line, IsLine(s, n, line)
  PROVE  IsLine(t, n, line)
<1>1. PICK a \in 0 .. Len(s) : \E b \in a + 1 .. Len(s) :
        /\ Between(s, a, b - 1) /\ s[b] = LF /\ Newlines(s, b) = n
        /\ line = LineBefore(SubSeq(s, a + 1, b), b - a)
  BY DEF IsLine
<1>0. PICK b \in a + 1 .. Len(s) :
        /\ Between(s, a, b - 1) /\ s[b] = LF /\ Newlines(s, b) = n
        /\ line = LineBefore(SubSeq(s, a + 1, b), b - a)
  BY <1>1
<1>2. a \in 0 .. Len(t) /\ b \in a + 1 .. Len(t) /\ a \in Nat /\ b \in Nat /\ a < b /\ b <= Len(s)
  OBVIOUS
<1>3. Between(t, a, b - 1) /\ t[b] = LF
  <2>1. a = 0 \/ t[a] = LF
    BY <1>0, <1>2 DEF Between
  <2>2. \A j \in a + 1 .. b - 1 : t[j] # LF
    <3> SUFFICES ASSUME NEW j \in a + 1 .. b - 1 PROVE t[j] # LF
      OBVIOUS
    <3>1. s[j] # LF
      BY <1>0 DEF Between
    <3> QED  BY <1>2, <3>1
  <2>3. t[b] = LF
    BY <1>0, <1>2
  <2> QED  BY <2>1, <2>2, <2>3 DEF Between
<1>4. Newlines(t, b) = n
  BY <1>0, <1>2, NewlinesPrefix
<1>5. SubSeq(t, a + 1, b) = SubSeq(s, a + 1, b)
  BY <1>2
<1> QED  BY <1>0, <1>2, <1>3, <1>4, <1>5 DEF IsLine

\* What a call adds to the lines returned.
LEMMA LinesReturned ==
  ASSUME TypeOK, NEW r \in Results, Return(r)
  PROVE  /\ Len(calls') = Len(calls) + 1 /\ calls'[Len(calls')] = r
         /\ \A c \in 1 .. Len(calls) : calls'[c] = calls[c] /\ Lines(c)' = Lines(c)
         /\ Lines(Len(calls))' = IF r.some THEN Lines(Len(calls)) + 1 ELSE Lines(Len(calls))
<1> DEFINE n == Len(calls)
           A == {d \in 1 .. n : calls[d].some}
           B == {d \in 1 .. n + 1 : calls'[d].some}
<1>1. /\ n \in Nat /\ Len(calls') = n + 1 /\ calls'[n + 1] = r
      /\ \A c \in 1 .. n : calls'[c] = calls[c]
  BY DEF TypeOK, Return
<1> HIDE DEF n
<1>2. ASSUME NEW c \in 1 .. n PROVE Lines(c)' = Lines(c)
  <2>1. {d \in 1 .. c : calls'[d].some} = {d \in 1 .. c : calls[d].some}
    BY <1>1
  <2> QED  BY <2>1 DEF Lines
<1>3. n + 1 \notin A /\ IsFiniteSet(A)
  <2>1. A \subseteq 1 .. n /\ n + 1 \notin A
    BY <1>1
  <2> HIDE DEF A
  <2>2. IsFiniteSet(A)
    BY <1>1, <2>1, CountFinite
  <2> QED  BY <2>1, <2>2
<1>4. B = IF r.some THEN A \cup {n + 1} ELSE A
  BY <1>1
<1> HIDE DEF A, B
<1>5. Cardinality(A \cup {n + 1}) = Cardinality(A) + 1
  BY <1>3, FS_AddElement
<1>6. Lines(Len(calls)) = Cardinality(A) /\ Lines(Len(calls))' = Cardinality(B)
  BY <1>1 DEF Lines, A, B, n
<1> QED  BY <1>1, <1>2, <1>4, <1>5, <1>6 DEF n

\* FoundLine returns the next line of the stream.
LEMMA FoundLineExact ==
  ASSUME ReaderInv, LinesInv, FoundLine
  PROVE  LinesInv'
<1> DEFINE i == Position(data)
           line == LineBefore(data, i)
           piece == SubSeq(stream, used + 1, used + i)
<1>1. /\ data \in Seq(Alphabet) /\ stream \in Seq(Alphabet) /\ used \in Nat
      /\ i \in 1 .. Len(data) /\ data[i] = LF /\ \A j \in 1 .. i - 1 : data[j] # LF
  BY PositionFacts, DataRead DEF ReaderInv, TypeOK, FoundLine
<1>2. line \in Seq(Alphabet)
  BY <1>1, LineFacts
<1>3. used' = used + i /\ Return(Some(line)) /\ UNCHANGED <<done, stream>>
  BY DEF FoundLine
<1>4. Some(line) \in Results /\ Some(line).some = TRUE /\ Some(line).line = line
  BY <1>2 DEF Some, Results
<1> HIDE DEF i, line
<1>5. /\ Len(stream) = used + Len(data)
      /\ \A j \in 1 .. Len(data) : data[j] = stream[used + j]
  BY DEF ReaderInv, BufferIsRest
<1>6. AtNewline /\ used # Len(stream)
  <2>1. used # Len(stream) /\ data # <<>>
    BY <1>1, <1>5
  <2> QED  BY <2>1 DEF LinesInv, AtRest
<1>7. used + i \in 1 .. Len(stream) /\ stream[used + i] = LF
  BY <1>1, <1>5
<1>8. \A j \in used + 1 .. used + i - 1 : stream[j] # LF
  <2> SUFFICES ASSUME NEW j \in used + 1 .. used + i - 1 PROVE stream[j] # LF
    OBVIOUS
  <2>1. j - used \in 1 .. i - 1 /\ j - used \in 1 .. Len(data) /\ used + (j - used) = j
    BY <1>1
  <2> QED  BY <1>1, <1>5, <2>1
<1>9. Newlines(stream, used + i) = Newlines(stream, used) + 1
  <2>1. i \in Nat \ {0}
    BY <1>1
  <2> QED  BY <1>1, <1>7, <1>8, <2>1, NewlinesNext
<1>10. /\ Len(calls') = Len(calls) + 1 /\ calls'[Len(calls')] = Some(line)
       /\ \A c \in 1 .. Len(calls) : calls'[c] = calls[c] /\ Lines(c)' = Lines(c)
       /\ Lines(Len(calls))' = Lines(Len(calls)) + 1
  BY <1>3, <1>4, LinesReturned DEF ReaderInv
<1>11. AtNewline'
  BY <1>3, <1>6, <1>7, <1>9, <1>10 DEF AtNewline
<1>12. line = LineBefore(piece, i)
  <2>1. /\ piece \in Seq(Alphabet) /\ Len(piece) = i
        /\ \A j \in 1 .. i : piece[j] = stream[used + j]
    <3>1. /\ used \in Nat /\ used + i \in Nat /\ used <= used + i
          /\ used + i <= Len(stream) /\ (used + i) - used = i
      BY <1>1, <1>7
    <3>2. /\ piece \in Seq(Alphabet) /\ Len(piece) = (used + i) - used
          /\ \A j \in 1 .. (used + i) - used : piece[j] = stream[used + j]
      BY <1>1, <3>1, PieceFacts, ZenonT(30)
    <3> HIDE DEF piece
    <3> QED  BY <3>1, <3>2
  <2> HIDE DEF piece
  <2>2. \A j \in 1 .. i : data[j] = piece[j]
    BY <1>1, <1>5, <2>1
  <2>3. i \in Nat \ {0} /\ i <= Len(data)
    BY <1>1
  <2> QED  BY <1>1, <2>1, <2>2, <2>3, LineSame DEF line
<1>13. IsLine(stream, Newlines(stream, used) + 1, line)
  <2>1. /\ used \in 0 .. Len(stream) /\ used + i \in used + 1 .. Len(stream)
        /\ (used + i) - used = i
    BY <1>1, <1>5, <1>7
  <2>2. Between(stream, used, used + i - 1)
    BY <1>6, <1>8 DEF Between, AtNewline
  <2> QED  BY <1>7, <1>9, <1>12, <2>1, <2>2 DEF IsLine
<1>14. ASSUME NEW c \in 1 .. Len(calls') PROVE CallExact(c)'
  <2>1. CASE c \in 1 .. Len(calls)
    <3>1. CallExact(c)
      BY <2>1 DEF LinesInv
    <3> QED  BY <1>3, <1>6, <1>10, <2>1, <3>1 DEF CallExact
  <2>2. CASE c \notin 1 .. Len(calls)
    <3>1. c = Len(calls')
      <4>1. Len(calls) \in Nat
        BY DEF ReaderInv, TypeOK
      <4> QED  BY <1>10, <2>2, <4>1
    <3>2. Lines(c)' = Newlines(stream, used) + 1
      BY <1>6, <1>10, <3>1 DEF AtNewline, Lines
    <3> QED  BY <1>3, <1>4, <1>10, <1>13, <3>1, <3>2 DEF CallExact
  <2> QED  BY <2>1, <2>2
<1> QED  BY <1>11, <1>14 DEF LinesInv

\* LastLine returns the rest; the other returns are no lines.
LEMMA ReturnExact ==
  ASSUME ReaderInv, LinesInv, LastLine \/ EndOfInput \/ RejectLine
  PROVE  LinesInv'
<1>0. /\ Len(calls) \in Nat /\ data \in Seq(Alphabet) /\ stream \in Seq(Alphabet)
      /\ used \in Nat /\ Len(data) \in Nat /\ Len(stream) \in Nat
      /\ Len(stream) = used + Len(data)
      /\ \A j \in 1 .. Len(data) : data[j] = stream[used + j]
  BY DataRead, DataFacts DEF ReaderInv, TypeOK, BufferIsRest
<1>1. CASE LastLine
  <2>1. Some(data) \in Results /\ Some(data).some = TRUE /\ Some(data).line = data
    BY <1>0 DEF Some, Results
  <2>2. /\ Len(calls') = Len(calls) + 1 /\ calls'[Len(calls')] = Some(data)
        /\ \A c \in 1 .. Len(calls) : calls'[c] = calls[c] /\ Lines(c)' = Lines(c)
        /\ Lines(Len(calls))' = Lines(Len(calls)) + 1
    BY <1>1, <2>1, LinesReturned DEF ReaderInv, LastLine
  <2>3. /\ Len(data) # 0 /\ done /\ done' = done /\ stream' = stream
        /\ used' = Len(stream) /\ used # Len(stream)
    <3>1. Len(data) = Held /\ start < end /\ start \in Nat /\ end \in Nat
      BY <1>1, DataFacts DEF LastLine, ReaderInv, TypeOK
    <3> QED  BY <1>0, <1>1, <3>1 DEF LastLine, Held
  <2>4. \A j \in used + 1 .. Len(stream) : stream[j] # LF
    <3> SUFFICES ASSUME NEW j \in used + 1 .. Len(stream) PROVE stream[j] # LF
      OBVIOUS
    <3>1. j - used \in 1 .. Len(data) /\ used + (j - used) = j
      BY <1>0
    <3>2. data[j - used] # LF
      BY <1>1, <3>1 DEF LastLine, HasLF
    <3> QED  BY <1>0, <3>1, <3>2
  <2>5. Newlines(stream, Len(stream)) = Newlines(stream, used)
    <3>1. Len(stream) = used + Len(data) /\ \A j \in used + 1 .. used + Len(data) : stream[j] # LF
      BY <1>0, <2>4, Zenon
    <3> QED  BY <1>0, <3>1, NewlinesSame, ZenonT(30)
  <2>6. AtNewline
    BY <2>3 DEF LinesInv, AtRest
  <2>7. AtRest'
    BY <2>2, <2>3, <2>5, <2>6 DEF AtNewline, AtRest
  <2>8. IsRest(stream, Newlines(stream, used) + 1, data)
    <3>1. used \in 0 .. Len(stream) - 1
      BY <1>0, <2>3
    <3>2. Between(stream, used, Len(stream))
      BY <2>4, <2>6 DEF Between, AtNewline
    <3>3. data = SubSeq(stream, used + 1, Len(stream))
      <4> DEFINE piece == SubSeq(stream, used + 1, Len(stream))
      <4>1. /\ piece \in Seq(Alphabet) /\ Len(piece) = Len(data)
            /\ \A j \in 1 .. Len(data) : piece[j] = data[j]
        <5>1. used <= Len(stream) /\ Len(stream) - used = Len(data)
          BY <1>0
        <5>2. /\ piece \in Seq(Alphabet) /\ Len(piece) = Len(stream) - used
              /\ \A j \in 1 .. Len(stream) - used : piece[j] = stream[used + j]
          BY <1>0, <5>1, PieceFacts, SMTT(30)
        <5> HIDE DEF piece
        <5> QED  BY <1>0, <5>1, <5>2
      <4> HIDE DEF piece
      <4>2. data = piece
        BY <1>0, <4>1, SameBytes
      <4> QED  BY <4>2 DEF piece
    <3>4. Newlines(stream, used) \in Nat
      BY <1>0, CountFinite DEF Newlines
    <3>5. Newlines(stream, Len(stream)) = (Newlines(stream, used) + 1) - 1
      BY <2>5, <3>4
    <3> QED  BY <3>1, <3>2, <3>3, <3>5 DEF IsRest
  <2>9. ASSUME NEW c \in 1 .. Len(calls') PROVE CallExact(c)'
    <3>1. CASE c \in 1 .. Len(calls)
      <4>1. CallExact(c)
        BY <3>1 DEF LinesInv
      <4> QED  BY <2>2, <2>3, <3>1, <4>1 DEF CallExact
    <3>2. CASE c \notin 1 .. Len(calls)
      <4>1. c = Len(calls')
        BY <1>0, <2>2, <3>2
      <4>2. Lines(c)' = Newlines(stream, used) + 1
        BY <2>2, <2>6, <4>1 DEF AtNewline, Lines
      <4> QED  BY <2>1, <2>2, <2>3, <2>8, <4>1, <4>2 DEF CallExact
    <3> QED  BY <3>1, <3>2
  <2> QED  BY <2>7, <2>9 DEF LinesInv
<1>2. CASE EndOfInput \/ RejectLine
  <2>1. /\ UNCHANGED <<stream, used>> /\ done' = TRUE /\ done \in BOOLEAN
        /\ calls' = calls \/ Return(None)
    BY <1>2 DEF EndOfInput, RejectLine, ReaderInv, TypeOK
  <2>2. None \in Results /\ None.some = FALSE
    BY EmptySeq DEF None, Results
  <2>3. CASE calls' = calls
    <3>1. \A c : Lines(c)' = Lines(c)
      BY <2>3 DEF Lines
    <3> QED  BY <2>1, <2>3, <3>1 DEF LinesInv, AtNewline, AtRest, CallExact
  <2>4. CASE Return(None)
    <3>1. /\ Len(calls') = Len(calls) + 1 /\ calls'[Len(calls')] = None
          /\ \A c \in 1 .. Len(calls) : calls'[c] = calls[c] /\ Lines(c)' = Lines(c)
          /\ Lines(Len(calls))' = Lines(Len(calls))
      BY <2>2, <2>4, LinesReturned DEF ReaderInv
    <3>2. (AtNewline \/ AtRest)'
      BY <2>1, <3>1 DEF LinesInv, AtNewline, AtRest
    <3>3. ASSUME NEW c \in 1 .. Len(calls') PROVE CallExact(c)'
      <4>1. CASE c \in 1 .. Len(calls)
        <5>1. CallExact(c)
          BY <4>1 DEF LinesInv
        <5> QED  BY <2>1, <3>1, <4>1, <5>1 DEF CallExact
      <4>2. CASE c \notin 1 .. Len(calls)
        <5>1. c = Len(calls')
          BY <1>0, <3>1, <4>2
        <5> QED  BY <2>2, <3>1, <5>1 DEF CallExact
      <4> QED  BY <4>1, <4>2
    <3> QED  BY <3>2, <3>3 DEF LinesInv
  <2> QED  BY <2>1, <2>3, <2>4
<1> QED  BY <1>1, <1>2

\* A read changes no line: what it adds stands behind the bytes used up.
LEMMA ReadExact ==
  ASSUME ReaderInv, LinesInv,
         ReadEof \/ ReadInterrupted \/ ReadError \/ \E chunk \in Chunks : ReadSome(chunk)
  PROVE  LinesInv'
<1>1. ~done /\ calls' = calls /\ used' = used
  BY DEF ReadEof, ReadInterrupted, ReadError, ReadNothing, ReadSome, MakeRoom
<1>2. \A c : Lines(c)' = Lines(c)
  BY <1>1 DEF Lines
<1>3. /\ stream \in Seq(Alphabet) /\ stream' \in Seq(Alphabet) /\ Len(stream) <= Len(stream')
      /\ \A j \in 1 .. Len(stream) : stream'[j] = stream[j]
      /\ used \in 0 .. Len(stream)
  <2>1. stream \in Seq(Alphabet) /\ used \in 0 .. Len(stream)
    BY DEF ReaderInv, TypeOK, BufferIsRest
  <2>2. CASE ReadEof \/ ReadInterrupted \/ ReadError
    BY <2>1, <2>2 DEF ReadEof, ReadInterrupted, ReadError
  <2>3. ASSUME NEW chunk \in Chunks, ReadSome(chunk)
        PROVE  /\ stream' \in Seq(Alphabet) /\ Len(stream) <= Len(stream')
               /\ \A j \in 1 .. Len(stream) : stream'[j] = stream[j]
    <3>1. chunk \in Seq(Alphabet) /\ stream' = stream \o chunk
      BY <2>3, ChunkFacts DEF ReaderInv, ReadSome
    <3> QED  BY <2>1, <3>1
  <2> QED  BY <2>1, <2>2, <2>3
<1>4. Newlines(stream', used) = Newlines(stream, used)
  BY <1>3, NewlinesPrefix
<1>5. AtNewline
  BY <1>1 DEF LinesInv, AtRest
<1>6. AtNewline'
  <2>1. used = 0 \/ stream'[used] = LF
    BY <1>3, <1>5 DEF AtNewline
  <2> QED  BY <1>1, <1>2, <1>4, <1>5, <2>1 DEF AtNewline
<1>7. ASSUME NEW c \in 1 .. Len(calls') PROVE CallExact(c)'
  <2>1. calls[c].some => IsLine(stream, Lines(c), calls[c].line)
    BY <1>1, <1>7 DEF LinesInv, CallExact
  <2>2. calls[c].some => IsLine(stream', Lines(c), calls[c].line)
    BY <1>3, <2>1, LineStays
  <2> QED  BY <1>1, <1>2, <2>2 DEF CallExact
<1> QED  BY <1>6, <1>7 DEF LinesInv

\* The lines returned are those of the stream, in every reachable state.
LEMMA LinesInvInductive == Spec => []LinesInv
<1>1. Init => LinesInv
  <2> SUFFICES ASSUME Init PROVE LinesInv
    OBVIOUS
  <2>1. Len(calls) = 0 /\ used = 0
    BY DEF Init
  <2>2. Lines(0) = Newlines(stream, 0)
    <3>1. \A f : {d \in 1 .. 0 : calls[d].some} = {} /\ {j \in 1 .. 0 : stream[j] = LF} = {}
      OBVIOUS
    <3> QED  BY <3>1 DEF Lines, Newlines
  <2> QED  BY <2>1, <2>2 DEF LinesInv, AtNewline
<1>2. ReaderInv /\ LinesInv /\ [Next]_vars => LinesInv'
  <2> SUFFICES ASSUME ReaderInv, LinesInv, [Next]_vars PROVE LinesInv'
    OBVIOUS
  <2>1. CASE UNCHANGED vars
    <3>1. UNCHANGED <<done, stream, calls, used>>
      BY <2>1 DEF vars
    <3>2. \A c : Lines(c)' = Lines(c)
      BY <3>1 DEF Lines
    <3> QED  BY <3>1, <3>2 DEF LinesInv, AtNewline, AtRest, CallExact
  <2>2. CASE Next
    BY <2>2, FoundLineExact, ReturnExact, ReadExact DEF Next
  <2> QED  BY <2>1, <2>2
<1> QED  BY <1>1, <1>2, ReaderInvInductive, PTL DEF Spec

\* Whatever the reads, next_line returns the lines of the stream, in order, none
\* left out, none twice, and after the last read the unterminated rest.
THEOREM LinesAreExact == Spec => []LinesExact
<1>1. ReaderInv /\ LinesInv => LinesExact
  BY DEF LinesInv, LinesExact, AtNewline, AtRest, CallExact
<1> QED  BY <1>1, ReaderInvInductive, LinesInvInductive, PTL
=============================================================================
