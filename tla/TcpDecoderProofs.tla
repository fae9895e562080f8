-------------------------- MODULE TcpDecoderProofs --------------------------
(***************************************************************************)
(* Theorems about TcpDecoder, for every framing mode, ceiling, alphabet    *)
(* and way of cutting the stream into chunks.                              *)
(***************************************************************************)
EXTENDS TcpDecoder, ChainLemmas, SequenceTheorems, WellFoundedInduction, TLAPS

\* max_frame_len.max(1) is positive.
LEMMA CeilingType == Ceiling \in Nat \ {0}
  BY DecoderAssumption DEF Ceiling

\* position finds a byte that is there, and the first of its kind.
LEMMA FirstFacts ==
  ASSUME NEW s \in Seq(Int), NEW b, Has(b, s)
  PROVE  /\ First(b, s) \in 1 .. Len(s)
         /\ s[First(b, s)] = b
         /\ \A j \in 1 .. First(b, s) - 1 : s[j] # b
  <1> DEFINE T == {i \in 1 .. Len(s) : s[i] = b}
  <1>1. T \subseteq Nat /\ T # {} /\ Len(s) \in Nat
    BY LenProperties DEF Has
  <1>2. PICK x \in T : \A y \in T : ~(<<y, x>> \in OpToRel(<, Nat))
    BY <1>1, WFMin, NatLessThanWellFounded
  <1>3. \A y \in T : ~(y < x)
    BY <1>1, <1>2 DEF OpToRel
  <1>4. \A j \in 1 .. x - 1 : s[j] # b
    BY <1>1, <1>3
  <1>5. x \in 1 .. Len(s) /\ s[x] = b /\ \A j \in 1 .. x - 1 : s[j] # b
    BY <1>4
  <1> QED
    BY <1>5 DEF First

\* What is left of a buffer after n bytes were read.
LEMMA DropFacts ==
  ASSUME NEW S, NEW s \in Seq(S), NEW n \in 0 .. Len(s)
  PROVE  /\ Drop(s, n) \in Seq(S)
         /\ Len(Drop(s, n)) = Len(s) - n
         /\ \A i \in 1 .. Len(s) - n : Drop(s, n)[i] = s[n + i]
  <1>1. Len(s) \in Nat /\ \A i \in n + 1 .. Len(s) : s[i] \in S
    BY LenProperties
  <1>2. /\ SubSeq(s, n + 1, Len(s)) \in Seq(S)
        /\ Len(SubSeq(s, n + 1, Len(s))) =
             IF n + 1 <= Len(s) THEN Len(s) - (n + 1) + 1 ELSE 0
        /\ \A i \in 1 .. Len(s) - (n + 1) + 1 :
             SubSeq(s, n + 1, Len(s))[i] = s[(n + 1) + i - 1]
    BY <1>1, SubSeqProperties
  <1> QED
    BY <1>1, <1>2 DEF Drop

\* Cutting a frame out of the buffer.
LEMMA CutFacts ==
  ASSUME NEW S, NEW s \in Seq(S), NEW m \in 1 .. Len(s) + 1, NEW n \in m - 1 .. Len(s)
  PROVE  /\ SubSeq(s, m, n) \in Seq(S)
         /\ Len(SubSeq(s, m, n)) = n - m + 1
  <1>1. Len(s) \in Nat /\ \A i \in m .. n : s[i] \in S
    BY LenProperties
  <1> QED
    BY <1>1, SubSeqProperties

\* Stripping a CR keeps a sequence of bytes and never lengthens it.
LEMMA StripFacts ==
  ASSUME NEW S, NEW s \in Seq(S)
  PROVE  StripCR(s) \in Seq(S) /\ Len(StripCR(s)) <= Len(s) /\ Len(StripCR(s)) \in Nat
  <1>1. CASE s = <<>>
    BY <1>1, EmptySeq DEF StripCR
  <1>2. CASE s # <<>>
    <2>1. Len(s) \in Nat \ {0}
      BY <1>2, EmptySeq
    <2>2. /\ SubSeq(s, 1, Len(s) - 1) \in Seq(S)
          /\ Len(SubSeq(s, 1, Len(s) - 1)) = Len(s) - 1
      <3>1. 1 \in 1 .. Len(s) + 1 /\ Len(s) - 1 \in 1 - 1 .. Len(s)
        BY <2>1
      <3>2. Len(SubSeq(s, 1, Len(s) - 1)) = (Len(s) - 1) - 1 + 1
        BY <3>1, CutFacts
      <3> QED
        BY <2>1, <3>1, <3>2, CutFacts
    <2> QED
      BY <2>1, <2>2 DEF StripCR
  <1> QED
    BY <1>1, <1>2
-----------------------------------------------------------------------------
(* What the two frame-cutting passes do. *)

\* What the type of the buffer says of its bytes.
LEMMA BufFacts ==
  ASSUME TypeOK
  PROVE  /\ buf \in Seq(Alphabet) /\ fed \in Seq(Alphabet) /\ out \in Seq(Frame)
         /\ buf \in Seq(Int)
         /\ Len(buf) \in Nat /\ Len(fed) \in Nat /\ Len(out) \in Nat
  <1>1. buf \in Seq(Alphabet) /\ fed \in Seq(Alphabet) /\ out \in Seq(Frame)
    BY DEF TypeOK
  <1>2. Alphabet \subseteq Int
    BY DecoderAssumption
  <1> QED
    BY <1>1, <1>2, SeqMonotonic, LenProperties

\* The frame of an octet-counted pass and what is left of the buffer after it
\* (drain, the Octet arm).
LEMMA OctetFrameFacts ==
  ASSUME TypeOK, OctetFrame
  PROVE  \E n \in 0 .. Len(buf), bytes \in Seq(Alphabet) :
           /\ Len(bytes) <= Ceiling
           /\ Len(bytes) <= Len(buf)
           /\ Emit("octet", bytes, Drop(buf, n))
  <1> USE CeilingType
  <1>1. First(SP, buf) \in 1 .. Len(buf)
    BY BufFacts, FirstFacts DEF OctetFrame, OctetPass
  <1>2. Announced(buf) \in Nat /\ Announced(buf) <= Ceiling
    BY DecoderAssumption DEF OctetFrame, OctetPass, OctetFits, ParsesUsize, Announced
  <1>3. FrameEnd(buf) = First(SP, buf) + Announced(buf) /\ FrameEnd(buf) <= Len(buf)
    BY <1>1, <1>2, BufFacts DEF OctetFrame, FrameEnd
  <1>4. FrameEnd(buf) \in 0 .. Len(buf)
    BY <1>1, <1>2, <1>3, BufFacts
  <1>5. /\ First(SP, buf) + 1 \in 1 .. Len(buf) + 1
        /\ FrameEnd(buf) \in (First(SP, buf) + 1) - 1 .. Len(buf)
    BY <1>1, <1>2, <1>3, BufFacts
  <1>6. /\ SubSeq(buf, First(SP, buf) + 1, FrameEnd(buf)) \in Seq(Alphabet)
        /\ Len(SubSeq(buf, First(SP, buf) + 1, FrameEnd(buf)))
             = FrameEnd(buf) - (First(SP, buf) + 1) + 1
    BY <1>5, BufFacts, CutFacts, ZenonT(30)
  <1>7. /\ Len(SubSeq(buf, First(SP, buf) + 1, FrameEnd(buf))) <= Ceiling
        /\ Len(SubSeq(buf, First(SP, buf) + 1, FrameEnd(buf))) <= Len(buf)
    <2> DEFINE n == Len(SubSeq(buf, First(SP, buf) + 1, FrameEnd(buf)))
    <2>1. n = FrameEnd(buf) - (First(SP, buf) + 1) + 1
      BY <1>6
    <2> HIDE DEF n
    <2>2. n = Announced(buf)
      BY <1>1, <1>2, <1>3, <2>1
    <2>3. n <= Ceiling /\ n <= Len(buf)
      BY <1>1, <1>2, <1>3, <2>2, BufFacts
    <2> QED
      BY <2>3 DEF n
  <1> QED
    BY <1>4, <1>6, <1>7 DEF OctetFrame

\* The frame of an LF pass and what is left of the buffer after it (drain, the
\* Lf arm).
LEMMA LfFrameFacts ==
  ASSUME TypeOK, LfFrame
  PROVE  \E n \in 1 .. Len(buf), bytes \in Seq(Alphabet) :
           /\ Len(bytes) \in Nat
           /\ Len(bytes) < Len(buf)
           /\ Emit("lf", bytes, Drop(buf, n))
  <1>1. First(LF, buf) \in 1 .. Len(buf)
    BY BufFacts, FirstFacts DEF LfFrame
  <1> DEFINE f == First(LF, buf)
             line == SubSeq(buf, 1, f - 1)
  <1>2. 1 \in 1 .. Len(buf) + 1 /\ f - 1 \in 1 - 1 .. Len(buf)
    BY <1>1, BufFacts
  <1>3. line \in Seq(Alphabet) /\ Len(line) = (f - 1) - 1 + 1
    BY <1>2, BufFacts, CutFacts
  <1>4. /\ StripCR(line) \in Seq(Alphabet)
        /\ Len(StripCR(line)) \in Nat
        /\ Len(StripCR(line)) <= Len(line)
    BY <1>3, StripFacts
  <1>5. Len(StripCR(line)) < Len(buf)
    BY <1>1, <1>3, <1>4, BufFacts
  <1> QED
    BY <1>1, <1>4, <1>5 DEF LfFrame

-----------------------------------------------------------------------------
(* The steps, by what they do to the buffer. *)

SwitchMode ==
  /\ mode = "Auto"
  /\ mode' = "NonTransparent"
  /\ UNCHANGED <<framing, buf, out, fed, pc, status>>

\* Every pass that ends in Wait does so in one of the situations that
\* BoundedWhenMeasured lists.
LEMMA StepKinds ==
  ASSUME TypeOK, [Next]_vars
  PROVE  \/ \E chunk \in Seq(Alphabet) : Len(chunk) <= MaxChunk /\ Push(chunk)
         \/ pc = "drain" /\ Wait /\ BoundedWhenMeasured'
         \/ pc = "drain" /\ Reject
         \/ pc = "drain" /\ SwitchMode
         \/ pc = "drain" /\ OctetFrame
         \/ pc = "drain" /\ LfFrame
         \/ Flush
         \/ UNCHANGED vars
  <1> USE CeilingType, BufFacts
  <1>1. ASSUME NEW chunk \in Chunks
        PROVE  chunk \in Seq(Alphabet) /\ Len(chunk) <= MaxChunk
    <2>1. PICK n \in 1 .. MaxChunk : chunk \in [1 .. n -> Alphabet]
      BY DEF Chunks
    <2>2. n \in Nat
      BY <2>1, DecoderAssumption
    <2>3. chunk \in Seq(Alphabet)
      BY <2>1, <2>2, SeqDef
    <2>4. Len(chunk) = n
      BY <2>1, <2>2, <2>3, LenProperties
    <2> QED
      BY <2>1, <2>3, <2>4, DecoderAssumption
  <1>2. ASSUME Undecided
        PROVE  pc = "drain" /\ Wait /\ BoundedWhenMeasured'
    <2>1. mode # "NonTransparent" /\ ~Has(SP, buf)
      BY <1>2 DEF Undecided, PassMode, Detect
    <2> QED
      BY <1>2, <2>1 DEF Undecided, Wait, BoundedWhenMeasured
  <1>3. PassMode(mode, buf) = "Octet" => mode # "NonTransparent"
    BY DEF PassMode
  <1>4. ASSUME OctetNoSpace
        PROVE  pc = "drain" /\ Wait /\ BoundedWhenMeasured'
    BY <1>3, <1>4 DEF OctetNoSpace, Wait, BoundedWhenMeasured
  <1>5. ASSUME OctetBadLength, mode = "Auto"
        PROVE  pc = "drain" /\ SwitchMode
    BY <1>5 DEF OctetBadLength, SwitchMode, Wait
  <1>10. ASSUME OctetBadLength, mode # "Auto"
         PROVE  pc = "drain" /\ Wait /\ BoundedWhenMeasured'
    <2>1. mode = "OctetCounting" /\ Wait
      BY <1>3, <1>10 DEF OctetBadLength, TypeOK, Modes
    <2> QED
      BY <1>10, <2>1 DEF OctetBadLength, Wait, BoundedWhenMeasured
  <1>6. ASSUME OctetIncomplete
        PROVE  pc = "drain" /\ Wait /\ BoundedWhenMeasured'
    <2>1. First(SP, buf) \in 1 .. Len(buf)
      BY <1>6, FirstFacts DEF OctetIncomplete, OctetPass
    <2>2. Announced(buf) \in Nat /\ Announced(buf) <= Ceiling
      BY <1>6, DecoderAssumption
         DEF OctetIncomplete, OctetPass, OctetFits, ParsesUsize, Announced
    <2>3. Len(buf) < First(SP, buf) + Ceiling
      BY <1>6, <2>1, <2>2 DEF OctetIncomplete, FrameEnd
    <2> QED
      BY <1>3, <1>6, <2>3 DEF OctetIncomplete, OctetPass, Wait, BoundedWhenMeasured
  <1>7. ASSUME LfWait
        PROVE  pc = "drain" /\ Wait /\ BoundedWhenMeasured'
    BY <1>7 DEF LfWait, LfPass, Wait, BoundedWhenMeasured
  <1>8. OctetTooLarge \/ LfTooLarge => pc = "drain" /\ Reject
    BY DEF OctetTooLarge, LfTooLarge, OctetPass, LfPass
  <1>9. (OctetFrame => pc = "drain") /\ (LfFrame => pc = "drain")
    BY DEF OctetFrame, LfFrame, OctetPass, LfPass
  <1> QED
    BY <1>1, <1>2, <1>4, <1>5, <1>6, <1>7, <1>8, <1>9, <1>10 DEF Next, Drain, Closed
-----------------------------------------------------------------------------
(* The inductive invariant. *)

\* What OversizeBounded needs of the buffer.
LfBuffer ==
  framing = "NonTransparent" =>
    /\ mode = "NonTransparent"
    /\ Len(buf) < Ceiling + MaxChunk
    /\ pc = "idle" => Len(buf) < Ceiling

\* Every call of push or flush and every pass of drain keeps the types.
LEMMA TypeStep ==
  ASSUME TypeOK, [Next]_vars
  PROVE  TypeOK'
  <1> USE BufFacts
  <1>1. ASSUME NEW chunk \in Seq(Alphabet), Push(chunk) PROVE TypeOK'
    <2>1. buf \o chunk \in Seq(Alphabet) /\ fed \o chunk \in Seq(Alphabet)
      BY ConcatProperties
    <2> QED
      BY <1>1, <2>1 DEF Push, TypeOK
  <1>2. ASSUME Wait \/ Reject \/ SwitchMode \/ UNCHANGED vars PROVE TypeOK'
    BY <1>2, EmptySeq DEF Wait, Reject, SwitchMode, TypeOK, Modes, vars
  <1>3. ASSUME NEW kind \in {"octet", "lf"}, NEW n \in 0 .. Len(buf),
               NEW bytes \in Seq(Alphabet), Emit(kind, bytes, Drop(buf, n))
        PROVE  TypeOK'
    <2>1. Append(out, [kind |-> kind, bytes |-> bytes]) \in Seq(Frame)
      BY AppendProperties DEF Frame
    <2>2. Drop(buf, n) \in Seq(Alphabet)
      BY DropFacts
    <2> QED
      BY <1>3, <2>1, <2>2 DEF Emit, TypeOK
  <1>4. ASSUME Flush PROVE TypeOK'
    <2>1. [kind |-> "tail", bytes |-> buf] \in Frame
      BY DEF Frame
    <2>2. out' \in Seq(Frame) /\ buf' \in Seq(Alphabet)
      BY <1>4, <2>1, AppendProperties, EmptySeq DEF Flush
    <2> QED
      BY <1>4, <2>2 DEF Flush, TypeOK
  <1> QED
    BY StepKinds, OctetFrameFacts, LfFrameFacts, <1>1, <1>2, <1>3, <1>4

\* Every step keeps the bound on what the decoder holds between two pushes.
LEMMA BoundStep ==
  ASSUME TypeOK, BoundedWhenMeasured, RejectedIsEmpty, [Next]_vars
  PROVE  BoundedWhenMeasured' /\ RejectedIsEmpty'
  <1> USE BufFacts, CeilingType
  <1>1. ASSUME NEW chunk, Push(chunk) PROVE BoundedWhenMeasured' /\ RejectedIsEmpty'
    BY <1>1 DEF Push, BoundedWhenMeasured, RejectedIsEmpty
  <1>2. ASSUME pc = "drain", Wait, BoundedWhenMeasured'
        PROVE  BoundedWhenMeasured' /\ RejectedIsEmpty'
    BY <1>2 DEF Wait, RejectedIsEmpty
  <1>3. ASSUME Reject \/ Flush PROVE BoundedWhenMeasured' /\ RejectedIsEmpty'
    BY <1>3, EmptySeq DEF Reject, Flush, BoundedWhenMeasured, RejectedIsEmpty
  <1>4. ASSUME pc = "drain", SwitchMode PROVE BoundedWhenMeasured' /\ RejectedIsEmpty'
    BY <1>4 DEF SwitchMode, BoundedWhenMeasured, RejectedIsEmpty
  <1>5. ASSUME pc = "drain", NEW kind, NEW n \in 0 .. Len(buf), NEW bytes,
               Emit(kind, bytes, Drop(buf, n))
        PROVE  BoundedWhenMeasured' /\ RejectedIsEmpty'
    <2>1. status = "too_large" => Drop(buf, n) = <<>>
      <3> SUFFICES ASSUME status = "too_large" PROVE Drop(buf, n) = <<>>
        OBVIOUS
      <3>1. buf = <<>>
        BY DEF RejectedIsEmpty
      <3>2. Len(Drop(buf, n)) = 0 /\ Drop(buf, n) \in Seq(Alphabet)
        <4>1. Len(buf) = 0
          BY <3>1, EmptySeq
        <4>2. Drop(buf, n) \in Seq(Alphabet) /\ Len(Drop(buf, n)) = Len(buf) - n
          BY DropFacts
        <4>3. n = 0
          BY <1>5, <4>1
        <4>4. Len(buf) - n = 0
          BY <4>1, <4>3
        <4> QED
          BY <4>2, <4>4
      <3> QED
        BY <3>2, EmptySeq
    <2> QED
      BY <1>5, <2>1 DEF Emit, BoundedWhenMeasured, RejectedIsEmpty
  <1>6. ASSUME UNCHANGED vars PROVE BoundedWhenMeasured' /\ RejectedIsEmpty'
    BY <1>6 DEF BoundedWhenMeasured, RejectedIsEmpty, vars
  <1> QED
    BY StepKinds, OctetFrameFacts, LfFrameFacts, <1>1, <1>2, <1>3, <1>4, <1>5, <1>6

\* Appending a frame to the output keeps a bound on the frames if it holds of the
\* new one.
LEMMA EmitFacts ==
  ASSUME TypeOK, NEW f \in Frame, out' = Append(out, f)
  PROVE  /\ Len(out') = Len(out) + 1
         /\ \A i \in 1 .. Len(out') : i \in 1 .. Len(out) \/ i = Len(out) + 1
         /\ \A i \in 1 .. Len(out) : out'[i] = out[i]
         /\ out'[Len(out) + 1] = f
  BY BufFacts, AppendProperties

\* Every step keeps octet-counted frames within the ceiling.
LEMMA CeilingStep ==
  ASSUME TypeOK, OctetCeiling, LfBuffer, OversizeBounded, [Next]_vars
  PROVE  OctetCeiling' /\ LfBuffer' /\ OversizeBounded'
  <1> USE BufFacts, CeilingType, DecoderAssumption
  <1>1. ASSUME NEW chunk \in Seq(Alphabet), Len(chunk) <= MaxChunk, Push(chunk)
        PROVE  OctetCeiling' /\ LfBuffer' /\ OversizeBounded'
    <2>1. Len(buf') = Len(buf) + Len(chunk) /\ Len(chunk) \in Nat
      BY <1>1, ConcatProperties, LenProperties DEF Push
    <2>2. LfBuffer'
      BY <1>1, <2>1 DEF Push, LfBuffer
    <2> QED
      BY <1>1, <2>2 DEF Push, OctetCeiling, OversizeBounded
  <1>2. ASSUME pc = "drain", Wait, BoundedWhenMeasured'
        PROVE  OctetCeiling' /\ LfBuffer' /\ OversizeBounded'
    <2>1. LfBuffer'
      BY <1>2 DEF Wait, LfBuffer, BoundedWhenMeasured
    <2> QED
      BY <1>2, <2>1 DEF Wait, OctetCeiling, OversizeBounded
  <1>3. ASSUME Reject PROVE OctetCeiling' /\ LfBuffer' /\ OversizeBounded'
    <2>1. LfBuffer'
      BY <1>3, EmptySeq DEF Reject, LfBuffer
    <2> QED
      BY <1>3, <2>1 DEF Reject, OctetCeiling, OversizeBounded
  <1>4. ASSUME pc = "drain", SwitchMode
        PROVE  OctetCeiling' /\ LfBuffer' /\ OversizeBounded'
    BY <1>4 DEF SwitchMode, OctetCeiling, LfBuffer, OversizeBounded
  <1>5. ASSUME pc = "drain", NEW kind \in {"octet", "lf"}, NEW n \in 0 .. Len(buf),
               NEW bytes \in Seq(Alphabet), Emit(kind, bytes, Drop(buf, n)),
               kind = "octet" => Len(bytes) <= Ceiling, Len(bytes) <= Len(buf)
        PROVE  OctetCeiling' /\ LfBuffer' /\ OversizeBounded'
    <2> DEFINE f == [kind |-> kind, bytes |-> bytes]
    <2>1. f \in Frame /\ f.kind = kind /\ f.bytes = bytes
      BY <1>5 DEF Frame
    <2>2. out' = Append(out, f) /\ UNCHANGED <<framing, mode, pc>> /\ buf' = Drop(buf, n)
      BY <1>5 DEF Emit
    <2> HIDE DEF f
    <2>3. OctetCeiling'
      BY <1>5, <2>1, <2>2, EmitFacts DEF OctetCeiling
    <2>4. Len(buf') <= Len(buf) /\ Len(buf') \in Nat
      BY <2>2, DropFacts
    <2>5. LfBuffer'
      BY <1>5, <2>2, <2>4 DEF LfBuffer
    <2>6. framing = "NonTransparent" => Len(f.bytes) < Ceiling + MaxChunk
      BY <1>5, <2>1, LenProperties DEF LfBuffer
    <2>7. OversizeBounded'
      BY <2>2, <2>6, <2>1, EmitFacts DEF OversizeBounded
    <2> QED
      BY <2>3, <2>5, <2>7
  <1>6. ASSUME Flush PROVE OctetCeiling' /\ LfBuffer' /\ OversizeBounded'
    <2>1. LfBuffer'
      BY <1>6, EmptySeq DEF Flush, LfBuffer
    <2>2. CASE buf = <<>>
      BY <1>6, <2>1, <2>2 DEF Flush, OctetCeiling, OversizeBounded
    <2>3. CASE buf # <<>>
      <3> DEFINE f == [kind |-> "tail", bytes |-> buf]
      <3>1. f \in Frame /\ f.kind = "tail" /\ f.bytes = buf
        BY DEF Frame
      <3>2. out' = Append(out, f) /\ framing' = framing
        BY <1>6, <2>3 DEF Flush
      <3> HIDE DEF f
      <3>3. OctetCeiling'
        BY <3>1, <3>2, EmitFacts DEF OctetCeiling
      <3>4. framing = "NonTransparent" => Len(f.bytes) < Ceiling + MaxChunk
        BY <1>6, <3>1 DEF LfBuffer, Flush
      <3>5. OversizeBounded'
        BY <3>1, <3>2, <3>4, EmitFacts DEF OversizeBounded
      <3> QED
        BY <2>1, <3>3, <3>5
    <2> QED
      BY <2>2, <2>3
  <1>7. ASSUME UNCHANGED vars PROVE OctetCeiling' /\ LfBuffer' /\ OversizeBounded'
    BY <1>7 DEF OctetCeiling, LfBuffer, OversizeBounded, vars
  <1>8. ASSUME pc = "drain", OctetFrame
        PROVE  OctetCeiling' /\ LfBuffer' /\ OversizeBounded'
    BY <1>5, <1>8, OctetFrameFacts
  <1>9. ASSUME pc = "drain", LfFrame
        PROVE  OctetCeiling' /\ LfBuffer' /\ OversizeBounded'
    <2>1. PICK n \in 1 .. Len(buf), bytes \in Seq(Alphabet) :
            /\ Len(bytes) \in Nat
            /\ Len(bytes) < Len(buf)
            /\ Emit("lf", bytes, Drop(buf, n))
      BY <1>9, LfFrameFacts
    <2>2. n \in 0 .. Len(buf) /\ Len(bytes) <= Len(buf)
      BY <2>1
    <2> QED
      BY <1>5, <1>9, <2>1, <2>2
  <1> QED
    BY StepKinds, <1>1, <1>2, <1>3, <1>4, <1>6, <1>7, <1>8, <1>9

DecoderInv ==
  /\ TypeOK
  /\ BoundedWhenMeasured /\ RejectedIsEmpty
  /\ OctetCeiling /\ LfBuffer /\ OversizeBounded

\* The inductive invariant of the decoder holds in every reachable state.
LEMMA DecoderInvInductive == Spec => []DecoderInv
  <1>1. Init => DecoderInv
    BY DecoderAssumption, CeilingType, EmptySeq
       DEF Init, DecoderInv, TypeOK, Modes, BoundedWhenMeasured, RejectedIsEmpty,
           OctetCeiling, LfBuffer, OversizeBounded
  <1>2. DecoderInv /\ [Next]_vars => DecoderInv'
    BY TypeStep, BoundStep, CeilingStep DEF DecoderInv
  <1> QED
    BY <1>1, <1>2, PTL DEF Spec

\* The decoder's variables keep their types, whatever is pushed.
THEOREM DecoderTypeCorrect == Spec => []TypeOK
  BY DecoderInvInductive, PTL DEF DecoderInv

\* Between pushes the buffer stays below the ceiling wherever there is a frame to
\* measure.
THEOREM MemoryBounded == Spec => []BoundedWhenMeasured
  BY DecoderInvInductive, PTL DEF DecoderInv

\* No octet-counted frame exceeds the ceiling.
THEOREM OctetCeilingHolds == Spec => []OctetCeiling
  BY DecoderInvInductive, PTL DEF DecoderInv

\* In LF framing a delivered frame exceeds the ceiling by less than one read.
THEOREM OversizeIsBounded == Spec => []OversizeBounded
  BY DecoderInvInductive, PTL DEF DecoderInv

-----------------------------------------------------------------------------
(***************************************************************************)
(* The frames do not depend on the chunks.  That the frames decoded so far *)
(* are those of the bytes pushed so far says nothing of the next push: the *)
(* invariant says it of the bytes pushed so far with any bytes behind them *)
(* (SameFrames), which is what makes it inductive.  It rests on the        *)
(* frames' being cut from the left: a frame that is complete stays as it   *)
(* is when more bytes follow.                                              *)
(***************************************************************************)

LEMMA BytesAreInts ==
  ASSUME NEW s \in Seq(Alphabet)
  PROVE  s \in Seq(Int)
<1>1. Alphabet \subseteq Int
  BY DecoderAssumption
<1> QED  BY <1>1, SeqMonotonic

\* A byte that is there is found at the same place when more bytes follow.
LEMMA FirstStable ==
  ASSUME NEW s \in Seq(Alphabet), NEW t \in Seq(Alphabet), NEW b, Has(b, s)
  PROVE  Has(b, s \o t) /\ First(b, s \o t) = First(b, s) /\ First(b, s) \in 1 .. Len(s)
<1> DEFINE u == s \o t
<1>1. /\ u \in Seq(Alphabet) /\ Len(u) = Len(s) + Len(t) /\ Len(s) \in Nat /\ Len(t) \in Nat
      /\ \A i \in 1 .. Len(s) : u[i] = s[i]
  OBVIOUS
<1>2. s \in Seq(Int) /\ u \in Seq(Int)
  BY <1>1, BytesAreInts
<1> HIDE DEF u
<1>3. Has(b, u)
  BY <1>1 DEF Has
<1>4. /\ First(b, s) \in 1 .. Len(s) /\ s[First(b, s)] = b
      /\ \A j \in 1 .. First(b, s) - 1 : s[j] # b
  BY <1>2, FirstFacts
<1>5. /\ First(b, u) \in 1 .. Len(u) /\ u[First(b, u)] = b
      /\ \A j \in 1 .. First(b, u) - 1 : u[j] # b
  BY <1>2, <1>3, FirstFacts
<1>6. ~(First(b, s) < First(b, u))
  BY <1>1, <1>4, <1>5
<1>7. ~(First(b, u) < First(b, s))
  <2> SUFFICES ASSUME First(b, u) < First(b, s) PROVE FALSE
    OBVIOUS
  <2>1. First(b, u) \in 1 .. First(b, s) - 1 /\ First(b, u) \in 1 .. Len(s)
    BY <1>4, <1>5
  <2> QED  BY <1>1, <1>4, <1>5, <2>1
<1>8. First(b, u) = First(b, s)
  BY <1>4, <1>5, <1>6, <1>7
<1> QED  BY <1>3, <1>4, <1>8 DEF u

\* So the length prefix, and the length it announces, are decided with the space.
LEMMA PrefixStable ==
  ASSUME NEW s \in Seq(Alphabet), NEW t \in Seq(Alphabet), Has(SP, s)
  PROVE  /\ Prefix(s \o t) = Prefix(s) /\ Announced(s \o t) = Announced(s)
         /\ FrameEnd(s \o t) = FrameEnd(s) /\ (s \o t)[1] = s[1]
         /\ CountedPrefix(s \o t) = CountedPrefix(s)
<1>1. /\ Has(SP, s \o t) /\ First(SP, s \o t) = First(SP, s) /\ First(SP, s) \in 1 .. Len(s)
  BY FirstStable
<1>2. Prefix(s \o t) = Prefix(s)
  <2> DEFINE n == First(SP, s)
  <2>1. n \in 1 .. Len(s)
    BY <1>1
  <2> HIDE DEF n
  <2>2. SubSeq(s \o t, 1, n - 1) = SubSeq(s, 1, n - 1)
    BY <2>1
  <2> QED  BY <1>1, <2>2 DEF Prefix, n
<1>3. (s \o t)[1] = s[1]
  BY <1>1
<1> QED  BY <1>1, <1>2, <1>3 DEF Announced, FrameEnd, CountedPrefix

\* A length prefix that parses announces a length.
LEMMA FrameEndFacts ==
  ASSUME NEW s \in Seq(Alphabet), CountedPrefix(s)
  PROVE  /\ First(SP, s) \in 1 .. Len(s)
         /\ FrameEnd(s) \in Nat /\ FrameEnd(s) >= First(SP, s)
<1>1. s \in Seq(Int)
  BY BytesAreInts
<1>2. First(SP, s) \in 1 .. Len(s)
  BY <1>1, FirstFacts DEF CountedPrefix
<1>3. Announced(s) \in Nat
  BY DecoderAssumption DEF CountedPrefix, ParsesUsize, Announced
<1> QED  BY <1>2, <1>3 DEF FrameEnd

\* The bytes in front of the first space.
LEMMA PrefixFacts ==
  ASSUME NEW s \in Seq(Alphabet), Has(SP, s)
  PROVE  /\ First(SP, s) \in 1 .. Len(s) /\ Prefix(s) \in Seq(Alphabet)
         /\ Len(Prefix(s)) = First(SP, s) - 1
         /\ First(SP, s) > 1 => Prefix(s)[1] = s[1]
<1> DEFINE n == First(SP, s)
<1>1. s \in Seq(Int)
  BY BytesAreInts
<1>2. n \in 1 .. Len(s)
  BY <1>1, FirstFacts
<1> HIDE DEF n
<1>3. /\ SubSeq(s, 1, n - 1) \in Seq(Alphabet) /\ Len(SubSeq(s, 1, n - 1)) = n - 1
      /\ n > 1 => SubSeq(s, 1, n - 1)[1] = s[1]
  BY <1>2
<1> QED  BY <1>2, <1>3 DEF Prefix, n

\* A pass that works on a length prefix agrees with the reference.
LEMMA OctetAgrees ==
  ASSUME NEW m \in Modes, NEW s \in Seq(Alphabet),
         PassMode(m, s) = "Octet", CountedPrefix(s)
  PROVE  Counted(m, s) /\ ~Lined(m, s)
<1>1. CASE m = "OctetCounting"
  BY <1>1 DEF Counted, Lined
<1>2. CASE m = "Auto"
  <2>1. Has(SP, s) /\ First(SP, s) > 1 /\ AllDigits(Prefix(s))
    BY <1>2 DEF PassMode, Detect, Prefix
  <2>2. s[1] \in Digits
    <3>1. Prefix(s) \in Seq(Alphabet) /\ Len(Prefix(s)) = First(SP, s) - 1
          /\ Prefix(s)[1] = s[1] /\ First(SP, s) \in 1 .. Len(s)
      BY <2>1, PrefixFacts
    <3>2. 1 \in 1 .. Len(Prefix(s))
      BY <2>1, <3>1
    <3> QED  BY <2>1, <3>1, <3>2 DEF AllDigits
  <2>3. s[1] # Plus
    BY <2>2 DEF Digits, Plus
  <2> QED  BY <1>2, <2>3 DEF Counted, Lined
<1>3. CASE m = "NonTransparent"
  BY <1>3 DEF PassMode
<1> QED  BY <1>1, <1>2, <1>3 DEF Modes

\* A pass that works on a line agrees with the reference.
LEMMA LfAgrees ==
  ASSUME NEW m \in Modes, NEW s \in Seq(Alphabet), PassMode(m, s) = "Lf"
  PROVE  Lined(m, s) /\ ~Counted(m, s) /\ NextMode(m, s) = m
<1>1. CASE m = "NonTransparent"
  BY <1>1 DEF Counted, Lined, NextMode
<1>2. CASE m = "OctetCounting"
  BY <1>2 DEF PassMode
<1>3. CASE m = "Auto"
  <2>1. Has(SP, s) /\ ~(First(SP, s) > 1 /\ AllDigits(Prefix(s)))
    BY <1>3 DEF PassMode, Detect, Prefix
  <2>2. ASSUME Counted(m, s) PROVE FALSE
    <3>1. CountedPrefix(s) /\ s[1] # Plus
      BY <1>3, <2>2 DEF Counted
    <3>2. /\ First(SP, s) \in 1 .. Len(s) /\ Prefix(s) \in Seq(Alphabet)
          /\ Len(Prefix(s)) = First(SP, s) - 1
          /\ First(SP, s) > 1 => Prefix(s)[1] = s[1]
      BY <2>1, PrefixFacts
    <3> DEFINE q == Prefix(s)
    <3>3. Significant(q) # <<>> /\ AllDigits(Significant(q))
      BY <3>1 DEF CountedPrefix, ParsesUsize
    <3> HIDE DEF q
    <3>4. Significant(q) = q
      <4>1. CASE q = <<>>
        BY <4>1 DEF Significant
      <4>2. CASE q # <<>>
        <5>1. Len(q) # 0
          BY <3>2, <4>2 DEF q
        <5>2. Head(q) = s[1]
          BY <3>2, <5>1 DEF q
        <5> QED  BY <3>1, <5>2 DEF Significant
      <4> QED  BY <4>1, <4>2
    <3>5. First(SP, s) > 1
      BY <3>2, <3>3, <3>4 DEF q
    <3> QED  BY <2>1, <3>3, <3>4, <3>5 DEF q
  <2>3. NextMode(m, s) = m
    BY <2>1 DEF NextMode
  <2> QED  BY <1>3, <2>1, <2>2, <2>3 DEF Lined
<1> QED  BY <1>1, <1>2, <1>3 DEF Modes

\* What a pass works on is decided for good.
LEMMA PassStable ==
  ASSUME NEW m \in Modes, NEW s \in Seq(Alphabet), NEW t \in Seq(Alphabet),
         PassMode(m, s) # "undecided"
  PROVE  PassMode(m, s \o t) = PassMode(m, s)
<1>1. CASE m # "Auto"
  BY <1>1 DEF PassMode, Modes
<1>2. CASE m = "Auto"
  <2>1. Has(SP, s)
    BY <1>2 DEF PassMode, Detect
  <2>2. /\ Has(SP, s \o t) /\ First(SP, s \o t) = First(SP, s)
        /\ Prefix(s \o t) = Prefix(s)
    BY <2>1, FirstStable, PrefixStable
  <2> QED  BY <1>2, <2>1, <2>2 DEF PassMode, Detect, Prefix
<1> QED  BY <1>1, <1>2

\* The first frame takes up some of the bytes.
LEMMA WireFacts ==
  ASSUME NEW m \in Modes, NEW s \in Seq(Alphabet), Complete(m, s)
  PROVE  /\ Wire(m, s) \in 1 .. Len(s) /\ NextMode(m, s) \in Modes
         /\ Drop(s, Wire(m, s)) \in Seq(Alphabet)
         /\ Len(Drop(s, Wire(m, s))) < Len(s)
<1>1. Wire(m, s) \in 1 .. Len(s)
  <2>1. CASE Counted(m, s)
    <3>1. ~Lined(m, s)
      BY <2>1 DEF Counted, Lined
    <3>2. FrameEnd(s) <= Len(s) /\ CountedPrefix(s)
      BY <2>1, <3>1 DEF Complete, Counted
    <3>3. /\ First(SP, s) \in 1 .. Len(s)
          /\ FrameEnd(s) \in Nat /\ FrameEnd(s) >= First(SP, s)
      BY <3>2, FrameEndFacts
    <3> QED  BY <2>1, <3>2, <3>3 DEF Wire
  <2>2. CASE ~Counted(m, s)
    <3>1. Has(LF, s)
      BY <2>2 DEF Complete
    <3>2. First(LF, s) \in 1 .. Len(s)
      BY <3>1, BytesAreInts, FirstFacts
    <3> QED  BY <2>2, <3>2 DEF Wire
  <2> QED  BY <2>1, <2>2
<1>2. NextMode(m, s) \in Modes
  BY DEF NextMode, Modes
<1>3. Wire(m, s) \in 0 .. Len(s) /\ Len(s) \in Nat
  BY <1>1
<1>4. /\ Drop(s, Wire(m, s)) \in Seq(Alphabet)
      /\ Len(Drop(s, Wire(m, s))) = Len(s) - Wire(m, s)
  BY <1>3, DropFacts
<1> QED  BY <1>1, <1>2, <1>3, <1>4

\* The first frame is a frame.
LEMMA FrameOfType ==
  ASSUME NEW m \in Modes, NEW s \in Seq(Alphabet), Complete(m, s)
  PROVE  FrameOf(m, s) \in Frame
<1>1. Wire(m, s) \in 1 .. Len(s) /\ Len(s) \in Nat
  BY WireFacts
<1>2. CASE Counted(m, s)
  <2>1. First(SP, s) \in 1 .. Len(s) /\ FrameEnd(s) \in Nat /\ FrameEnd(s) >= First(SP, s)
    BY <1>2, FrameEndFacts DEF Counted
  <2>2. FrameEnd(s) <= Len(s)
    BY <1>1, <1>2 DEF Wire
  <2>3. /\ First(SP, s) + 1 \in 1 .. Len(s) + 1
        /\ FrameEnd(s) \in (First(SP, s) + 1) - 1 .. Len(s)
    BY <1>1, <2>1, <2>2
  <2>4. SubSeq(s, First(SP, s) + 1, FrameEnd(s)) \in Seq(Alphabet)
    BY <2>3, CutFacts
  <2> QED  BY <1>2, <2>4 DEF FrameOf, Frame
<1>3. CASE ~Counted(m, s)
  <2> DEFINE e == First(LF, s) - 1
             n == IF e > 0 /\ s[e] = CR THEN e - 1 ELSE e
  <2>1. e \in 0 .. Len(s) - 1
    BY <1>1, <1>3 DEF Wire
  <2> HIDE DEF e
  <2>2. 1 \in 1 .. Len(s) + 1 /\ n \in 1 - 1 .. Len(s)
    BY <1>1, <2>1
  <2> HIDE DEF n
  <2>3. SubSeq(s, 1, n) \in Seq(Alphabet)
    BY <2>2, CutFacts
  <2>4. FrameOf(m, s) = [kind |-> "lf", bytes |-> SubSeq(s, 1, n)]
    BY <1>3, Zenon DEF FrameOf, n, e
  <2> QED  BY <2>3, <2>4 DEF Frame
<1> QED  BY <1>2, <1>3

Points == Modes \X Seq(Alphabet)
After(p) == <<NextMode(p[1], p[2]), Drop(p[2], Wire(p[1], p[2]))>>
FramesBody(f, p) ==
  IF Complete(p[1], p[2]) THEN <<FrameOf(p[1], p[2])>> \o f[After(p)] ELSE <<>>

\* Frames is well defined: every frame takes up at least a byte.
LEMMA FramesExist ==
  /\ Frames = [p \in Points |-> FramesBody(Frames, p)]
  /\ \A p \in Points : Frames[p] \in Seq(Frame)
<1> DEFINE E == {p \in Points : Complete(p[1], p[2])}
           mu == [p \in Points |-> Len(p[2])]
           next == [p \in E |-> After(p)]
           part == [p \in Points |-> IF p \in E THEN <<FrameOf(p[1], p[2])>> ELSE <<>>]
           Sat(f) == IsChain(f, Points, E, next, part)
<1>1. E \subseteq Points /\ mu \in [Points -> Nat]
  BY DEF Points
<1>2. ASSUME NEW p \in E
      PROVE  /\ After(p) \in Points /\ mu[After(p)] < mu[p] /\ FrameOf(p[1], p[2]) \in Frame
  <2>1. p[1] \in Modes /\ p[2] \in Seq(Alphabet) /\ Complete(p[1], p[2]) /\ p \in Points
    BY DEF Points
  <2>2. /\ NextMode(p[1], p[2]) \in Modes
        /\ Drop(p[2], Wire(p[1], p[2])) \in Seq(Alphabet)
        /\ Len(Drop(p[2], Wire(p[1], p[2]))) < Len(p[2])
    BY <2>1, WireFacts
  <2>3. FrameOf(p[1], p[2]) \in Frame
    BY <2>1, FrameOfType
  <2>4. After(p) \in Points /\ After(p)[2] = Drop(p[2], Wire(p[1], p[2]))
    BY <2>2 DEF After, Points
  <2> QED  BY <2>1, <2>2, <2>3, <2>4
<1>3. next \in [E -> Points] /\ part \in [Points -> Seq(Frame)]
  <2>1. next \in [E -> Points]
    BY <1>2
  <2>2. ASSUME NEW p \in Points
        PROVE  (IF p \in E THEN <<FrameOf(p[1], p[2])>> ELSE <<>>) \in Seq(Frame)
    <3>1. CASE p \in E
      <4> DEFINE x == FrameOf(p[1], p[2])
      <4>1. x \in Frame
        BY <1>2, <3>1
      <4> HIDE DEF x
      <4>2. <<x>> \in Seq(Frame)
        BY <4>1
      <4> QED  BY <3>1, <4>2 DEF x
    <3>2. CASE p \notin E
      BY <3>2
    <3> QED  BY <3>1, <3>2
  <2> QED  BY <2>1, <2>2
<1>4. \A p \in E : mu[next[p]] < mu[p]
  <2> HIDE DEF mu
  <2> QED  BY <1>2
<1>5. \A f : \A p \in Points :
        (IF p \in E THEN part[p] \o f[next[p]] ELSE part[p]) = FramesBody(f, p)
  BY DEF FramesBody
<1> HIDE DEF E, mu, next, part
<1>6. \E f : Sat(f)
  BY <1>1, <1>3, <1>4, ChainExists
<1>7. \A f : Sat(f) <=> f = [p \in Points |-> FramesBody(f, p)]
  BY <1>5 DEF IsChain
<1> DEFINE F == CHOOSE f : f = [p \in Points |-> FramesBody(f, p)]
<1>8. F = [p \in Points |-> FramesBody(F, p)]
  <2> HIDE DEF Sat
  <2> QED  BY <1>6, <1>7, Zenon
<1>9. Frames = F
  BY Zenon DEF Frames, Points, FramesBody, After
<1> HIDE DEF F
<1>10. Sat(F)
  <2> HIDE DEF Sat
  <2> QED  BY <1>7, <1>8, Zenon
<1>11. \A p \in Points : F[p] \in Seq(Frame)
  BY <1>1, <1>3, <1>4, <1>10, ChainTyped
<1> QED  BY <1>8, <1>9, <1>11

\* The frames from a place on.
LEMMA FramesIs ==
  ASSUME NEW m \in Modes, NEW s \in Seq(Alphabet)
  PROVE  /\ Frames[<<m, s>>] \in Seq(Frame)
         /\ ~Complete(m, s) => Frames[<<m, s>>] = <<>>
         /\ Complete(m, s) =>
              Frames[<<m, s>>] = <<FrameOf(m, s)>>
                                 \o Frames[<<NextMode(m, s), Drop(s, Wire(m, s))>>]
<1> DEFINE p == <<m, s>>
<1>1. p \in Points /\ p[1] = m /\ p[2] = s
  BY DEF Points
<1> HIDE DEF p
<1>2. Frames[p] = FramesBody(Frames, p) /\ Frames[p] \in Seq(Frame)
  BY <1>1, FramesExist
<1> QED  BY <1>1, <1>2 DEF p, FramesBody, After

\* Dropping bytes from the front leaves what follows alone.
LEMMA DropConcat ==
  ASSUME NEW s \in Seq(Alphabet), NEW t \in Seq(Alphabet), NEW n \in 0 .. Len(s)
  PROVE  Drop(s \o t, n) = Drop(s, n) \o t
<1> DEFINE u == s \o t
           a == Drop(u, n)
           r == Drop(s, n)
           b == r \o t
<1>1. /\ u \in Seq(Alphabet) /\ Len(u) = Len(s) + Len(t) /\ Len(s) \in Nat /\ Len(t) \in Nat
      /\ \A i \in 1 .. Len(u) : u[i] = IF i <= Len(s) THEN s[i] ELSE t[i - Len(s)]
  OBVIOUS
<1> HIDE DEF u
<1>2. n \in 0 .. Len(u)
  BY <1>1
<1>3. /\ a \in Seq(Alphabet) /\ Len(a) = Len(u) - n
      /\ \A i \in 1 .. Len(u) - n : a[i] = u[n + i]
  BY <1>1, <1>2, DropFacts, ZenonT(30)
<1>4. /\ r \in Seq(Alphabet) /\ Len(r) = Len(s) - n
      /\ \A i \in 1 .. Len(s) - n : r[i] = s[n + i]
  BY DropFacts
<1> HIDE DEF a, r
<1>5. /\ b \in Seq(Alphabet) /\ Len(b) = Len(r) + Len(t)
      /\ \A i \in 1 .. Len(r) + Len(t) : b[i] = IF i <= Len(r) THEN r[i] ELSE t[i - Len(r)]
  BY <1>4, ConcatIs
<1> HIDE DEF b
<1>6. Len(a) = Len(b)
  BY <1>1, <1>3, <1>4, <1>5
<1>7. ASSUME NEW i \in 1 .. Len(a) PROVE a[i] = b[i]
  <2>1. /\ i \in 1 .. Len(u) - n /\ n + i \in 1 .. Len(u) /\ i \in 1 .. Len(b)
        /\ i \in 1 .. Len(r) + Len(t)
        /\ (n + i <= Len(s)) <=> (i <= Len(r))
        /\ (n + i) - Len(s) = i - Len(r)
        /\ i <= Len(r) => i \in 1 .. Len(s) - n
    BY <1>1, <1>3, <1>4, <1>5, <1>6
  <2>2. a[i] = IF n + i <= Len(s) THEN s[n + i] ELSE t[(n + i) - Len(s)]
    BY <1>1, <1>3, <2>1
  <2>3. b[i] = IF i <= Len(r) THEN s[n + i] ELSE t[i - Len(r)]
    BY <1>4, <1>5, <2>1
  <2> QED  BY <2>1, <2>2, <2>3
<1>8. a = b
  BY <1>3, <1>5, <1>6, <1>7
<1> QED  BY <1>8 DEF a, b, u, r

\* The bytes of a frame are the same when more bytes follow it.
LEMMA CutConcat ==
  ASSUME NEW s \in Seq(Alphabet), NEW t \in Seq(Alphabet),
         NEW m \in 1 .. Len(s) + 1, NEW n \in 0 .. Len(s)
  PROVE  SubSeq(s \o t, m, n) = SubSeq(s, m, n)
  OBVIOUS

\* An octet-counted frame that is complete, with any bytes behind it.
LEMMA OctetAhead ==
  ASSUME NEW m \in Modes, NEW s \in Seq(Alphabet), NEW t \in Seq(Alphabet),
         PassMode(m, s) = "Octet", CountedPrefix(s), FrameEnd(s) <= Len(s)
  PROVE  /\ Complete(m, s \o t) /\ NextMode(m, s \o t) = m
         /\ FrameOf(m, s \o t) =
              [kind |-> "octet", bytes |-> SubSeq(s, First(SP, s) + 1, FrameEnd(s))]
         /\ Drop(s \o t, Wire(m, s \o t)) = Drop(s, FrameEnd(s)) \o t
<1> DEFINE u == s \o t
<1>1. u \in Seq(Alphabet) /\ Len(u) >= Len(s) /\ Len(s) \in Nat /\ Len(u) \in Nat
  OBVIOUS
<1>2. /\ First(SP, s) \in 1 .. Len(s)
      /\ FrameEnd(s) \in Nat /\ FrameEnd(s) >= First(SP, s)
  BY FrameEndFacts
<1>3. /\ FrameEnd(u) = FrameEnd(s) /\ CountedPrefix(u) /\ First(SP, u) = First(SP, s)
      /\ PassMode(m, u) = "Octet"
  BY FirstStable, PrefixStable, PassStable DEF CountedPrefix
<1>4. SubSeq(u, First(SP, s) + 1, FrameEnd(s)) = SubSeq(s, First(SP, s) + 1, FrameEnd(s))
  <2>1. First(SP, s) + 1 \in 1 .. Len(s) + 1 /\ FrameEnd(s) \in 0 .. Len(s)
    BY <1>1, <1>2
  <2> QED  BY <2>1, CutConcat
<1>5. Drop(u, FrameEnd(s)) = Drop(s, FrameEnd(s)) \o t
  <2>1. FrameEnd(s) \in 0 .. Len(s)
    BY <1>1, <1>2
  <2> QED  BY <2>1, DropConcat
<1> HIDE DEF u
<1>6. Counted(m, u)
  BY <1>1, <1>3, OctetAgrees
<1>7. Complete(m, u)
  BY <1>1, <1>2, <1>3, <1>6 DEF Complete
<1>8. NextMode(m, u) = m
  BY <1>3 DEF NextMode
<1> QED  BY <1>3, <1>4, <1>5, <1>6, <1>7, <1>8 DEF FrameOf, Wire, u

\* A line that is complete, with any bytes behind it.
LEMMA LfAhead ==
  ASSUME NEW m \in Modes, NEW s \in Seq(Alphabet), NEW t \in Seq(Alphabet),
         PassMode(m, s) = "Lf", Has(LF, s)
  PROVE  /\ Complete(m, s \o t) /\ NextMode(m, s \o t) = m
         /\ FrameOf(m, s \o t) =
              [kind |-> "lf", bytes |-> StripCR(SubSeq(s, 1, First(LF, s) - 1))]
         /\ Drop(s \o t, Wire(m, s \o t)) = Drop(s, First(LF, s)) \o t
<1> DEFINE u == s \o t
           e == First(LF, s) - 1
           n == IF e > 0 /\ u[e] = CR THEN e - 1 ELSE e
<1>1. /\ u \in Seq(Alphabet) /\ Len(s) \in Nat /\ \A i \in 1 .. Len(s) : u[i] = s[i]
  OBVIOUS
<1>2. Has(LF, u) /\ First(LF, u) = First(LF, s) /\ First(LF, s) \in 1 .. Len(s)
  BY FirstStable
<1>3. PassMode(m, u) = "Lf"
  BY PassStable
<1>4. Drop(u, First(LF, s)) = Drop(s, First(LF, s)) \o t
  <2>1. First(LF, s) \in 0 .. Len(s)
    BY <1>2
  <2> QED  BY <2>1, DropConcat
<1>5. Lined(m, u) /\ ~Counted(m, u) /\ NextMode(m, u) = m
  <2> HIDE DEF u
  <2> QED  BY <1>1, <1>3, LfAgrees
<1>6. e \in 0 .. Len(s) - 1
  BY <1>1, <1>2
<1>7. SubSeq(u, 1, n) = StripCR(SubSeq(s, 1, e))
  <2> HIDE DEF e
  <2> DEFINE w == SubSeq(s, 1, e)
  <2>1. /\ w \in Seq(Alphabet) /\ Len(w) = e /\ \A i \in 1 .. e : w[i] = s[i]
    BY <1>1, <1>6
  <2>2. SubSeq(u, 1, e) = w
    BY <1>6, CutConcat
  <2>3. CASE e = 0
    <3>1. w = <<>> /\ n = e
      BY <2>1, <2>3
    <3> QED  BY <2>2, <3>1 DEF StripCR
  <2>4. CASE e # 0
    <3>1. e > 0 /\ w # <<>> /\ w[Len(w)] = u[e] /\ e \in 1 .. Len(s)
      BY <1>1, <1>6, <2>1, <2>4
    <3>2. SubSeq(u, 1, e - 1) = SubSeq(w, 1, e - 1)
      <4>1. SubSeq(u, 1, e - 1) = SubSeq(s, 1, e - 1)
        BY <1>6, <2>4, CutConcat
      <4>2. SubSeq(w, 1, e - 1) = SubSeq(s, 1, e - 1)
        <5> HIDE DEF w
        <5>1. e - 1 \in Nat /\ e - 1 <= Len(s) /\ e - 1 <= Len(w)
          BY <1>6, <2>1, <2>4
        <5>2. \A i \in 1 .. e - 1 : w[i] = s[i]
          BY <2>1, <1>6
        <5> QED  BY <2>1, <5>1, <5>2
      <4> QED  BY <4>1, <4>2
    <3> HIDE DEF w, u
    <3> QED  BY <2>1, <2>2, <3>1, <3>2 DEF StripCR, w
  <2> QED  BY <2>3, <2>4
<1>8. FrameOf(m, u) = [kind |-> "lf", bytes |-> SubSeq(u, 1, n)]
  <2> HIDE DEF u
  <2> QED  BY <1>2, <1>5 DEF FrameOf
<1> HIDE DEF u, n
<1>9. Complete(m, u) /\ Wire(m, u) = First(LF, s)
  BY <1>2, <1>5 DEF Complete, Wire
<1> QED  BY <1>4, <1>5, <1>7, <1>8, <1>9 DEF u, e

\* Auto goes over to LF framing where the reference does.
LEMMA SwitchAhead ==
  ASSUME NEW s \in Seq(Alphabet), NEW t \in Seq(Alphabet),
         PassMode("Auto", s) = "Octet", ~CountedPrefix(s)
  PROVE  Frames[<<"Auto", s \o t>>] = Frames[<<"NonTransparent", s \o t>>]
<1> DEFINE u == s \o t
<1>1. u \in Seq(Alphabet)
  OBVIOUS
<1>2. Has(SP, s) /\ First(SP, s) > 1 /\ AllDigits(Prefix(s))
  BY DEF PassMode, Detect, Prefix
<1>3. /\ ~CountedPrefix(u) /\ Has(SP, u) /\ First(SP, u) > 1 /\ AllDigits(Prefix(u))
  BY <1>2, FirstStable, PrefixStable
<1> HIDE DEF u
<1>4. /\ "Auto" \in Modes /\ "NonTransparent" \in Modes
  BY DEF Modes
<1>5. /\ ~Counted("Auto", u) /\ ~Counted("NonTransparent", u)
      /\ Lined("Auto", u) /\ Lined("NonTransparent", u)
  BY <1>3 DEF Counted, Lined
<1>6. /\ Complete("Auto", u) = Complete("NonTransparent", u)
      /\ Wire("Auto", u) = Wire("NonTransparent", u)
      /\ FrameOf("Auto", u) = FrameOf("NonTransparent", u)
  BY <1>5 DEF Complete, Wire, FrameOf
<1>7. NextMode("Auto", u) = "NonTransparent" /\ NextMode("NonTransparent", u) = "NonTransparent"
  BY <1>3 DEF NextMode
<1>8. Frames[<<"Auto", u>>] = Frames[<<"NonTransparent", u>>]
  BY <1>1, <1>4, <1>6, <1>7, FramesIs
<1> QED  BY <1>8 DEF u

-----------------------------------------------------------------------------

\* With any bytes behind what was pushed, the frames are those decoded and then
\* those of the buffer in the present mode.
SameFrames ==
  status = "ok" /\ pc # "closed" =>
    \A t \in Seq(Alphabet) : Frames[<<framing, fed \o t>>] = out \o Frames[<<mode, buf \o t>>]

\* A call of push leaves no complete frame behind.
NothingWaits == status = "ok" /\ pc = "idle" => ~Complete(mode, buf)

ChunkInv == SameFrames /\ NothingWaits

LEMMA ConcatAssoc ==
  ASSUME NEW S, NEW a \in Seq(S), NEW b \in Seq(S), NEW c \in Seq(S)
  PROVE  (a \o b) \o c = a \o (b \o c)
  OBVIOUS

LEMMA AppendConcat ==
  ASSUME NEW S, NEW a \in Seq(S), NEW x \in S, NEW c \in Seq(S)
  PROVE  Append(a, x) \o c = a \o (<<x>> \o c)
  OBVIOUS

LEMMA BytesAssoc == \A a, b, c \in Seq(Alphabet) : (a \o b) \o c = a \o (b \o c)
<1> TAKE a, b, c \in Seq(Alphabet)
<1> QED  BY ConcatAssoc

LEMMA FrameAppend ==
  \A a \in Seq(Frame), x \in Frame, c \in Seq(Frame) : Append(a, x) \o c = a \o (<<x>> \o c)
<1> TAKE a \in Seq(Frame), x \in Frame, c \in Seq(Frame)
<1> QED  BY AppendConcat

\* Handing out the first frame.
LEMMA EmitAhead ==
  ASSUME TypeOK, SameFrames, status = "ok", pc = "drain",
         NEW STATE fr, NEW STATE rest, rest \in Seq(Alphabet),
         \A t \in Seq(Alphabet) :
           /\ Complete(mode, buf \o t) /\ NextMode(mode, buf \o t) = mode
           /\ FrameOf(mode, buf \o t) = fr
           /\ Drop(buf \o t, Wire(mode, buf \o t)) = rest \o t,
         out' = Append(out, fr), buf' = rest,
         UNCHANGED <<framing, mode, fed, pc, status>>
  PROVE  ChunkInv'
<1>1. ASSUME NEW t \in Seq(Alphabet)
      PROVE  Frames[<<framing, fed \o t>>] = out' \o Frames[<<mode, rest \o t>>]
  <2> DEFINE u == buf \o t
             v == rest \o t
  <2>1. u \in Seq(Alphabet) /\ v \in Seq(Alphabet) /\ mode \in Modes /\ out \in Seq(Frame)
    BY DEF TypeOK
  <2>2. /\ Complete(mode, u) /\ NextMode(mode, u) = mode
        /\ FrameOf(mode, u) = fr /\ Drop(u, Wire(mode, u)) = v
    OBVIOUS
  <2>3. Frames[<<framing, fed \o t>>] = out \o Frames[<<mode, u>>]
    BY DEF SameFrames
  <2> HIDE DEF u, v
  <2>4. Frames[<<mode, u>>] = <<fr>> \o Frames[<<mode, v>>]
    BY <2>1, <2>2, FramesIs, ZenonT(30)
  <2>5. fr \in Frame /\ Frames[<<mode, v>>] \in Seq(Frame)
    BY <2>1, <2>2, FrameOfType, FramesIs
  <2>6. Append(out, fr) \o Frames[<<mode, v>>] = out \o (<<fr>> \o Frames[<<mode, v>>])
    <3> DEFINE w == Frames[<<mode, v>>]
    <3>1. w \in Seq(Frame)
      BY <2>5
    <3> HIDE DEF w
    <3>2. Append(out, fr) \o w = out \o (<<fr>> \o w)
      BY <2>1, <2>5, <3>1, FrameAppend, Zenon
    <3> QED  BY <3>2 DEF w
  <2> QED  BY <2>3, <2>4, <2>6 DEF v
<1>2. SameFrames'
  BY <1>1 DEF SameFrames
<1>3. NothingWaits'
  BY DEF NothingWaits
<1> QED  BY <1>2, <1>3 DEF ChunkInv

LEMMA EmptyBehind ==
  ASSUME NEW S, NEW a \in Seq(S)
  PROVE  a \o <<>> = a
  OBVIOUS

\* Every step of the decoder keeps the frames those of the whole stream.
LEMMA ChunkStep ==
  ASSUME TypeOK, ChunkInv, [Next]_vars
  PROVE  ChunkInv'
<1>0. /\ mode \in Modes /\ buf \in Seq(Alphabet) /\ fed \in Seq(Alphabet) /\ out \in Seq(Frame)
      /\ Len(buf) \in Nat
  BY DEF TypeOK
<1>1. ASSUME NEW chunk \in Chunks, Push(chunk) PROVE ChunkInv'
  <2>1. chunk \in Seq(Alphabet)
    <3>1. PICK n \in 1 .. MaxChunk : chunk \in [1 .. n -> Alphabet]
      BY DEF Chunks
    <3>2. n \in Nat
      BY DecoderAssumption
    <3> QED  BY <3>1, <3>2, SeqDef
  <2>2. /\ pc = "idle" /\ status = "ok" /\ pc' = "drain"
        /\ buf' = buf \o chunk /\ fed' = fed \o chunk /\ UNCHANGED <<framing, mode, out, status>>
    BY <1>1 DEF Push
  <2>3. ASSUME NEW t \in Seq(Alphabet)
        PROVE  Frames[<<framing, fed' \o t>>] = out \o Frames[<<mode, buf' \o t>>]
    <3> DEFINE v == chunk \o t
    <3>1. v \in Seq(Alphabet) /\ fed' \o t = fed \o v /\ buf' \o t = buf \o v
      <4>1. v \in Seq(Alphabet)
        BY <2>1
      <4>2. (fed \o chunk) \o t = fed \o v /\ (buf \o chunk) \o t = buf \o v
        BY <1>0, <2>1, BytesAssoc, ZenonT(30)
      <4> QED  BY <2>2, <4>1, <4>2
    <3> HIDE DEF v
    <3>2. Frames[<<framing, fed \o v>>] = out \o Frames[<<mode, buf \o v>>]
      BY <2>2, <3>1 DEF ChunkInv, SameFrames
    <3> QED  BY <3>1, <3>2
  <2> QED  BY <2>2, <2>3 DEF ChunkInv, SameFrames, NothingWaits
<1>2. ASSUME pc = "drain", Wait, ~Complete(mode, buf) PROVE ChunkInv'
  BY <1>2 DEF Wait, ChunkInv, SameFrames, NothingWaits
<1>3. ASSUME Undecided PROVE ChunkInv'
  <2>1. mode = "Auto" /\ ~Has(SP, buf)
    BY <1>0, <1>3 DEF Undecided, PassMode, Detect, Modes
  <2>2. ~Complete(mode, buf)
    BY <2>1 DEF Complete, Counted, Lined, CountedPrefix
  <2> QED  BY <1>2, <1>3, <2>2 DEF Undecided
<1>4. ASSUME PassMode(mode, buf) = "Octet", ~CountedPrefix(buf), mode # "Auto"
      PROVE  ~Complete(mode, buf)
  <2>1. mode = "OctetCounting"
    BY <1>0, <1>4 DEF PassMode, Modes
  <2> QED  BY <1>4, <2>1 DEF Complete, Counted, Lined
<1>5. ASSUME OctetNoSpace PROVE ChunkInv'
  <2>1. mode # "Auto" /\ ~CountedPrefix(buf) /\ PassMode(mode, buf) = "Octet"
    BY <1>5 DEF OctetNoSpace, PassMode, Detect, CountedPrefix
  <2> QED  BY <1>2, <1>4, <1>5, <2>1 DEF OctetNoSpace
<1>6. ASSUME OctetBadLength PROVE ChunkInv'
  <2>1. pc = "drain" /\ PassMode(mode, buf) = "Octet" /\ ~CountedPrefix(buf)
    BY <1>6 DEF OctetBadLength, CountedPrefix
  <2>2. CASE mode # "Auto"
    <3>1. Wait
      BY <1>6, <2>2 DEF OctetBadLength
    <3> QED  BY <1>2, <1>4, <2>1, <2>2, <3>1
  <2>3. CASE mode = "Auto"
    <3>1. mode' = "NonTransparent" /\ UNCHANGED <<framing, buf, out, fed, pc, status>>
      BY <1>6, <2>3 DEF OctetBadLength
    <3>2. \A t \in Seq(Alphabet) : Frames[<<mode, buf \o t>>] = Frames[<<mode', buf \o t>>]
      BY <1>0, <2>1, <2>3, <3>1, SwitchAhead
    <3>3. SameFrames'
      BY <3>1, <3>2 DEF ChunkInv, SameFrames
    <3>4. NothingWaits'
      BY <2>1, <3>1 DEF NothingWaits
    <3> QED  BY <3>3, <3>4 DEF ChunkInv
  <2> QED  BY <2>2, <2>3
<1>7. ASSUME OctetTooLarge \/ LfTooLarge PROVE ChunkInv'
  <2>1. status' = "too_large"
    BY <1>7 DEF OctetTooLarge, LfTooLarge, Reject
  <2> QED  BY <2>1 DEF ChunkInv, SameFrames, NothingWaits
<1>8. ASSUME OctetIncomplete PROVE ChunkInv'
  <2>1. /\ pc = "drain" /\ PassMode(mode, buf) = "Octet" /\ CountedPrefix(buf)
        /\ Len(buf) < FrameEnd(buf)
    BY <1>8 DEF OctetIncomplete, OctetPass, CountedPrefix
  <2>2. ~Lined(mode, buf)
    BY <1>0, <2>1, OctetAgrees
  <2>3. FrameEnd(buf) \in Nat
    BY <1>0, <2>1, FrameEndFacts
  <2>4. ~Complete(mode, buf)
    BY <1>0, <2>1, <2>2, <2>3 DEF Complete
  <2> QED  BY <1>2, <1>8, <2>1, <2>4 DEF OctetIncomplete
<1>9. ASSUME OctetFrame PROVE ChunkInv'
  <2> DEFINE fr == [kind |-> "octet", bytes |-> SubSeq(buf, First(SP, buf) + 1, FrameEnd(buf))]
             rest == Drop(buf, FrameEnd(buf))
  <2>1. /\ pc = "drain" /\ PassMode(mode, buf) = "Octet" /\ CountedPrefix(buf)
        /\ FrameEnd(buf) <= Len(buf) /\ out' = Append(out, fr) /\ buf' = rest
        /\ UNCHANGED <<framing, mode, fed, pc, status>>
    <3>1. FrameEnd(buf) \in Nat
      BY <1>0, <1>9, FrameEndFacts DEF OctetFrame, OctetPass, CountedPrefix
    <3> QED  BY <1>0, <1>9, <3>1 DEF OctetFrame, OctetPass, CountedPrefix, Emit
  <2>2. CASE status = "ok"
    <3>1. rest \in Seq(Alphabet)
      <4>1. FrameEnd(buf) \in 0 .. Len(buf)
        BY <1>0, <2>1, FrameEndFacts
      <4> QED  BY <1>0, <4>1, DropFacts
    <3>2. \A t \in Seq(Alphabet) :
            /\ Complete(mode, buf \o t) /\ NextMode(mode, buf \o t) = mode
            /\ FrameOf(mode, buf \o t) = fr
            /\ Drop(buf \o t, Wire(mode, buf \o t)) = rest \o t
      BY <1>0, <2>1, OctetAhead
    <3> HIDE DEF fr, rest
    <3> QED  BY <2>1, <2>2, <3>1, <3>2, EmitAhead DEF ChunkInv
  <2>3. CASE status # "ok"
    BY <2>1, <2>3 DEF ChunkInv, SameFrames, NothingWaits
  <2> QED  BY <2>2, <2>3
<1>10. ASSUME LfFrame PROVE ChunkInv'
  <2> DEFINE fr == [kind |-> "lf", bytes |-> StripCR(SubSeq(buf, 1, First(LF, buf) - 1))]
             rest == Drop(buf, First(LF, buf))
  <2>1. /\ pc = "drain" /\ PassMode(mode, buf) = "Lf" /\ Has(LF, buf)
        /\ out' = Append(out, fr) /\ buf' = rest
        /\ UNCHANGED <<framing, mode, fed, pc, status>>
    BY <1>10 DEF LfFrame, LfPass, Emit
  <2>2. CASE status = "ok"
    <3>1. rest \in Seq(Alphabet)
      <4>1. First(LF, buf) \in 0 .. Len(buf)
        BY <1>0, <2>1, BytesAreInts, FirstFacts
      <4> QED  BY <1>0, <4>1, DropFacts
    <3>2. \A t \in Seq(Alphabet) :
            /\ Complete(mode, buf \o t) /\ NextMode(mode, buf \o t) = mode
            /\ FrameOf(mode, buf \o t) = fr
            /\ Drop(buf \o t, Wire(mode, buf \o t)) = rest \o t
      BY <1>0, <2>1, LfAhead
    <3> HIDE DEF fr, rest
    <3> QED  BY <2>1, <2>2, <3>1, <3>2, EmitAhead DEF ChunkInv
  <2>3. CASE status # "ok"
    BY <2>1, <2>3 DEF ChunkInv, SameFrames, NothingWaits
  <2> QED  BY <2>2, <2>3
<1>11. ASSUME LfWait PROVE ChunkInv'
  <2>1. pc = "drain" /\ PassMode(mode, buf) = "Lf" /\ ~Has(LF, buf) /\ Wait
    BY <1>11 DEF LfWait, LfPass
  <2>2. ~Counted(mode, buf)
    BY <1>0, <2>1, LfAgrees
  <2> QED  BY <1>2, <2>1, <2>2 DEF Complete
<1>12. ASSUME Flush PROVE ChunkInv'
  BY <1>12 DEF Flush, ChunkInv, SameFrames, NothingWaits
<1>13. ASSUME UNCHANGED vars PROVE ChunkInv'
  BY <1>13 DEF vars, ChunkInv, SameFrames, NothingWaits
<1> QED  BY <1>1, <1>3, <1>5, <1>6, <1>7, <1>8, <1>9, <1>10, <1>11, <1>12, <1>13
         DEF Next, Drain, Closed

\* After every accepted push the frames decoded are those of the whole stream read
\* in one piece, however it was cut into chunks.
THEOREM ChunksDoNotMatter == Spec => []ChunkingIrrelevant
<1>1. Init => ChunkInv
  <2> SUFFICES ASSUME Init PROVE ChunkInv
    OBVIOUS
  <2>1. /\ mode = framing /\ mode \in Modes /\ buf = <<>> /\ fed = <<>> /\ out = <<>>
        /\ <<>> \in Seq(Alphabet)
    BY DecoderAssumption DEF Init, Modes
  <2>2. ASSUME NEW t \in Seq(Alphabet)
        PROVE  Frames[<<framing, fed \o t>>] = out \o Frames[<<mode, buf \o t>>]
    <3>1. <<>> \o t = t
      OBVIOUS
    <3>2. Frames[<<mode, t>>] \in Seq(Frame)
      BY <2>1, FramesIs
    <3> DEFINE w == Frames[<<mode, t>>]
    <3>3. <<>> \o w = w
      <4>1. w \in Seq(Frame)
        BY <3>2
      <4> HIDE DEF w
      <4> QED  BY <4>1
    <3> QED  BY <2>1, <3>1, <3>3
  <2>3. ~Complete(mode, buf)
    <3>1. \A b : ~Has(b, buf)
      BY <2>1 DEF Has
    <3> QED  BY <3>1 DEF Complete, Counted, Lined, CountedPrefix
  <2> QED  BY <2>2, <2>3 DEF ChunkInv, SameFrames, NothingWaits
<1>2. TypeOK /\ ChunkInv /\ [Next]_vars => ChunkInv'
  BY ChunkStep
<1>3. TypeOK /\ ChunkInv => ChunkingIrrelevant
  <2> SUFFICES ASSUME TypeOK, ChunkInv, pc = "idle", status = "ok"
               PROVE  out = Frames[<<framing, fed>>]
    BY DEF ChunkingIrrelevant
  <2>1. mode \in Modes /\ buf \in Seq(Alphabet) /\ fed \in Seq(Alphabet) /\ out \in Seq(Frame)
    BY DEF TypeOK
  <2>2. fed \o <<>> = fed /\ buf \o <<>> = buf /\ out \o <<>> = out
    BY <2>1, EmptyBehind
  <2>3. Frames[<<framing, fed \o <<>> >>] = out \o Frames[<<mode, buf \o <<>> >>]
    <3>1. <<>> \in Seq(Alphabet)
      OBVIOUS
    <3> QED  BY <3>1, Zenon DEF ChunkInv, SameFrames
  <2>4. Frames[<<mode, buf>>] = <<>>
    BY <2>1, FramesIs DEF ChunkInv, NothingWaits
  <2> QED  BY <2>2, <2>3, <2>4
<1> QED  BY <1>1, <1>2, <1>3, DecoderTypeCorrect, PTL DEF Spec

-----------------------------------------------------------------------------
(***************************************************************************)
(* Every byte is accounted for.  The invariant is the property itself: a   *)
(* pass that hands out a frame adds one cut behind the last one, a push    *)
(* adds bytes behind all cuts, and a rejection leaves the cuts alone.      *)
(***************************************************************************)

EndOf(cut, i) == IF i = 0 THEN 0 ELSE cut[i]

Spells(cut, fs, s) ==
  \A i \in 1 .. Len(fs) : Encodes(fs[i], SubSeq(s, EndOf(cut, i - 1) + 1, EndOf(cut, i)))

Behind(cut, fs, s) == SubSeq(s, EndOf(cut, Len(fs)) + 1, Len(s))

\* StreamAccounted of frames fs, stream s, status st, buffer b and mode m.
Accounts(fs, s, st, b, m) ==
  \E cut \in [1 .. Len(fs) -> 1 .. Len(s)] :
    /\ Spells(cut, fs, s)
    /\ IF st = "ok" THEN b = Behind(cut, fs, s)
       ELSE b = <<>> /\ TooLarge(m, Behind(cut, fs, s))

LEMMA AccountsIs == StreamAccounted <=> Accounts(out, fed, status, buf, mode)
  BY Zenon DEF StreamAccounted, Accounts, Spells, Behind, EndOf

\* A part of a part.
LEMMA PartOfPart ==
  ASSUME NEW s \in Seq(Alphabet), NEW e \in 0 .. Len(s),
         NEW i \in Nat \ {0}, NEW j \in Nat, i <= j + 1, e + j <= Len(s)
  PROVE  SubSeq(SubSeq(s, e + 1, Len(s)), i, j) = SubSeq(s, e + i, e + j)
<1> DEFINE b == SubSeq(s, e + 1, Len(s))
           x == SubSeq(b, i, j)
           y == SubSeq(s, e + i, e + j)
<1>1. /\ b \in Seq(Alphabet) /\ Len(b) = Len(s) - e /\ Len(s) \in Nat
      /\ \A k \in 1 .. Len(s) - e : b[k] = s[e + k]
  BY DropFacts DEF Drop
<1> HIDE DEF b
<1>2. /\ x \in Seq(Alphabet) /\ Len(x) = j - i + 1
      /\ \A k \in 1 .. j - i + 1 : x[k] = b[i + k - 1]
  BY <1>1
<1>3. /\ y \in Seq(Alphabet) /\ Len(y) = j - i + 1
      /\ \A k \in 1 .. j - i + 1 : y[k] = s[e + i + k - 1]
  BY <1>1
<1> HIDE DEF x, y
<1>4. ASSUME NEW k \in 1 .. j - i + 1 PROVE x[k] = y[k]
  <2>1. i + k - 1 \in 1 .. Len(s) - e /\ e + (i + k - 1) = e + i + k - 1
    BY <1>1
  <2>2. b[i + k - 1] = s[e + (i + k - 1)]
    BY <1>1, <2>1
  <2> QED  BY <1>2, <1>3, <2>1, <2>2
<1>5. x = y
  BY <1>2, <1>3, <1>4
<1> QED  BY <1>5 DEF x, y, b

\* One more frame, the bytes of which are the first ones of the buffer.
LEMMA OneMoreFrame ==
  ASSUME NEW fs \in Seq(Frame), NEW s \in Seq(Alphabet), NEW b \in Seq(Alphabet),
         NEW m, NEW m2, Accounts(fs, s, "ok", b, m),
         NEW n \in 1 .. Len(b), NEW f \in Frame, Encodes(f, SubSeq(b, 1, n))
  PROVE  Accounts(Append(fs, f), s, "ok", Drop(b, n), m2)
<1>1. PICK cut \in [1 .. Len(fs) -> 1 .. Len(s)] :
        Spells(cut, fs, s) /\ b = Behind(cut, fs, s)
  BY DEF Accounts
<1> DEFINE l == Len(fs)
           e == EndOf(cut, l)
           gs == Append(fs, f)
           new == [i \in 1 .. l + 1 |-> IF i = l + 1 THEN e + n ELSE cut[i]]
<1>2. /\ l \in Nat /\ Len(s) \in Nat /\ Len(b) \in Nat
      /\ gs \in Seq(Frame) /\ Len(gs) = l + 1 /\ gs[l + 1] = f
      /\ \A i \in 1 .. l : gs[i] = fs[i]
  OBVIOUS
<1>3. e \in 0 .. Len(s)
  BY <1>2 DEF EndOf
<1>4. b = SubSeq(s, e + 1, Len(s)) /\ Len(b) = Len(s) - e
  <2>1. b = SubSeq(s, e + 1, Len(s))
    BY <1>1 DEF Behind
  <2> HIDE DEF e
  <2> QED  BY <1>3, <2>1, DropFacts DEF Drop
<1> HIDE DEF l, gs
<1>5. /\ e + n \in 1 .. Len(s)
      /\ new \in [1 .. l + 1 -> 1 .. Len(s)]
  <2>1. e + n \in 1 .. Len(s)
    <3> HIDE DEF e
    <3> QED  BY <1>2, <1>3, <1>4
  <2>2. ASSUME NEW i \in 1 .. l + 1, i # l + 1 PROVE cut[i] \in 1 .. Len(s)
    <3> HIDE DEF e, new
    <3>1. i \in 1 .. l
      BY <1>2, <2>2
    <3>2. i \in 1 .. Len(fs)
      BY <3>1, Zenon DEF l
    <3> QED  BY <3>2
  <2> HIDE DEF e
  <2> QED  BY <2>1, <2>2
<1>6. /\ EndOf(new, l + 1) = e + n
      /\ \A i \in 0 .. l : EndOf(new, i) = EndOf(cut, i)
  <2> HIDE DEF e
  <2> QED  BY <1>2 DEF EndOf
<1> HIDE DEF new
<1>7. /\ SubSeq(s, e + 1, e + n) = SubSeq(b, 1, n)
      /\ SubSeq(s, e + n + 1, Len(s)) = Drop(b, n)
  <2> HIDE DEF e
  <2>1. /\ 1 \in Nat \ {0} /\ n \in Nat /\ 1 <= n + 1 /\ e + n <= Len(s)
        /\ n + 1 \in Nat \ {0} /\ Len(b) \in Nat /\ n + 1 <= Len(b) + 1 /\ e + Len(b) = Len(s)
    BY <1>2, <1>3, <1>4
  <2>2. SubSeq(b, 1, n) = SubSeq(s, e + 1, e + n)
    BY <1>3, <1>4, <2>1, PartOfPart
  <2>3. SubSeq(b, n + 1, Len(b)) = SubSeq(s, e + (n + 1), e + Len(b))
    BY <1>3, <1>4, <2>1, PartOfPart
  <2>4. e + (n + 1) = e + n + 1
    BY <1>3
  <2> QED  BY <2>1, <2>2, <2>3, <2>4 DEF Drop
<1>8. ASSUME NEW i \in 1 .. Len(gs)
      PROVE  Encodes(gs[i], SubSeq(s, EndOf(new, i - 1) + 1, EndOf(new, i)))
  <2>1. CASE i = l + 1
    <3>1. i - 1 = l /\ l \in 0 .. l
      BY <1>2, <2>1
    <3>2. EndOf(new, i - 1) = e /\ EndOf(new, i) = e + n /\ gs[i] = f
      BY <1>2, <1>6, <2>1, <3>1
    <3> QED  BY <1>7, <3>2
  <2>2. CASE i # l + 1
    <3>1. i \in 1 .. l /\ i \in 0 .. l /\ i - 1 \in 0 .. l
      BY <1>2, <2>2
    <3>2. EndOf(new, i - 1) = EndOf(cut, i - 1) /\ EndOf(new, i) = EndOf(cut, i) /\ gs[i] = fs[i]
      BY <1>2, <1>6, <3>1
    <3>3. Encodes(fs[i], SubSeq(s, EndOf(cut, i - 1) + 1, EndOf(cut, i)))
      BY <1>1, <3>1 DEF Spells, l
    <3> QED  BY <3>2, <3>3
  <2> QED  BY <2>1, <2>2
<1>9. Spells(new, gs, s)
  BY <1>8 DEF Spells
<1>10. Drop(b, n) = Behind(new, gs, s)
  BY <1>2, <1>6, <1>7 DEF Behind
<1>11. Accounts(gs, s, "ok", Drop(b, n), m2)
  BY <1>2, <1>5, <1>9, <1>10 DEF Accounts
<1> QED  BY <1>11 DEF gs

\* More bytes behind all frames.
LEMMA MoreBytes ==
  ASSUME NEW fs \in Seq(Frame), NEW s \in Seq(Alphabet), NEW b \in Seq(Alphabet),
         NEW t \in Seq(Alphabet), NEW m, Accounts(fs, s, "ok", b, m)
  PROVE  Accounts(fs, s \o t, "ok", b \o t, m)
<1>1. PICK cut \in [1 .. Len(fs) -> 1 .. Len(s)] :
        Spells(cut, fs, s) /\ b = Behind(cut, fs, s)
  BY DEF Accounts
<1> DEFINE u == s \o t
<1>2. /\ u \in Seq(Alphabet) /\ Len(u) = Len(s) + Len(t)
      /\ Len(s) \in Nat /\ Len(t) \in Nat /\ Len(fs) \in Nat
  OBVIOUS
<1>3. \A i \in 0 .. Len(fs) : EndOf(cut, i) \in 0 .. Len(s)
  BY <1>2 DEF EndOf
<1>4. \A a, c \in 0 .. Len(s) : SubSeq(u, a + 1, c) = SubSeq(s, a + 1, c)
  <2> SUFFICES ASSUME NEW a \in 0 .. Len(s), NEW c \in 0 .. Len(s)
               PROVE  SubSeq(u, a + 1, c) = SubSeq(s, a + 1, c)
    OBVIOUS
  <2>1. a + 1 \in 1 .. Len(s) + 1
    BY <1>2
  <2> QED  BY <2>1, CutConcat
<1>5. Spells(cut, fs, u)
  <2> SUFFICES ASSUME NEW i \in 1 .. Len(fs)
               PROVE  Encodes(fs[i], SubSeq(u, EndOf(cut, i - 1) + 1, EndOf(cut, i)))
    BY DEF Spells
  <2>1. EndOf(cut, i - 1) \in 0 .. Len(s) /\ EndOf(cut, i) \in 0 .. Len(s)
    BY <1>2, <1>3
  <2>2. SubSeq(u, EndOf(cut, i - 1) + 1, EndOf(cut, i))
          = SubSeq(s, EndOf(cut, i - 1) + 1, EndOf(cut, i))
    BY <1>4, <2>1
  <2>3. Encodes(fs[i], SubSeq(s, EndOf(cut, i - 1) + 1, EndOf(cut, i)))
    BY <1>1 DEF Spells
  <2> QED  BY <2>2, <2>3
<1>6. b \o t = Behind(cut, fs, u)
  <2> DEFINE e == EndOf(cut, Len(fs))
  <2>1. e \in 0 .. Len(s)
    BY <1>2, <1>3
  <2> HIDE DEF e
  <2>2. Drop(u, e) = Drop(s, e) \o t
    BY <2>1, DropConcat
  <2> QED  BY <1>1, <2>2 DEF Behind, Drop, e
<1>7. cut \in [1 .. Len(fs) -> 1 .. Len(u)]
  <2> HIDE DEF u
  <2> QED  BY <1>2
<1> HIDE DEF u
<1>8. Accounts(fs, u, "ok", b \o t, m)
  BY <1>5, <1>6, <1>7 DEF Accounts
<1> QED  BY <1>8 DEF u

\* What is thrown away is the buffer.
LEMMA Rejection ==
  ASSUME NEW fs, NEW s, NEW b, NEW m, Accounts(fs, s, "ok", b, m), TooLarge(m, b)
  PROVE  Accounts(fs, s, "too_large", <<>>, m)
  BY Zenon DEF Accounts

\* An octet-counted frame and the bytes drained with it.
LEMMA OctetEncodes ==
  ASSUME NEW s \in Seq(Alphabet), CountedPrefix(s), FrameEnd(s) <= Len(s)
  PROVE  /\ FrameEnd(s) \in 1 .. Len(s)
         /\ Encodes([kind |-> "octet", bytes |-> SubSeq(s, First(SP, s) + 1, FrameEnd(s))],
                    SubSeq(s, 1, FrameEnd(s)))
<1> DEFINE k == First(SP, s)
           n == FrameEnd(s)
           w == SubSeq(s, 1, n)
           b == SubSeq(s, k + 1, n)
<1>1. k \in 1 .. Len(s) /\ n \in Nat /\ n >= k /\ Len(s) \in Nat /\ n <= Len(s)
  BY FrameEndFacts
<1>2. s[k] = SP /\ Prefix(s) = SubSeq(s, 1, k - 1) /\ ParsesUsize(Prefix(s))
  BY BytesAreInts, FirstFacts DEF Prefix, CountedPrefix
<1>3. Decimal(Significant(Prefix(s))) = n - k
  <2>1. Announced(s) \in Nat
    BY DecoderAssumption DEF CountedPrefix, ParsesUsize, Announced
  <2>2. n = k + Announced(s)
    BY DEF FrameEnd
  <2> HIDE DEF n, k
  <2>3. Announced(s) = n - k
    BY <1>1, <2>1, <2>2
  <2> QED  BY <2>3 DEF Announced
<1> HIDE DEF k, n
<1>4. /\ w \in Seq(Alphabet) /\ Len(w) = n /\ w[k] = s[k]
      /\ SubSeq(w, 1, k - 1) = SubSeq(s, 1, k - 1)
      /\ SubSeq(w, k + 1, Len(w)) = b
      /\ Len(b) = n - k
  <2> DEFINE x == SubSeq(w, 1, k - 1)
             y == SubSeq(s, 1, k - 1)
             z == SubSeq(w, k + 1, n)
  <2>1. w \in Seq(Alphabet) /\ Len(w) = n /\ \A i \in 1 .. n : w[i] = s[i]
    BY <1>1
  <2>2. b \in Seq(Alphabet) /\ Len(b) = n - k /\ \A i \in 1 .. n - k : b[i] = s[k + i]
    BY <1>1
  <2>3. y \in Seq(Alphabet) /\ Len(y) = k - 1 /\ \A i \in 1 .. k - 1 : y[i] = s[i]
    BY <1>1
  <2> HIDE DEF w
  <2>4. x \in Seq(Alphabet) /\ Len(x) = k - 1 /\ \A i \in 1 .. k - 1 : x[i] = w[i]
    BY <1>1, <2>1
  <2>5. z \in Seq(Alphabet) /\ Len(z) = n - k /\ \A i \in 1 .. n - k : z[i] = w[k + i]
    BY <1>1, <2>1
  <2> HIDE DEF b, x, y, z
  <2>6. x = y
    BY <1>1, <2>1, <2>3, <2>4
  <2>7. z = b
    BY <1>1, <2>1, <2>2, <2>5
  <2>8. w[k] = s[k]
    BY <1>1, <2>1
  <2> QED  BY <2>1, <2>2, <2>6, <2>7, <2>8 DEF x, y, z
<1> HIDE DEF w, b
<1> DEFINE f == [kind |-> "octet", bytes |-> b]
<1>5. /\ f.kind = "octet" /\ f.bytes = b /\ k \in 1 .. Len(w) /\ w[k] = SP
      /\ ParsesUsize(SubSeq(w, 1, k - 1))
      /\ Decimal(Significant(SubSeq(w, 1, k - 1))) = Len(f.bytes)
      /\ f.bytes = SubSeq(w, k + 1, Len(w))
  <2>1. f.kind = "octet" /\ f.bytes = b
    OBVIOUS
  <2> HIDE DEF f
  <2>2. k \in 1 .. Len(w)
    BY <1>1, <1>4
  <2>3. SubSeq(w, 1, k - 1) = Prefix(s)
    BY <1>2, <1>4, Zenon
  <2> QED  BY <1>2, <1>3, <1>4, <2>1, <2>2, <2>3, Zenon
<1> HIDE DEF f
<1>6. Encodes(f, w)
  BY <1>5, Zenon DEF Encodes
<1>7. n \in 1 .. Len(s)
  BY <1>1
<1> QED  BY <1>6, <1>7 DEF f, w, b, n, k

\* The places of a concatenation with two more bytes.
LEMMA TwoMore ==
  ASSUME NEW a \in Seq(Alphabet), NEW t \in Seq(Alphabet), Len(t) = 2
  PROVE  /\ a \o t \in Seq(Alphabet) /\ Len(a \o t) = Len(a) + 2
         /\ \A i \in 1 .. Len(a) : (a \o t)[i] = a[i]
         /\ (a \o t)[Len(a) + 1] = t[1] /\ (a \o t)[Len(a) + 2] = t[2]
<1> DEFINE z == a \o t
<1>1. Len(a) \in Nat /\ Len(t) \in Nat
  OBVIOUS
<1>2. /\ z \in Seq(Alphabet) /\ Len(z) = Len(a) + Len(t)
      /\ \A i \in 1 .. Len(a) + Len(t) : z[i] = IF i <= Len(a) THEN a[i] ELSE t[i - Len(a)]
  BY ConcatProperties, Zenon
<1> HIDE DEF z
<1>3. z[Len(a) + 1] = t[1]
  BY <1>1, <1>2
<1>4. z[Len(a) + 2] = t[2]
  BY <1>1, <1>2
<1>5. \A i \in 1 .. Len(a) : z[i] = a[i]
  BY <1>1, <1>2
<1> QED  BY <1>2, <1>3, <1>4, <1>5 DEF z

\* A line and the bytes drained with it.
LEMMA LfEncodes ==
  ASSUME NEW s \in Seq(Alphabet), Has(LF, s)
  PROVE  /\ First(LF, s) \in 1 .. Len(s)
         /\ Encodes([kind |-> "lf", bytes |-> StripCR(SubSeq(s, 1, First(LF, s) - 1))],
                    SubSeq(s, 1, First(LF, s)))
<1> DEFINE k == First(LF, s)
           w == SubSeq(s, 1, k)
           line == SubSeq(s, 1, k - 1)
           b == StripCR(line)
<1>1. k \in 1 .. Len(s) /\ s[k] = LF /\ Len(s) \in Nat /\ \A j \in 1 .. k - 1 : s[j] # LF
  BY BytesAreInts, FirstFacts
<1> HIDE DEF k
<1>2. /\ w \in Seq(Alphabet) /\ Len(w) = k /\ \A i \in 1 .. k : w[i] = s[i]
      /\ line \in Seq(Alphabet) /\ Len(line) = k - 1 /\ \A i \in 1 .. k - 1 : line[i] = s[i]
      /\ LF \in Alphabet
  BY <1>1
<1> HIDE DEF w
<1> DEFINE f == [kind |-> "lf", bytes |-> b]
<1>3. CASE line # <<>> /\ line[Len(line)] = CR
  <2> HIDE DEF line
  <2>1. b = SubSeq(line, 1, Len(line) - 1)
    BY <1>3 DEF StripCR
  <2>2. k > 1 /\ s[k - 1] = CR /\ CR \in Alphabet
    BY <1>1, <1>2, <1>3
  <2>3. /\ b \in Seq(Alphabet) /\ Len(b) = k - 2 /\ \A i \in 1 .. k - 2 : b[i] = s[i]
    BY <1>1, <1>2, <2>1, <2>2
  <2> HIDE DEF b
  <2>4. w = b \o <<CR, LF>>
    <3> DEFINE t == <<CR, LF>>
               z == b \o t
    <3> HIDE DEF f
    <3>0. t \in Seq(Alphabet) /\ Len(t) = 2 /\ t[1] = CR /\ t[2] = LF
      BY <1>2, <2>2
    <3> HIDE DEF t
    <3>1. /\ z \in Seq(Alphabet) /\ Len(z) = Len(b) + 2
          /\ \A i \in 1 .. Len(b) : z[i] = b[i]
          /\ z[Len(b) + 1] = CR /\ z[Len(b) + 2] = LF
      BY <2>3, <3>0, TwoMore, Zenon
    <3> HIDE DEF z
    <3>2. Len(z) = k /\ z[k - 1] = CR /\ z[k] = LF /\ \A i \in 1 .. k - 2 : z[i] = s[i]
      BY <1>1, <2>2, <2>3, <3>1
    <3>3. ASSUME NEW i \in 1 .. k PROVE w[i] = z[i]
      BY <1>1, <1>2, <2>2, <3>2
    <3>4. w = z
      BY <1>2, <3>1, <3>2, <3>3
    <3> QED  BY <3>4 DEF z, t
  <2>5. ~Has(LF, b)
    BY <1>1, <2>3 DEF Has
  <2>6. f.kind = "lf" /\ f.bytes = b
    OBVIOUS
  <2> HIDE DEF f
  <2> QED  BY <2>4, <2>5, <2>6, <1>1, Zenon DEF Encodes, f, b, w, k, line
<1>4. CASE ~(line # <<>> /\ line[Len(line)] = CR)
  <2> HIDE DEF line
  <2>1. b = line
    BY <1>4 DEF StripCR
  <2> HIDE DEF b
  <2>2. w = b \o <<LF>>
    BY <1>1, <1>2, <2>1
  <2>3. ~Has(LF, b)
    BY <1>1, <1>2, <2>1 DEF Has
  <2>4. f.kind = "lf" /\ f.bytes = b /\ (b # <<>> => b[Len(b)] # CR)
    BY <1>4, <2>1
  <2> HIDE DEF f
  <2> QED  BY <2>2, <2>3, <2>4, <1>1, Zenon DEF Encodes, f, b, w, k, line
<1> QED  BY <1>3, <1>4

\* Bytes are drained only while the status is ok.
AccountInv == StreamAccounted /\ (pc = "drain" => status = "ok")

\* Every step of the decoder accounts for the bytes it moves.
LEMMA AccountStep ==
  ASSUME TypeOK, AccountInv, [Next]_vars
  PROVE  AccountInv'
<1>0. /\ mode \in Modes /\ buf \in Seq(Alphabet) /\ fed \in Seq(Alphabet) /\ out \in Seq(Frame)
      /\ status \in {"ok", "too_large"}
      /\ Accounts(out, fed, status, buf, mode) /\ (pc = "drain" => status = "ok")
  BY AccountsIs DEF TypeOK, AccountInv
<1>00. (StreamAccounted <=> Accounts(out, fed, status, buf, mode))'
  BY Zenon DEF StreamAccounted, Accounts, Spells, Behind, EndOf
<1>1. ASSUME NEW chunk \in Seq(Alphabet), Push(chunk) PROVE AccountInv'
  <2>1. /\ status = "ok" /\ buf' = buf \o chunk /\ fed' = fed \o chunk
        /\ UNCHANGED <<mode, out, status>>
    BY <1>1 DEF Push
  <2>2. Accounts(out', fed', status', buf', mode')
    BY <1>0, <2>1, MoreBytes
  <2> QED  BY <1>00, <2>1, <2>2 DEF AccountInv
<1>2. ASSUME pc = "drain", Wait \/ SwitchMode PROVE AccountInv'
  <2>1. status = "ok" /\ UNCHANGED <<buf, out, fed, status>>
    BY <1>0, <1>2 DEF Wait, SwitchMode
  <2>2. Accounts(out', fed', status', buf', mode')
    BY <1>0, <2>1 DEF Accounts
  <2> QED  BY <1>00, <2>1, <2>2 DEF AccountInv
<1>3. ASSUME pc = "drain", NEW kind \in {"octet", "lf"}, NEW n \in 1 .. Len(buf),
             NEW bytes \in Seq(Alphabet), Emit(kind, bytes, Drop(buf, n)),
             Encodes([kind |-> kind, bytes |-> bytes], SubSeq(buf, 1, n))
      PROVE  AccountInv'
  <2>1. [kind |-> kind, bytes |-> bytes] \in Frame
    BY DEF Frame
  <2>2. /\ status = "ok" /\ out' = Append(out, [kind |-> kind, bytes |-> bytes])
        /\ buf' = Drop(buf, n) /\ UNCHANGED <<fed, status, mode>>
    BY <1>0, <1>3 DEF Emit
  <2>3. Accounts(out, fed, "ok", buf, mode)
    BY <1>0, <2>2
  <2>4. Accounts(out', fed', status', buf', mode')
    BY <1>0, <1>3, <2>1, <2>2, <2>3, OneMoreFrame
  <2> QED  BY <1>00, <2>2, <2>4 DEF AccountInv
<1>4. ASSUME OctetFrame PROVE AccountInv'
  <2> DEFINE bytes == SubSeq(buf, First(SP, buf) + 1, FrameEnd(buf))
  <2>1. /\ pc = "drain" /\ CountedPrefix(buf) /\ Len(buf) >= FrameEnd(buf)
        /\ Emit("octet", bytes, Drop(buf, FrameEnd(buf)))
    BY <1>4 DEF OctetFrame, OctetPass, CountedPrefix
  <2>2. FrameEnd(buf) \in Nat /\ FrameEnd(buf) >= First(SP, buf) /\ First(SP, buf) \in 1 .. Len(buf)
    BY <1>0, <2>1, FrameEndFacts
  <2>3. FrameEnd(buf) <= Len(buf)
    BY <1>0, <2>1, <2>2
  <2>4. /\ FrameEnd(buf) \in 1 .. Len(buf)
        /\ Encodes([kind |-> "octet", bytes |-> bytes], SubSeq(buf, 1, FrameEnd(buf)))
    BY <1>0, <2>1, <2>3, OctetEncodes
  <2>5. bytes \in Seq(Alphabet)
    BY <1>0, <2>2, <2>3
  <2> HIDE DEF bytes
  <2> QED  BY <1>3, <2>1, <2>4, <2>5
<1>5. ASSUME LfFrame PROVE AccountInv'
  <2> DEFINE bytes == StripCR(SubSeq(buf, 1, First(LF, buf) - 1))
  <2>1. /\ pc = "drain" /\ Has(LF, buf) /\ Emit("lf", bytes, Drop(buf, First(LF, buf)))
    BY <1>5 DEF LfFrame, LfPass
  <2>2. /\ First(LF, buf) \in 1 .. Len(buf)
        /\ Encodes([kind |-> "lf", bytes |-> bytes], SubSeq(buf, 1, First(LF, buf)))
    BY <1>0, <2>1, LfEncodes
  <2>3. bytes \in Seq(Alphabet)
    <3>1. SubSeq(buf, 1, First(LF, buf) - 1) \in Seq(Alphabet)
      BY <1>0, <2>2
    <3> QED  BY <3>1, StripFacts
  <2> HIDE DEF bytes
  <2> QED  BY <1>3, <2>1, <2>2, <2>3
<1>6. ASSUME OctetTooLarge \/ LfTooLarge PROVE AccountInv'
  <2>1. pc = "drain" /\ Reject /\ status = "ok"
    BY <1>0, <1>6 DEF OctetTooLarge, LfTooLarge, OctetPass, LfPass
  <2>2. TooLarge(mode, buf)
    <3>1. CASE OctetTooLarge
      <4>1. PassMode(mode, buf) = "Octet" /\ CountedPrefix(buf) /\ ~OctetFits
        BY <3>1 DEF OctetTooLarge, OctetPass, CountedPrefix
      <4>2. Counted(mode, buf)
        BY <1>0, <4>1, OctetAgrees
      <4> QED  BY <4>1, <4>2 DEF TooLarge, OctetFits
    <3>2. CASE LfTooLarge
      <4>1. PassMode(mode, buf) = "Lf" /\ ~Has(LF, buf) /\ Len(buf) >= Ceiling
        BY <3>2 DEF LfTooLarge, LfPass
      <4>2. Lined(mode, buf)
        BY <1>0, <4>1, LfAgrees
      <4> QED  BY <4>1, <4>2 DEF TooLarge
    <3> QED  BY <1>6, <3>1, <3>2
  <2>3. Accounts(out, fed, "too_large", <<>>, mode)
    BY <1>0, <2>1, <2>2, Rejection
  <2>4. /\ status' = "too_large" /\ buf' = <<>> /\ pc' = "idle" /\ UNCHANGED <<mode, out, fed>>
    BY <2>1 DEF Reject
  <2> QED  BY <1>00, <2>3, <2>4 DEF AccountInv
<1>7. ASSUME Flush PROVE AccountInv'
  <2>1. pc' = "closed" /\ buf' = <<>> /\ UNCHANGED <<mode, fed, status>>
    BY <1>7 DEF Flush
  <2>2. CASE buf = <<>>
    <3>1. out' = out
      BY <1>7, <2>2 DEF Flush
    <3> QED  BY <1>0, <1>00, <2>1, <2>2, <3>1 DEF AccountInv
  <2>3. CASE buf # <<>>
    <3> DEFINE f == [kind |-> "tail", bytes |-> buf]
    <3>1. out' = Append(out, f) /\ f \in Frame /\ f.kind = "tail" /\ f.bytes = buf
      BY <1>0, <1>7, <2>3 DEF Flush, Frame
    <3> HIDE DEF f
    <3>2. status = "ok"
      BY <1>0, <2>3 DEF Accounts
    <3>3. Len(buf) \in 1 .. Len(buf) /\ SubSeq(buf, 1, Len(buf)) = buf
      BY <1>0, <2>3
    <3>4. Encodes(f, SubSeq(buf, 1, Len(buf)))
      BY <2>3, <3>1, <3>3, Zenon DEF Encodes
    <3>5. Accounts(Append(out, f), fed, "ok", Drop(buf, Len(buf)), mode)
      BY <1>0, <3>1, <3>2, <3>3, <3>4, OneMoreFrame
    <3>6. Drop(buf, Len(buf)) = <<>>
      BY <1>0 DEF Drop
    <3> QED  BY <1>00, <2>1, <3>1, <3>2, <3>5, <3>6 DEF AccountInv
  <2> QED  BY <2>2, <2>3
<1>8. ASSUME UNCHANGED vars PROVE AccountInv'
  BY <1>0, <1>00, <1>8 DEF vars, AccountInv
<1>9. ASSUME NEW chunk \in Chunks PROVE chunk \in Seq(Alphabet)
  <2>1. PICK n \in 1 .. MaxChunk : chunk \in [1 .. n -> Alphabet]
    BY DEF Chunks
  <2>2. n \in Nat
    BY DecoderAssumption
  <2> QED  BY <2>1, <2>2, SeqDef
<1>10. Undecided \/ OctetNoSpace \/ OctetBadLength \/ OctetIncomplete \/ LfWait
         => pc = "drain" /\ (Wait \/ SwitchMode)
  BY DEF Undecided, OctetNoSpace, OctetBadLength, OctetIncomplete, LfWait, OctetPass, LfPass,
         SwitchMode
<1> QED  BY <1>1, <1>2, <1>4, <1>5, <1>6, <1>7, <1>8, <1>9, <1>10 DEF Next, Drain, Closed

\* TcpDecoder::push and flush: every byte of the connection is handed out in one
\* frame, is still in the buffer, or was rejected with a frame that is too large.
THEOREM EveryByteAccounted == Spec => []StreamAccounted
<1>1. Init => AccountInv
  <2> SUFFICES ASSUME Init PROVE AccountInv
    OBVIOUS
  <2>1. /\ out = <<>> /\ fed = <<>> /\ buf = <<>> /\ status = "ok" /\ pc = "idle"
        /\ Len(<<>>) = 0
    BY DEF Init
  <2> DEFINE cut == [i \in 1 .. 0 |-> 1]
  <2>2. cut \in [1 .. 0 -> 1 .. 0]
    OBVIOUS
  <2>3. Spells(cut, <<>>, <<>>) /\ Behind(cut, <<>>, <<>>) = <<>>
    <3> HIDE DEF cut
    <3> QED  BY DEF Spells, Behind, EndOf
  <2> HIDE DEF cut
  <2>4. Accounts(<<>>, <<>>, "ok", <<>>, mode)
    BY <2>1, <2>2, <2>3 DEF Accounts
  <2> QED  BY <2>1, <2>4, AccountsIs DEF AccountInv
<1>2. TypeOK /\ AccountInv /\ [Next]_vars => AccountInv'
  BY AccountStep
<1>3. AccountInv => StreamAccounted
  BY DEF AccountInv
<1> QED  BY <1>1, <1>2, <1>3, DecoderTypeCorrect, PTL DEF Spec
=============================================================================
