----------------------------- MODULE TcpDecoder -----------------------------
(***************************************************************************)
(* The incremental TCP frame decoder of tpt-syslog-server (framing.rs) as  *)
(* a connection thread drives it: chunks are pushed until one is rejected  *)
(* or the connection ends, then the rest is flushed once.  One pass of the *)
(* loop in drain is one step.  Bytes are their codes.                      *)
(***************************************************************************)
EXTENDS Integers, Sequences

CONSTANTS
  Framings,     \* the values of TcpFraming a decoder is created with
  MaxFrame,     \* config.max_frame_len
  UsizeMax,     \* the largest usize (scaled down for model checking)
  Alphabet,     \* the bytes peers send
  MaxChunk,     \* bound: bytes one read returns
  MaxStream     \* bound: bytes one connection carries

LF == 10
CR == 13
SP == 32
Plus == 43
Digits == 48 .. 57

ASSUME DecoderAssumption ==
  /\ Framings \subseteq {"Auto", "OctetCounting", "NonTransparent"}
  /\ MaxFrame \in Nat
  /\ UsizeMax \in Nat
  /\ Alphabet \subseteq 0 .. 255
  /\ MaxChunk \in Nat
  /\ MaxStream \in Nat

VARIABLES
  framing,      \* the mode the decoder was created with
  mode,         \* self.mode
  buf,          \* self.buf
  out,          \* the frames decoded so far and how each was delimited
  fed,          \* every byte pushed so far
  pc,           \* "idle" between calls, "drain" in the loop, "closed" after flush
  status        \* "ok", or "too_large" once FrameTooLarge was returned

vars == <<framing, mode, buf, out, fed, pc, status>>

\* max_frame_len.max(1)
Ceiling == IF MaxFrame = 0 THEN 1 ELSE MaxFrame

-----------------------------------------------------------------------------
(* Helpers on byte sequences *)

Has(b, s) == \E i \in 1 .. Len(s) : s[i] = b

\* iter().position, counted from 1.
First(b, s) ==
  CHOOSE i \in 1 .. Len(s) : s[i] = b /\ \A j \in 1 .. i - 1 : s[j] # b

AllDigits(s) == \A i \in 1 .. Len(s) : s[i] \in Digits

\* The digits of a length prefix: usize::from_str takes one leading plus sign.
Significant(s) == IF s # <<>> /\ Head(s) = Plus THEN Tail(s) ELSE s

\* The number that decimal digits spell.
Decimal(s) ==
  LET val[i \in 0 .. Len(s)] == IF i = 0 THEN 0 ELSE 10 * val[i - 1] + (s[i] - 48)
  IN  val[Len(s)]

\* str::parse::<usize>: an empty, non-decimal or overflowing prefix is an error.
ParsesUsize(s) ==
  LET d == Significant(s) IN
  /\ d # <<>>
  /\ AllDigits(d)
  /\ Decimal(d) \in 0 .. UsizeMax

\* A trailing CR is not part of an LF-delimited frame.
StripCR(s) ==
  IF s # <<>> /\ s[Len(s)] = CR THEN SubSeq(s, 1, Len(s) - 1) ELSE s

-----------------------------------------------------------------------------
(* detect, and the mode one pass of the loop works in *)

Detect(s) ==
  IF ~Has(SP, s) THEN "undecided"
  ELSE IF First(SP, s) > 1 /\ AllDigits(SubSeq(s, 1, First(SP, s) - 1))
         THEN "Octet" ELSE "Lf"

PassMode(m, s) ==
  IF m = "OctetCounting" THEN "Octet"
  ELSE IF m = "NonTransparent" THEN "Lf" ELSE Detect(s)

\* `<digits> SP`: where the prefix ends, and the frame length it announces.
Prefix(s) == SubSeq(s, 1, First(SP, s) - 1)
Announced(s) == Decimal(Significant(Prefix(s)))
FrameEnd(s) == First(SP, s) + Announced(s)

\* The pass works on an octet-counted frame whose length is known.
OctetPass ==
  /\ pc = "drain"
  /\ PassMode(mode, buf) = "Octet"
  /\ Has(SP, buf)
  /\ ParsesUsize(Prefix(buf))

OctetFits == Announced(buf) <= Ceiling /\ FrameEnd(buf) <= UsizeMax

LfPass == pc = "drain" /\ PassMode(mode, buf) = "Lf"

\* Vec::drain(..n)
Drop(s, n) == SubSeq(s, n + 1, Len(s))

Emit(kind, bytes, rest) ==
  /\ out' = Append(out, [kind |-> kind, bytes |-> bytes])
  /\ buf' = rest
  /\ UNCHANGED <<framing, mode, fed, pc, status>>

\* break: wait for more bytes.
Wait == pc' = "idle" /\ UNCHANGED <<framing, mode, buf, out, fed, status>>

\* buf.clear() and return FrameTooLarge.
Reject ==
  /\ buf' = <<>>
  /\ status' = "too_large"
  /\ pc' = "idle"
  /\ UNCHANGED <<framing, mode, out, fed>>

-----------------------------------------------------------------------------

Init ==
  /\ framing \in Framings
  /\ mode = framing
  /\ buf = <<>>
  /\ out = <<>>
  /\ fed = <<>>
  /\ pc = "idle"
  /\ status = "ok"

Push(chunk) ==
  /\ pc = "idle"
  /\ status = "ok"
  /\ Len(fed) + Len(chunk) <= MaxStream
  /\ buf' = buf \o chunk
  /\ fed' = fed \o chunk
  /\ pc' = "drain"
  /\ UNCHANGED <<framing, mode, out, status>>

\* Auto cannot tell yet.
Undecided ==
  /\ pc = "drain"
  /\ PassMode(mode, buf) = "undecided"
  /\ Wait

OctetNoSpace ==
  /\ pc = "drain"
  /\ PassMode(mode, buf) = "Octet"
  /\ ~Has(SP, buf)
  /\ Wait

\* Mutation: Auto goes round the loop without changing its mode.
OctetBadLengthKeepsAuto ==
  /\ pc = "drain"
  /\ PassMode(mode, buf) = "Octet"
  /\ Has(SP, buf)
  /\ ~ParsesUsize(Prefix(buf))
  /\ IF mode = "Auto" THEN UNCHANGED vars ELSE Wait

\* Not a length: Auto turns to LF framing for good, octet counting gives up
\* until more bytes come.
OctetBadLength ==
  /\ pc = "drain"
  /\ PassMode(mode, buf) = "Octet"
  /\ Has(SP, buf)
  /\ ~ParsesUsize(Prefix(buf))
  /\ IF mode = "Auto"
       THEN mode' = "NonTransparent" /\ UNCHANGED <<framing, buf, out, fed, pc, status>>
       ELSE Wait

OctetTooLarge ==
  /\ OctetPass
  /\ ~OctetFits
  /\ Reject

OctetIncomplete ==
  /\ OctetPass
  /\ OctetFits
  /\ Len(buf) < FrameEnd(buf)
  /\ Wait

\* Mutation: the frame swallows the space before it and loses its last byte.
OctetFrameOffByOne ==
  /\ OctetPass
  /\ OctetFits
  /\ Len(buf) >= FrameEnd(buf)
  /\ Emit("octet", SubSeq(buf, First(SP, buf), FrameEnd(buf) - 1), Drop(buf, FrameEnd(buf)))

OctetFrame ==
  /\ OctetPass
  /\ OctetFits
  /\ Len(buf) >= FrameEnd(buf)
  /\ Emit("octet", SubSeq(buf, First(SP, buf) + 1, FrameEnd(buf)), Drop(buf, FrameEnd(buf)))

LfFrame ==
  /\ LfPass
  /\ Has(LF, buf)
  /\ Emit("lf", StripCR(SubSeq(buf, 1, First(LF, buf) - 1)), Drop(buf, First(LF, buf)))

LfTooLarge ==
  /\ LfPass
  /\ ~Has(LF, buf)
  /\ Len(buf) >= Ceiling
  /\ Reject

\* Mutation: LF-delimited growth is not bounded.
LfWaitUnbounded ==
  /\ LfPass
  /\ ~Has(LF, buf)
  /\ Wait

LfWait ==
  /\ LfPass
  /\ ~Has(LF, buf)
  /\ Len(buf) < Ceiling
  /\ Wait

\* Mutation: an octet-counted frame that is not complete is dropped.
FlushDropsPartial ==
  /\ pc = "idle"
  /\ out' = IF buf = <<>> \/ mode = "OctetCounting" THEN out
            ELSE Append(out, [kind |-> "tail", bytes |-> buf])
  /\ buf' = <<>>
  /\ pc' = "closed"
  /\ UNCHANGED <<framing, mode, fed, status>>

\* flush, which tcp_conn_loop calls once, after its loop.
Flush ==
  /\ pc = "idle"
  /\ out' = IF buf = <<>> THEN out
            ELSE Append(out, [kind |-> "tail", bytes |-> buf])
  /\ buf' = <<>>
  /\ pc' = "closed"
  /\ UNCHANGED <<framing, mode, fed, status>>

Drain ==
  \/ Undecided
  \/ OctetNoSpace \/ OctetBadLength \/ OctetTooLarge \/ OctetIncomplete \/ OctetFrame
  \/ LfFrame \/ LfTooLarge \/ LfWait

Chunks == UNION {[1 .. n -> Alphabet] : n \in 1 .. MaxChunk}

Closed == pc = "closed" /\ UNCHANGED vars

Next ==
  \/ \E chunk \in Chunks : Push(chunk)
  \/ Drain
  \/ Flush
  \/ Closed

Spec == Init /\ [][Next]_vars

\* A call of push runs to its end; nothing is assumed of the peer.
FairSpec == Spec /\ WF_vars(Drain)

-----------------------------------------------------------------------------
(* The frames of a stream that is read in one piece, cut off one after the  *)
(* other without looking at chunk boundaries or at the ceiling.             *)

Modes == {"Auto", "OctetCounting", "NonTransparent"}

CountedPrefix(s) == Has(SP, s) /\ ParsesUsize(Prefix(s))

\* The stream goes on with a length prefix, or with a line.
Counted(m, s) ==
  /\ CountedPrefix(s)
  /\ m = "OctetCounting" \/ (m = "Auto" /\ s[1] # Plus)

Lined(m, s) ==
  \/ m = "NonTransparent"
  \/ m = "Auto" /\ Has(SP, s) /\ ~Counted(m, s)

\* The first frame is all there; how many bytes it takes up; what is in it.
Complete(m, s) ==
  \/ Counted(m, s) /\ FrameEnd(s) <= Len(s)
  \/ Lined(m, s) /\ Has(LF, s)

Wire(m, s) == IF Counted(m, s) THEN FrameEnd(s) ELSE First(LF, s)

FrameOf(m, s) ==
  IF Counted(m, s)
  THEN [kind |-> "octet", bytes |-> SubSeq(s, First(SP, s) + 1, FrameEnd(s))]
  ELSE LET e == First(LF, s) - 1
           n == IF e > 0 /\ s[e] = CR THEN e - 1 ELSE e
       IN  [kind |-> "lf", bytes |-> SubSeq(s, 1, n)]

\* An Auto stream whose digits overflow usize is LF-framed from there on.
NextMode(m, s) ==
  IF /\ m = "Auto" /\ Has(SP, s) /\ First(SP, s) > 1
     /\ AllDigits(Prefix(s)) /\ ~CountedPrefix(s)
  THEN "NonTransparent" ELSE m

\* The frames of the stream p[2] in the mode p[1].
Frames[p \in Modes \X Seq(Alphabet)] ==
  IF Complete(p[1], p[2])
  THEN <<FrameOf(p[1], p[2])>>
       \o Frames[<<NextMode(p[1], p[2]), Drop(p[2], Wire(p[1], p[2]))>>]
  ELSE <<>>

-----------------------------------------------------------------------------
(* What stands on the wire for a frame, and what is rejected. *)

\* The bytes s carry the frame f, as RFC 6587 has it: a length, a space and that
\* many bytes; or a line with its LF or CR LF; or what was left at the end.
Encodes(f, s) ==
  \/ /\ f.kind = "octet"
     /\ \E k \in 1 .. Len(s) :
          /\ s[k] = SP
          /\ ParsesUsize(SubSeq(s, 1, k - 1))
          /\ Decimal(Significant(SubSeq(s, 1, k - 1))) = Len(f.bytes)
          /\ f.bytes = SubSeq(s, k + 1, Len(s))
  \/ /\ f.kind = "lf"
     /\ ~Has(LF, f.bytes)
     /\ \/ s = f.bytes \o <<LF>> /\ (f.bytes # <<>> => f.bytes[Len(f.bytes)] # CR)
        \/ s = f.bytes \o <<CR, LF>>
  \/ /\ f.kind = "tail"
     /\ s # <<>> /\ s = f.bytes

\* The stream goes on with a frame beyond the ceiling, or with a line that is not
\* at its end there.
TooLarge(m, s) ==
  \/ Counted(m, s) /\ ~(Announced(s) <= Ceiling /\ FrameEnd(s) <= UsizeMax)
  \/ Lined(m, s) /\ ~Has(LF, s) /\ Len(s) >= Ceiling

-----------------------------------------------------------------------------
(* Properties *)

Frame == [kind : {"octet", "lf", "tail"}, bytes : Seq(Alphabet)]

\* The type of every variable of the decoder.
TypeOK ==
  /\ framing \in Framings
  /\ mode \in Modes
  /\ buf \in Seq(Alphabet)
  /\ out \in Seq(Frame)
  /\ fed \in Seq(Alphabet)
  /\ pc \in {"idle", "drain", "closed"}
  /\ status \in {"ok", "too_large"}

\* Every byte that was pushed is in exactly one place: in the wire form of one
\* frame, the frames and their bytes in the order of the stream; in the buffer,
\* which is what follows the last frame; or, after FrameTooLarge, in what was
\* thrown away with it, which starts with a frame that is too large.  So drain
\* skips nothing between two frames, and flush hands out all that is left.
StreamAccounted ==
  \E cut \in [1 .. Len(out) -> 1 .. Len(fed)] :
    LET end(i) == IF i = 0 THEN 0 ELSE cut[i]
        rest == SubSeq(fed, end(Len(out)) + 1, Len(fed))
    IN  /\ \A i \in 1 .. Len(out) : Encodes(out[i], SubSeq(fed, end(i - 1) + 1, end(i)))
        /\ IF status = "ok" THEN buf = rest ELSE buf = <<>> /\ TooLarge(mode, rest)

\* After a push that returns Ok the bytes kept stay below the ceiling, plus the
\* length prefix when an octet-counted frame is awaited.  The exceptions are
\* the states in which drain has no frame to measure: no space yet outside LF
\* framing, or in OctetCounting a prefix that is not a length.
BoundedWhenMeasured ==
  pc = "idle" =>
    \/ Len(buf) < Ceiling
    \/ mode # "NonTransparent" /\ ~Has(SP, buf)
    \/ mode = "OctetCounting" /\ Has(SP, buf) /\ ~ParsesUsize(Prefix(buf))
    \/ mode # "NonTransparent" /\ Has(SP, buf) /\ Len(buf) < First(SP, buf) + Ceiling

\* Octet-counted frames respect the ceiling (framing.rs, MAX_FRAME_LEN).
OctetCeiling ==
  \A i \in 1 .. Len(out) : out[i].kind = "octet" => Len(out[i].bytes) <= Ceiling

\* An LF-framed connection delivers no frame longer than the ceiling plus what one
\* read can add to it: the ceiling is only looked at when no LF is in sight.
OversizeBounded ==
  framing = "NonTransparent" =>
    \A i \in 1 .. Len(out) : Len(out[i].bytes) < Ceiling + MaxChunk

\* After FrameTooLarge the connection ends with nothing left to flush.
RejectedIsEmpty == status = "too_large" => buf = <<>>

\* Chunk boundaries do not matter: after every accepted push the frames decoded
\* so far are those of the stream read in one piece.
ChunkingIrrelevant ==
  pc = "idle" /\ status = "ok" => out = Frames[<<framing, fed>>]

\* Every push returns: no input makes drain loop for ever.
PushReturns == pc = "drain" ~> pc = "idle"
=============================================================================
