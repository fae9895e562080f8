--------------------------- MODULE MatcherProofs ----------------------------
(***************************************************************************)
(* Proofs about Matcher, for all formats and lines: a match tiles the      *)
(* line, a redacted field is nowhere readable in what is exported, every   *)
(* other field is exported as the schema declares it, and the search finds *)
(* the first match with the longest captures whenever there is one.        *)
(***************************************************************************)
EXTENDS Matcher, WellFoundedInduction, TLAPS

SegType == [lit : BOOLEAN, text : Seq(STRING), field : Seq(STRING), ty : Types]

\* Segment k spells out the bytes from a up to e of the line l.
Fits(segs, l, k, a, e) ==
  LET text == IF a <= e THEN SubSeq(l, a + 1, e) ELSE <<>> IN
  /\ a <= e
  /\ IF segs[k].lit THEN text = segs[k].text
     ELSE \/ segs[k].ty = "string"
          \/ (text # <<>> /\ ParsesAs(segs[k].ty, text))

\* The first n - 1 segments spell out the first p bytes of the line, and the
\* first m captures are theirs.
Covered(segs, l, cs, n, p, m) ==
  \E at \in [1 .. n -> 0 .. Len(l)] :
    /\ at[1] = 0 /\ at[n] = p
    /\ \A k \in 1 .. n - 1 : Fits(segs, l, k, at[k], at[k + 1])
    /\ \A i \in 1 .. m : \E k \in 1 .. n - 1 :
         ~segs[k].lit /\ cs[i] = <<k, at[k], at[k + 1]>>
    /\ \A k \in 1 .. n - 1 :
         ~segs[k].lit => \E i \in 1 .. m : cs[i] = <<k, at[k], at[k + 1]>>

CapType == Nat \X Nat \X Nat

MatcherTyped ==
  /\ api \in Apis
  /\ line \in Seq(STRING)
  /\ fmt \in Nat /\ si \in Nat /\ pos \in Nat
  /\ stack \in Seq([seg : Nat, from : Nat, to : Nat, empty : BOOLEAN])
  /\ caps \in Seq(CapType)

\* A format is being tried.
Trying == phase \in {"enter", "try", "false", "matched"}

\* Each pending capture starts where the segments before it end, and the
\* captures below it in the context are theirs.
StackOK ==
  /\ fmt \in DOMAIN Formats
  /\ \A k \in DOMAIN stack :
       /\ stack[k].seg \in 1 .. Len(Segs) /\ ~Segs[stack[k].seg].lit
       /\ stack[k].from \in 0 .. Len(line)
       /\ stack[k].to \in stack[k].from .. Len(line) + 1
       /\ Covered(Segs, line, caps, stack[k].seg, stack[k].from, k - 1)

\* The captures are texts of the line, one behind the other.
CapsOK ==
  /\ \A k \in DOMAIN caps : caps[k][2] <= caps[k][3] /\ caps[k][3] <= Len(line)
  /\ \A k, m \in DOMAIN caps : k < m => caps[k][1] < caps[m][1]

\* The context holds one capture for every pending one, but for the one that
\* is being tried.
PlaceOK ==
  /\ phase \in {"enter", "matched"} =>
       /\ si \in 1 .. Len(Segs) + 1 /\ pos \in 0 .. Len(line)
       /\ Len(caps) = Len(stack)
       /\ Covered(Segs, line, caps, si, pos, Len(caps))
  /\ phase = "matched" => si = Len(Segs) + 1 /\ pos = Len(line)
  /\ phase = "try" => Len(stack) > 0 /\ Len(caps) = Len(stack) - 1
  /\ phase = "false" => Len(caps) = Len(stack)

MatcherInv ==
  /\ MatcherTyped
  /\ phase \in {"idle", "enter", "try", "false", "matched", "panicked"}
  /\ Trying => StackOK /\ CapsOK /\ PlaceOK

-----------------------------------------------------------------------------
(* Covered *)

\* Nothing is covered before the first segment (match_into).
LEMMA CoverNothing ==
  ASSUME NEW segs, NEW l \in Seq(STRING), NEW cs
  PROVE  Covered(segs, l, cs, 1, 0, 0)
<1> DEFINE at == [k \in 1 .. 1 |-> 0]
<1>1. at \in [1 .. 1 -> 0 .. Len(l)] /\ at[1] = 0
  OBVIOUS
<1>2. \A k \in 1 .. 1 - 1 : FALSE
  OBVIOUS
<1>3. \A i \in 1 .. 0 : FALSE
  OBVIOUS
<1> HIDE DEF at
<1> QED  BY <1>1, <1>2, <1>3, Zenon DEF Covered

\* Covering depends on the captures it counts and on no others (caps.pop()).
LEMMA CoverPrefix ==
  ASSUME NEW segs, NEW l, NEW cs, NEW ds, NEW n, NEW p, NEW m,
         \A i \in 1 .. m : cs[i] = ds[i],
         Covered(segs, l, cs, n, p, m)
  PROVE  Covered(segs, l, ds, n, p, m)
  BY ZenonT(30) DEF Covered

\* A literal that the line goes on with is covered (LiteralSeg).
LEMMA CoverLiteral ==
  ASSUME NEW segs \in Seq(SegType), NEW l \in Seq(STRING), NEW cs, NEW m \in Nat,
         NEW n \in 1 .. Len(segs), NEW p \in 0 .. Len(l), NEW e \in p .. Len(l),
         segs[n].lit,
         Fits(segs, l, n, p, e),
         Covered(segs, l, cs, n, p, m)
  PROVE  Covered(segs, l, cs, n + 1, e, m)
<1>1. PICK at \in [1 .. n -> 0 .. Len(l)] :
        /\ at[1] = 0 /\ at[n] = p
        /\ \A k \in 1 .. n - 1 : Fits(segs, l, k, at[k], at[k + 1])
        /\ \A i \in 1 .. m : \E k \in 1 .. n - 1 :
             ~segs[k].lit /\ cs[i] = <<k, at[k], at[k + 1]>>
        /\ \A k \in 1 .. n - 1 :
             ~segs[k].lit => \E i \in 1 .. m : cs[i] = <<k, at[k], at[k + 1]>>
  BY Zenon DEF Covered
<1>2. e \in 0 .. Len(l) /\ n \in Nat \ {0}
  OBVIOUS
<1> DEFINE to == [k \in 1 .. n + 1 |-> IF k = n + 1 THEN e ELSE at[k]]
<1>3. /\ to \in [1 .. n + 1 -> 0 .. Len(l)]
      /\ to[n + 1] = e /\ \A k \in 1 .. n : to[k] = at[k]
  BY <1>2
<1> HIDE DEF to
<1>4. \A k \in 1 .. n : k \in 1 .. n - 1 \/ k = n
  OBVIOUS
<1>5. \A k \in 1 .. n - 1 : k \in 1 .. n /\ k + 1 \in 1 .. n
  OBVIOUS
<1>6. n \in 1 .. n /\ 1 \in 1 .. n /\ 1 .. (n + 1) - 1 = 1 .. n
  OBVIOUS
<1>7. to[1] = 0 /\ to[n] = p
  BY <1>1, <1>3, <1>6
<1>8. \A k \in 1 .. n - 1 : to[k] = at[k] /\ to[k + 1] = at[k + 1]
  BY <1>3, <1>5
<1>9. ASSUME NEW k \in 1 .. n PROVE Fits(segs, l, k, to[k], to[k + 1])
  <2>1. CASE k = n
    BY <2>1, <1>3, <1>7
  <2>2. CASE k \in 1 .. n - 1
    BY <2>2, <1>1, <1>8, Zenon
  <2> QED  BY <1>4, <2>1, <2>2
<1>10. \A i \in 1 .. m : \E k \in 1 .. n :
         ~segs[k].lit /\ cs[i] = <<k, to[k], to[k + 1]>>
  <2> TAKE i \in 1 .. m
  <2>1. PICK k \in 1 .. n - 1 : ~segs[k].lit /\ cs[i] = <<k, at[k], at[k + 1]>>
    BY <1>1, Zenon
  <2>2. k \in 1 .. n /\ cs[i] = <<k, to[k], to[k + 1]>>
    BY <2>1, <1>5, <1>8, Zenon
  <2> QED  BY <2>1, <2>2, Zenon
<1>11. \A k \in 1 .. n :
         ~segs[k].lit => \E i \in 1 .. m : cs[i] = <<k, to[k], to[k + 1]>>
  <2> SUFFICES ASSUME NEW k \in 1 .. n, ~segs[k].lit
               PROVE  \E i \in 1 .. m : cs[i] = <<k, to[k], to[k + 1]>>
    OBVIOUS
  <2>1. k \in 1 .. n - 1
    BY <1>4, Zenon
  <2>2. PICK i \in 1 .. m : cs[i] = <<k, at[k], at[k + 1]>>
    BY <1>1, <2>1, Zenon
  <2> QED  BY <2>1, <2>2, <1>8, Zenon
<1> DEFINE N == 1 .. (n + 1) - 1
<1>12. N = 1 .. n
  OBVIOUS
<1> HIDE DEF N
<1>13. /\ \A k \in N : Fits(segs, l, k, to[k], to[k + 1])
       /\ \A i \in 1 .. m : \E k \in N :
            ~segs[k].lit /\ cs[i] = <<k, to[k], to[k + 1]>>
       /\ \A k \in N :
            ~segs[k].lit => \E i \in 1 .. m : cs[i] = <<k, to[k], to[k + 1]>>
  BY <1>9, <1>10, <1>11, <1>12
<1> QED  BY <1>3, <1>7, <1>13, Zenon DEF Covered, N

\* A capture that is taken is covered, with one entry more (Descend).
LEMMA CoverCapture ==
  ASSUME NEW segs \in Seq(SegType), NEW l \in Seq(STRING), NEW cs \in Seq(CapType),
         NEW n \in 1 .. Len(segs), NEW p \in 0 .. Len(l), NEW e \in p .. Len(l),
         ~segs[n].lit,
         Fits(segs, l, n, p, e),
         Covered(segs, l, cs, n, p, Len(cs))
  PROVE  Covered(segs, l, Append(cs, <<n, p, e>>), n + 1, e, Len(cs) + 1)
<1> DEFINE m == Len(cs)
           ds == Append(cs, <<n, p, e>>)
<1>1. PICK at \in [1 .. n -> 0 .. Len(l)] :
        /\ at[1] = 0 /\ at[n] = p
        /\ \A k \in 1 .. n - 1 : Fits(segs, l, k, at[k], at[k + 1])
        /\ \A i \in 1 .. m : \E k \in 1 .. n - 1 :
             ~segs[k].lit /\ cs[i] = <<k, at[k], at[k + 1]>>
        /\ \A k \in 1 .. n - 1 :
             ~segs[k].lit => \E i \in 1 .. m : cs[i] = <<k, at[k], at[k + 1]>>
  BY Zenon DEF Covered
<1>2. e \in 0 .. Len(l) /\ n \in Nat \ {0}
  OBVIOUS
<1> DEFINE to == [k \in 1 .. n + 1 |-> IF k = n + 1 THEN e ELSE at[k]]
<1>3. /\ to \in [1 .. n + 1 -> 0 .. Len(l)]
      /\ to[n + 1] = e /\ \A k \in 1 .. n : to[k] = at[k]
  BY <1>2
<1> HIDE DEF to
<1>4. \A k \in 1 .. n : k \in 1 .. n - 1 \/ k = n
  OBVIOUS
<1>5. \A k \in 1 .. n - 1 : k \in 1 .. n /\ k + 1 \in 1 .. n
  OBVIOUS
<1>6. n \in 1 .. n /\ 1 \in 1 .. n /\ 1 .. (n + 1) - 1 = 1 .. n
  OBVIOUS
<1>7. to[1] = 0 /\ to[n] = p
  BY <1>1, <1>3, <1>6
<1>8. \A k \in 1 .. n - 1 : to[k] = at[k] /\ to[k + 1] = at[k + 1]
  BY <1>3, <1>5
<1>9. ASSUME NEW k \in 1 .. n PROVE Fits(segs, l, k, to[k], to[k + 1])
  <2>1. CASE k = n
    BY <2>1, <1>3, <1>7
  <2>2. CASE k \in 1 .. n - 1
    BY <2>2, <1>1, <1>8, Zenon
  <2> QED  BY <1>4, <2>1, <2>2
<1>10. m \in Nat
  OBVIOUS
<1>11. /\ \A i \in 1 .. m : ds[i] = cs[i] /\ i \in 1 .. m + 1
       /\ ds[m + 1] = <<n, p, e>>
  OBVIOUS
<1>12. \A i \in 1 .. m + 1 : i \in 1 .. m \/ i = m + 1
  BY <1>10
<1>13. m + 1 \in 1 .. m + 1
  BY <1>10
<1> HIDE DEF m, ds
<1>14. ds[m + 1] = <<n, to[n], to[n + 1]>>
  BY <1>3, <1>7, <1>11, Zenon
<1>15. \A i \in 1 .. m + 1 : \E k \in 1 .. n :
         ~segs[k].lit /\ ds[i] = <<k, to[k], to[k + 1]>>
  <2> TAKE i \in 1 .. m + 1
  <2>1. CASE i = m + 1
    BY <2>1, <1>6, <1>14, Zenon
  <2>2. CASE i \in 1 .. m
    <3>1. PICK k \in 1 .. n - 1 : ~segs[k].lit /\ cs[i] = <<k, at[k], at[k + 1]>>
      BY <2>2, <1>1, Zenon
    <3>2. k \in 1 .. n /\ ds[i] = <<k, to[k], to[k + 1]>>
      BY <2>2, <3>1, <1>5, <1>8, <1>11, Zenon
    <3> QED  BY <3>1, <3>2, Zenon
  <2> QED  BY <1>12, <2>1, <2>2, Zenon
<1>16. \A k \in 1 .. n :
         ~segs[k].lit => \E i \in 1 .. m + 1 : ds[i] = <<k, to[k], to[k + 1]>>
  <2> SUFFICES ASSUME NEW k \in 1 .. n, ~segs[k].lit
               PROVE  \E i \in 1 .. m + 1 : ds[i] = <<k, to[k], to[k + 1]>>
    OBVIOUS
  <2>1. CASE k = n
    BY <2>1, <1>13, <1>14, Zenon
  <2>2. CASE k \in 1 .. n - 1
    <3>1. PICK i \in 1 .. m : cs[i] = <<k, at[k], at[k + 1]>>
      BY <1>1, <2>2, Zenon
    <3>2. i \in 1 .. m + 1 /\ ds[i] = <<k, to[k], to[k + 1]>>
      BY <2>2, <3>1, <1>8, <1>11, Zenon
    <3> QED  BY <3>2, Zenon
  <2> QED  BY <1>4, <2>1, <2>2, Zenon
<1> DEFINE N == 1 .. (n + 1) - 1
<1>17. N = 1 .. n
  OBVIOUS
<1> HIDE DEF N
<1>18. /\ \A k \in N : Fits(segs, l, k, to[k], to[k + 1])
       /\ \A i \in 1 .. m + 1 : \E k \in N :
            ~segs[k].lit /\ ds[i] = <<k, to[k], to[k + 1]>>
       /\ \A k \in N :
            ~segs[k].lit => \E i \in 1 .. m + 1 : ds[i] = <<k, to[k], to[k + 1]>>
  BY <1>9, <1>15, <1>16, <1>17
<1>19. Covered(segs, l, ds, n + 1, e, m + 1)
  BY <1>3, <1>7, <1>18, Zenon DEF Covered, N
<1> QED  BY <1>19 DEF m, ds

\* The captures that are covered come from earlier segments.
LEMMA CoveredEarlier ==
  ASSUME NEW segs, NEW l, NEW cs, NEW n \in Nat, NEW p, NEW m \in Nat,
         Covered(segs, l, cs, n, p, m), NEW i \in 1 .. m
  PROVE  cs[i][1] < n
<1>1. PICK at \in [1 .. n -> 0 .. Len(l)] : \A h \in 1 .. m : \E k \in 1 .. n - 1 :
        ~segs[k].lit /\ cs[h] = <<k, at[k], at[k + 1]>>
  BY Zenon DEF Covered
<1>2. PICK k \in 1 .. n - 1 : cs[i] = <<k, at[k], at[k + 1]>>
  BY <1>1
<1> QED  BY <1>2

-----------------------------------------------------------------------------
(* The steps *)

\* What MatcherAssumption says of one format.
LEMMA FormatTyped ==
  ASSUME NEW f \in DOMAIN Formats
  PROVE  /\ Formats[f].segs \in Seq(SegType)
         /\ Formats[f].redactions \in Seq([field : Seq(STRING), mode : {"hash", "mask"}])
<1>1. Formats[f] \in Format
  BY MatcherAssumption
<1> DEFINE C == Seq([field : Seq(STRING), to : Types \cup {"enum"},
                    variants : Seq(Seq(STRING))])
           R == Seq([field : Seq(STRING), mode : {"hash", "mask"}])
           S == Seq(SegType)
<1>2. Formats[f] \in [segs : S, coercions : C, redactions : R]
  BY <1>1, Zenon DEF Format, SegType
<1> HIDE DEF C, R, S
<1>3. Formats[f].segs \in S /\ Formats[f].redactions \in R
  BY <1>2
<1> QED  BY <1>3 DEF R, S

LEMMA SegsTyped ==
  ASSUME fmt \in DOMAIN Formats
  PROVE  Segs \in Seq(SegType)
  BY FormatTyped DEF Segs

\* starts_with compares byte by byte (LiteralSeg).
LEMMA LiteralFits ==
  ASSUME NEW l \in Seq(STRING), NEW text \in Seq(STRING), NEW p \in 0 .. Len(l),
         p + Len(text) <= Len(l),
         \A k \in 1 .. Len(text) : l[p + k] = text[k]
  PROVE  SubSeq(l, p + 1, p + Len(text)) = text
<1> DEFINE sub == SubSeq(l, p + 1, p + Len(text))
<1>1. sub \in Seq(STRING) /\ Len(sub) = Len(text)
  OBVIOUS
<1>2. \A k \in 1 .. Len(text) : sub[k] = text[k]
  OBVIOUS
<1> QED  BY <1>1, <1>2

LEMMA StartInv ==
  ASSUME NEW f \in DOMAIN Formats, Start(f), line' \in Seq(STRING), api' \in Apis
  PROVE  MatcherInv'
<1>1. MatcherTyped'
  BY MatcherAssumption DEF Start, MatcherTyped
<1>2. Covered(Segs', line', caps', 1, 0, 0)
  BY CoverNothing
<1>3. Segs' \in Seq(SegType)
  BY FormatTyped DEF Start, Segs
<1>4. /\ fmt' = f /\ si' = 1 /\ pos' = 0 /\ stack' = <<>> /\ caps' = <<>>
      /\ phase' = "enter"
  BY DEF Start
<1>5. StackOK' /\ CapsOK'
  BY <1>4 DEF StackOK, CapsOK
<1>6. PlaceOK'
  BY <1>1, <1>2, <1>3, <1>4 DEF PlaceOK, MatcherTyped
<1> QED  BY <1>1, <1>4, <1>5, <1>6 DEF MatcherInv

LEMMA CallInv ==
  ASSUME MatcherInv, NEW l \in Lines, Call(l)
  PROVE  MatcherInv'
<1>1. l \in Seq(STRING) /\ api' \in Apis /\ line' \in Seq(STRING)
  BY MatcherAssumption DEF Call, MatcherInv, MatcherTyped
<1>2. CASE Len(Formats) = 0
  BY <1>1, <1>2 DEF Call, MatcherInv, MatcherTyped, Trying
<1>3. CASE Len(Formats) # 0
  <2>1. Start(1) /\ 1 \in DOMAIN Formats
    BY <1>3, MatcherAssumption DEF Call
  <2> QED  BY <1>1, <2>1, StartInv
<1> QED  BY <1>2, <1>3

LEMMA AtEndInv ==
  ASSUME MatcherInv, AtEnd
  PROVE  MatcherInv'
<1>1. Segs \in Seq(SegType) /\ StackOK /\ CapsOK /\ PlaceOK
  BY SegsTyped DEF MatcherInv, Trying, AtEnd, StackOK
<1>2. MatcherTyped' /\ Trying'
  BY DEF MatcherInv, MatcherTyped, AtEnd, Trying
<1>3. StackOK' /\ CapsOK'
  BY <1>1 DEF AtEnd, StackOK, CapsOK, Segs
<1>4. si = Len(Segs) + 1 /\ Segs' = Segs
  BY <1>1 DEF AtEnd, PlaceOK, Segs
<1>5. PlaceOK'
  <2>1. phase' \in {"matched", "false"} /\ (phase' = "matched" => pos = Len(line))
    BY DEF AtEnd
  <2>2. phase = "enter" /\ UNCHANGED <<line, si, pos, stack, caps>>
    BY DEF AtEnd
  <2> QED  BY <1>1, <1>4, <2>1, <2>2 DEF PlaceOK
<1> QED  BY <1>2, <1>3, <1>5 DEF MatcherInv, AtEnd

LEMMA LiteralInv ==
  ASSUME MatcherInv, LiteralSeg
  PROVE  MatcherInv'
<1>1. Segs \in Seq(SegType) /\ StackOK /\ CapsOK /\ PlaceOK /\ MatcherTyped
  BY SegsTyped DEF MatcherInv, Trying, LiteralSeg, StackOK
<1>2. /\ UNCHANGED <<line, fmt, stack, caps, api>>
      /\ Segs' = Segs /\ phase = "enter"
  BY DEF LiteralSeg, Segs
<1>3. StackOK' /\ CapsOK'
  BY <1>1, <1>2 DEF StackOK, CapsOK
<1>4. si \in 1 .. Len(Segs) /\ Seg = Segs[si] /\ Seg \in SegType /\ Seg.lit
  BY <1>1, <1>2 DEF PlaceOK, LiteralSeg, Seg
<1>5. CASE StartsWith(Seg.text)
  <2> DEFINE e == pos + Len(Seg.text)
  <2>1. Seg.text \in Seq(STRING) /\ line \in Seq(STRING) /\ pos \in 0 .. Len(line)
    BY <1>1, <1>2, <1>4 DEF SegType, MatcherTyped, PlaceOK
  <2>2. e \in pos .. Len(line) /\ SubSeq(line, pos + 1, e) = Seg.text
    BY <2>1, <1>5, LiteralFits DEF StartsWith
  <2>3. Fits(Segs, line, si, pos, e)
    <3>1. pos <= e
      BY <2>1, <2>2
    <3>2. Segs[si].lit /\ SubSeq(line, pos + 1, e) = Segs[si].text
      BY <2>2, <1>4
    <3> HIDE DEF e
    <3> QED  BY <3>1, <3>2, Zenon DEF Fits
  <2>4. Covered(Segs, line, caps, si, pos, Len(caps)) /\ Len(caps) \in Nat
    BY <1>1, <1>2 DEF PlaceOK, MatcherTyped
  <2>5. Segs[si].lit
    BY <1>4
  <2> HIDE DEF e
  <2>6. Covered(Segs, line, caps, si + 1, e, Len(caps))
    BY <1>1, <1>4, <2>1, <2>2, <2>3, <2>4, <2>5, CoverLiteral
  <2>7. si' = si + 1 /\ pos' = e /\ phase' = "enter"
    BY <1>2, <1>5 DEF LiteralSeg, e
  <2>8. PlaceOK'
    BY <1>1, <1>2, <1>4, <2>1, <2>2, <2>6, <2>7 DEF PlaceOK
  <2>9. MatcherTyped'
    BY <1>1, <1>2, <1>4, <2>1, <2>2, <2>7 DEF MatcherTyped
  <2> QED  BY <1>3, <2>7, <2>8, <2>9 DEF MatcherInv
<1>6. CASE ~StartsWith(Seg.text)
  <2>1. phase' = "false" /\ UNCHANGED <<si, pos>>
    BY <1>6 DEF LiteralSeg
  <2>2. PlaceOK'
    BY <2>1, <1>1, <1>2 DEF PlaceOK
  <2>3. MatcherTyped'
    BY <2>1, <1>1, <1>2 DEF MatcherTyped
  <2> QED  BY <1>3, <2>1, <2>2, <2>3 DEF MatcherInv
<1> QED  BY <1>5, <1>6

LEMMA CaptureInv ==
  ASSUME MatcherInv, CaptureSeg
  PROVE  MatcherInv'
<1>1. Segs \in Seq(SegType) /\ StackOK /\ CapsOK /\ PlaceOK /\ MatcherTyped
  BY SegsTyped DEF MatcherInv, Trying, CaptureSeg, StackOK
<1> DEFINE new == [seg |-> si, from |-> pos, to |-> Len(line) + 1, empty |-> FALSE]
<1>2. /\ UNCHANGED <<line, fmt, si, pos, caps, api>>
      /\ Segs' = Segs /\ phase = "enter" /\ phase' = "try"
      /\ stack' = Append(stack, new)
  BY DEF CaptureSeg, Segs
<1>3. /\ si \in 1 .. Len(Segs) /\ ~Segs[si].lit
      /\ pos \in 0 .. Len(line) /\ Len(line) \in Nat
      /\ Len(caps) = Len(stack)
      /\ Covered(Segs, line, caps, si, pos, Len(caps))
  BY <1>1, <1>2 DEF PlaceOK, CaptureSeg, Seg, MatcherTyped
<1>4. MatcherTyped'
  BY <1>1, <1>2, <1>3 DEF MatcherTyped
<1>5. /\ Len(stack') = Len(stack) + 1 /\ Len(stack) \in Nat
      /\ \A k \in 1 .. Len(stack) : stack'[k] = stack[k]
      /\ stack'[Len(stack) + 1] = new
  BY <1>1, <1>2 DEF MatcherTyped
<1>6. StackOK'
  <2>1. ASSUME NEW k \in DOMAIN stack'
        PROVE  /\ stack'[k].seg \in 1 .. Len(Segs) /\ ~Segs[stack'[k].seg].lit
               /\ stack'[k].from \in 0 .. Len(line)
               /\ stack'[k].to \in stack'[k].from .. Len(line) + 1
               /\ Covered(Segs, line, caps, stack'[k].seg, stack'[k].from, k - 1)
    <3>1. k \in 1 .. Len(stack) \/ k = Len(stack) + 1
      BY <1>4, <1>5 DEF MatcherTyped
    <3>2. CASE k \in 1 .. Len(stack)
      <4>1. k \in DOMAIN stack
        BY <3>2, <1>1 DEF MatcherTyped
      <4> QED  BY <4>1, <3>2, <1>1, <1>5 DEF StackOK
    <3>3. CASE k = Len(stack) + 1
      BY <3>3, <1>3, <1>5
    <3> QED  BY <3>1, <3>2, <3>3
  <2>2. fmt' \in DOMAIN Formats
    BY <1>1, <1>2 DEF StackOK
  <2> QED  BY <1>2, <2>1, <2>2 DEF StackOK
<1>7. CapsOK'
  BY <1>1, <1>2 DEF CapsOK
<1>8. PlaceOK'
  BY <1>2, <1>3, <1>5 DEF PlaceOK
<1> QED  BY <1>2, <1>4, <1>6, <1>7, <1>8 DEF MatcherInv

Frame == [seg : Nat, from : Nat, to : Nat, empty : BOOLEAN]

\* The pending captures stay in order when the topmost goes on or is given up
\* and the captures below it are kept.
LEMMA StackKept ==
  ASSUME MatcherTyped, StackOK, UNCHANGED <<line, fmt>>,
         stack' \in Seq(Frame), Len(stack') <= Len(stack),
         \A k \in 1 .. Len(stack') :
           /\ stack'[k].seg = stack[k].seg /\ stack'[k].from = stack[k].from
           /\ stack'[k].to \in stack[k].from .. Len(line) + 1,
         \A k \in 1 .. Len(stack') - 1 : caps'[k] = caps[k]
  PROVE  StackOK'
<1>1. Segs' = Segs /\ fmt' \in DOMAIN Formats /\ line' = line
  BY DEF Segs, StackOK
<1>2. ASSUME NEW k \in DOMAIN stack'
      PROVE  /\ stack'[k].seg \in 1 .. Len(Segs) /\ ~Segs[stack'[k].seg].lit
             /\ stack'[k].from \in 0 .. Len(line)
             /\ stack'[k].to \in stack'[k].from .. Len(line) + 1
             /\ Covered(Segs, line, caps', stack'[k].seg, stack'[k].from, k - 1)
  <2>1. k \in 1 .. Len(stack') /\ k \in DOMAIN stack
    <3>1. k \in 1 .. Len(stack') /\ Len(stack') \in Nat
      OBVIOUS
    <3>2. Len(stack) \in Nat /\ DOMAIN stack = 1 .. Len(stack)
      BY DEF MatcherTyped
    <3> QED  BY <3>1, <3>2
  <2>2. \A h \in 1 .. k - 1 : caps[h] = caps'[h]
    BY <2>1
  <2>3. /\ stack[k].seg \in 1 .. Len(Segs) /\ ~Segs[stack[k].seg].lit
        /\ stack[k].from \in 0 .. Len(line)
        /\ Covered(Segs, line, caps, stack[k].seg, stack[k].from, k - 1)
    BY <2>1 DEF StackOK
  <2>4. Covered(Segs, line, caps', stack[k].seg, stack[k].from, k - 1)
    BY <2>2, <2>3, CoverPrefix
  <2> QED  BY <2>1, <2>3, <2>4
<1> QED  BY <1>1, <1>2 DEF StackOK

\* The capture being tried.
LEMMA TopOK ==
  ASSUME MatcherInv, phase = "try"
  PROVE  /\ Segs \in Seq(SegType) /\ StackOK /\ CapsOK /\ MatcherTyped
         /\ stack \in Seq(Frame) /\ Len(stack) \in Nat \ {0} /\ Top \in Frame
         /\ Len(caps) = Len(stack) - 1
         /\ Top.seg \in 1 .. Len(Segs) /\ ~Segs[Top.seg].lit
         /\ Top.from \in 0 .. Len(line)
         /\ Top.to \in Top.from .. Len(line) + 1
         /\ Covered(Segs, line, caps, Top.seg, Top.from, Len(caps))
<1>1. Segs \in Seq(SegType) /\ StackOK /\ CapsOK /\ MatcherTyped /\ PlaceOK
  BY SegsTyped DEF MatcherInv, Trying, StackOK
<1>2. stack \in Seq(Frame)
  BY <1>1 DEF MatcherTyped, Frame
<1>3. Len(stack) \in Nat \ {0} /\ Len(caps) = Len(stack) - 1
  BY <1>1, <1>2 DEF PlaceOK
<1>4. Len(stack) \in DOMAIN stack /\ Top = stack[Len(stack)] /\ Top \in Frame
  BY <1>2, <1>3 DEF Top
<1> QED  BY <1>1, <1>2, <1>3, <1>4 DEF StackOK

\* The topmost entry is replaced.
LEMMA SetTop ==
  ASSUME NEW s \in Seq(Frame), Len(s) # 0, NEW r \in Frame
  PROVE  /\ [s EXCEPT ![Len(s)] = r] \in Seq(Frame)
         /\ Len([s EXCEPT ![Len(s)] = r]) = Len(s)
         /\ [s EXCEPT ![Len(s)] = r][Len(s)] = r
         /\ \A k \in 1 .. Len(s) : k # Len(s) => [s EXCEPT ![Len(s)] = r][k] = s[k]
  OBVIOUS

\* A capture is taken, and the rest of the pattern is tried behind it.
LEMMA DescendInv ==
  ASSUME MatcherInv, phase = "try", NEW e \in Top.from .. Len(line),
         Fits(Segs, line, Top.seg, Top.from, e),
         Descend(e), UNCHANGED <<api, line, fmt>>,
         stack' \in Seq(Frame), Len(stack') = Len(stack),
         \A k \in 1 .. Len(stack') :
           /\ stack'[k].seg = stack[k].seg /\ stack'[k].from = stack[k].from
           /\ stack'[k].to \in stack[k].from .. Len(line) + 1
  PROVE  MatcherInv'
<1> DEFINE new == <<Top.seg, Top.from, e>>
<1>1. /\ Segs \in Seq(SegType) /\ StackOK /\ CapsOK /\ MatcherTyped
      /\ stack \in Seq(Frame) /\ Len(stack) \in Nat \ {0} /\ Top \in Frame
      /\ Len(caps) = Len(stack) - 1
      /\ Top.seg \in 1 .. Len(Segs) /\ ~Segs[Top.seg].lit
      /\ Top.from \in 0 .. Len(line)
      /\ Covered(Segs, line, caps, Top.seg, Top.from, Len(caps))
  BY TopOK
<1>2. /\ caps' = Append(caps, new) /\ si' = Top.seg + 1 /\ pos' = e
      /\ phase' = "enter" /\ Segs' = Segs /\ line' = line
  BY DEF Descend, Segs
<1>3. caps \in Seq(CapType) /\ new \in CapType /\ line \in Seq(STRING) /\ e \in Nat
  <2>1. line \in Seq(STRING) /\ caps \in Seq(CapType)
    BY <1>1 DEF MatcherTyped
  <2>2. Len(Segs) \in Nat /\ Len(line) \in Nat
    BY <1>1, <2>1
  <2>3. Top.seg \in Nat /\ Top.from \in Nat /\ e \in Nat
    BY <1>1, <2>2
  <2> QED  BY <2>1, <2>3 DEF CapType
<1>4. Covered(Segs, line, caps', Top.seg + 1, e, Len(caps) + 1)
  BY <1>1, <1>2, <1>3, CoverCapture
<1>5. /\ caps' \in Seq(CapType) /\ Len(caps') = Len(caps) + 1
      /\ caps'[Len(caps) + 1] = new
      /\ \A k \in 1 .. Len(caps) : caps'[k] = caps[k]
  BY <1>2, <1>3
<1>6. StackOK'
  BY <1>1, <1>5, StackKept
<1>7. CapsOK'
  <2>1. \A k \in DOMAIN caps' : k \in 1 .. Len(caps) \/ k = Len(caps) + 1
    BY <1>5
  <2>2. \A k \in 1 .. Len(caps) : k \in DOMAIN caps /\ caps'[k] = caps[k]
    BY <1>3, <1>5
  <2>3. \A k \in 1 .. Len(caps) : caps[k][1] < Top.seg
    <3> TAKE k \in 1 .. Len(caps)
    <3>1. Top.seg \in Nat /\ Len(caps) \in Nat
      BY <1>1, <1>3
    <3> QED  BY <1>1, <3>1, CoveredEarlier
  <2>4. new[1] = Top.seg /\ new[2] = Top.from /\ new[3] = e
    OBVIOUS
  <2>5. Top.from <= e /\ e <= Len(line)
    BY <1>1
  <2>6. ASSUME NEW k \in DOMAIN caps'
        PROVE  caps'[k][2] <= caps'[k][3] /\ caps'[k][3] <= Len(line)
    BY <1>1, <1>5, <2>1, <2>2, <2>4, <2>5 DEF CapsOK
  <2>7. ASSUME NEW k \in DOMAIN caps', NEW m \in DOMAIN caps', k < m
        PROVE  caps'[k][1] < caps'[m][1]
    <3>1. k \in 1 .. Len(caps) /\ k \in DOMAIN caps
      BY <1>1, <1>5, <2>1, <2>2, <2>7
    <3>2. CASE m \in 1 .. Len(caps)
      BY <3>1, <3>2, <1>1, <2>2, <2>7 DEF CapsOK
    <3>3. CASE m = Len(caps) + 1
      BY <3>1, <3>3, <1>5, <2>2, <2>3, <2>4
    <3> QED  BY <2>1, <3>2, <3>3
  <2> QED  BY <1>2, <2>6, <2>7 DEF CapsOK
<1>8. PlaceOK'
  <2>1. si' \in 1 .. Len(Segs') + 1
    BY <1>1, <1>2
  <2>2. pos' \in 0 .. Len(line')
    BY <1>1, <1>2, <1>3
  <2>3. Len(caps') = Len(stack')
    BY <1>1, <1>5
  <2>4. Covered(Segs', line', caps', si', pos', Len(caps'))
    BY <1>2, <1>4, <1>5
  <2> QED  BY <1>2, <2>1, <2>2, <2>3, <2>4 DEF PlaceOK
<1>9. MatcherTyped'
  <2>1. si' \in Nat /\ pos' \in Nat
    BY <1>1, <1>2, <1>3
  <2> QED  BY <1>1, <1>2, <1>5, <2>1 DEF MatcherTyped, Frame
<1> QED  BY <1>2, <1>6, <1>7, <1>8, <1>9 DEF MatcherInv

LEMMA ShrinkInv ==
  ASSUME MatcherInv, Shrink
  PROVE  MatcherInv'
<1> DEFINE e == Top.to - 1
<1>1. /\ phase = "try" /\ Top.to > Top.from /\ UNCHANGED <<api, line, fmt>>
      /\ stack' = [stack EXCEPT ![Len(stack)].to = e]
  BY DEF Shrink
<1>2. /\ Segs \in Seq(SegType) /\ StackOK /\ CapsOK /\ MatcherTyped
      /\ stack \in Seq(Frame) /\ Len(stack) \in Nat \ {0} /\ Top \in Frame
      /\ Len(caps) = Len(stack) - 1
      /\ Top.seg \in 1 .. Len(Segs) /\ ~Segs[Top.seg].lit
      /\ Top.from \in 0 .. Len(line)
      /\ Top.to \in Top.from .. Len(line) + 1
  BY <1>1, TopOK
<1>3. e \in Top.from .. Len(line) /\ e \in Nat
  <2>1. Len(line) \in Nat
    BY <1>2 DEF MatcherTyped
  <2> QED  BY <1>1, <1>2, <2>1
<1> DEFINE r == [Top EXCEPT !.to = e]
<1>4. r \in Frame /\ r.seg = Top.seg /\ r.from = Top.from /\ r.to = e
  BY <1>2, <1>3 DEF Frame
<1>5. stack' = [stack EXCEPT ![Len(stack)] = r]
  BY <1>1, <1>2 DEF Top
<1> HIDE DEF r
<1>6. /\ stack' \in Seq(Frame) /\ Len(stack') = Len(stack)
       /\ stack'[Len(stack)] = r
       /\ \A k \in 1 .. Len(stack) : k # Len(stack) => stack'[k] = stack[k]
  BY <1>2, <1>4, <1>5, SetTop
<1>7. \A k \in 1 .. Len(stack') :
         /\ stack'[k].seg = stack[k].seg /\ stack'[k].from = stack[k].from
         /\ stack'[k].to \in stack[k].from .. Len(line) + 1
  <2> TAKE k \in 1 .. Len(stack')
  <2>1. k \in DOMAIN stack /\ stack[k].to \in stack[k].from .. Len(line) + 1
    <3>1. k \in 1 .. Len(stack)
      BY <1>2, <1>6
    <3>2. k \in DOMAIN stack
      BY <1>2, <3>1
    <3> QED  BY <1>2, <3>2, Zenon DEF StackOK
  <2>2. CASE k = Len(stack)
    <3>1. stack[k] = Top /\ stack'[k] = r
      BY <2>2, <1>6 DEF Top
    <3> QED  BY <3>1, <1>2, <1>3, <1>4
  <2>3. CASE k # Len(stack)
    BY <2>1, <2>3, <1>6
  <2> QED  BY <2>2, <2>3
<1>8. CASE ~IsCharBoundary(line, e)
  <2>1. phase' = "panicked" /\ UNCHANGED <<si, pos, caps>>
    BY <1>8 DEF Shrink
  <2>2. MatcherTyped'
    BY <1>1, <1>2, <1>6, <2>1 DEF MatcherTyped, Frame
  <2> QED  BY <2>1, <2>2 DEF MatcherInv, Trying
<1>9. CASE /\ IsCharBoundary(line, e)
           /\ TypeMatches(Segs[Top.seg].ty, SubSeq(line, Top.from + 1, e))
  <2>1. Descend(e)
    BY <1>9 DEF Shrink
  <2>2. Top.from <= e
    BY <1>2, <1>3
  <2> HIDE DEF e
  <2>3. Fits(Segs, line, Top.seg, Top.from, e)
    BY <1>2, <1>9, <2>2, Zenon DEF TypeMatches, Fits
  <2> QED  BY <1>1, <1>3, <1>6, <1>7, <2>1, <2>3, DescendInv
<1>10. CASE /\ IsCharBoundary(line, e)
           /\ ~TypeMatches(Segs[Top.seg].ty, SubSeq(line, Top.from + 1, e))
  <2>1. UNCHANGED <<si, pos, caps, phase>>
    BY <1>10 DEF Shrink
  <2>2. MatcherTyped'
    BY <1>1, <1>2, <1>6, <2>1 DEF MatcherTyped, Frame
  <2>3. StackOK'
    BY <1>1, <1>2, <1>6, <1>7, <2>1, StackKept
  <2>4. CapsOK' /\ PlaceOK'
    BY <1>1, <1>2, <1>6, <2>1 DEF CapsOK, PlaceOK
  <2> QED  BY <1>1, <2>1, <2>2, <2>3, <2>4 DEF MatcherInv
<1> QED  BY <1>8, <1>9, <1>10

LEMMA TryEmptyInv ==
  ASSUME MatcherInv, TryEmpty
  PROVE  MatcherInv'
<1>1. /\ phase = "try" /\ UNCHANGED <<api, line, fmt>>
      /\ stack' = [stack EXCEPT ![Len(stack)].empty = TRUE]
      /\ Segs[Top.seg].ty = "string" /\ Descend(Top.from)
  BY DEF TryEmpty
<1>2. /\ StackOK /\ MatcherTyped /\ stack \in Seq(Frame) /\ Len(stack) \in Nat \ {0}
      /\ ~Segs[Top.seg].lit /\ Top.from \in 0 .. Len(line) /\ Top \in Frame
  BY <1>1, TopOK
<1> DEFINE r == [Top EXCEPT !.empty = TRUE]
<1>3. r \in Frame /\ r.seg = Top.seg /\ r.from = Top.from /\ r.to = Top.to
  BY <1>2 DEF Frame
<1>4. stack' = [stack EXCEPT ![Len(stack)] = r]
  BY <1>1, <1>2 DEF Top
<1> HIDE DEF r
<1>5. /\ stack' \in Seq(Frame) /\ Len(stack') = Len(stack)
      /\ stack'[Len(stack)] = r
      /\ \A k \in 1 .. Len(stack) : k # Len(stack) => stack'[k] = stack[k]
  BY <1>2, <1>3, <1>4, SetTop
<1>6. \A k \in 1 .. Len(stack') :
        /\ stack'[k].seg = stack[k].seg /\ stack'[k].from = stack[k].from
        /\ stack'[k].to \in stack[k].from .. Len(line) + 1
  <2> TAKE k \in 1 .. Len(stack')
  <2>1. k \in DOMAIN stack /\ stack[k].to \in stack[k].from .. Len(line) + 1
    <3>1. k \in 1 .. Len(stack)
      BY <1>2, <1>5
    <3>2. k \in DOMAIN stack
      BY <1>2, <3>1
    <3> QED  BY <1>2, <3>2, Zenon DEF StackOK
  <2>2. CASE k = Len(stack)
    <3>1. stack[k] = Top /\ stack'[k] = r
      BY <2>2, <1>5 DEF Top
    <3> QED  BY <3>1, <2>1, <1>3
  <2>3. CASE k # Len(stack)
    BY <2>1, <2>3, <1>5
  <2> QED  BY <2>2, <2>3
<1>7. Top.from \in Top.from .. Len(line) /\ Top.from <= Top.from
  BY <1>2 DEF MatcherTyped
<1>8. Fits(Segs, line, Top.seg, Top.from, Top.from)
  BY <1>1, <1>2, <1>7, Zenon DEF Fits
<1> QED  BY <1>1, <1>5, <1>6, <1>7, <1>8, DescendInv

LEMMA ExhaustedInv ==
  ASSUME MatcherInv, Exhausted
  PROVE  MatcherInv'
<1>1. /\ phase = "try" /\ phase' = "false" /\ UNCHANGED <<api, line, fmt, si, pos, caps>>
      /\ stack' = SubSeq(stack, 1, Len(stack) - 1)
  BY DEF Exhausted, Pop
<1>2. /\ StackOK /\ CapsOK /\ MatcherTyped /\ stack \in Seq(Frame)
      /\ Len(stack) \in Nat \ {0} /\ Len(caps) = Len(stack) - 1
  BY <1>1, TopOK
<1>3. stack' \in Seq(Frame) /\ Len(stack') = Len(stack) - 1
  BY <1>1, <1>2
<1>4. \A k \in 1 .. Len(stack') :
        /\ stack'[k].seg = stack[k].seg /\ stack'[k].from = stack[k].from
        /\ stack'[k].to \in stack[k].from .. Len(line) + 1
  <2> TAKE k \in 1 .. Len(stack')
  <2>1. k \in DOMAIN stack /\ stack'[k] = stack[k]
    BY <1>1, <1>2, <1>3
  <2> QED  BY <2>1, <1>2 DEF StackOK
<1>5. StackOK'
  BY <1>1, <1>2, <1>3, <1>4, StackKept
<1>6. CapsOK' /\ PlaceOK'
  BY <1>1, <1>2, <1>3 DEF CapsOK, PlaceOK
<1>7. MatcherTyped'
  BY <1>1, <1>2, <1>3 DEF MatcherTyped, Frame
<1> QED  BY <1>1, <1>5, <1>6, <1>7 DEF MatcherInv

LEMMA BacktrackInv ==
  ASSUME MatcherInv, Backtrack
  PROVE  MatcherInv'
<1>1. /\ phase = "false" /\ stack # <<>> /\ phase' = "try"
      /\ UNCHANGED <<api, line, fmt, si, pos, stack>>
      /\ caps' = SubSeq(caps, 1, Len(caps) - 1)
  BY DEF Backtrack, Pop
<1>2. StackOK /\ CapsOK /\ PlaceOK /\ MatcherTyped
  BY <1>1 DEF MatcherInv, Trying
<1>3. /\ stack \in Seq(Frame) /\ Len(stack) \in Nat \ {0}
      /\ caps \in Seq(CapType) /\ Len(caps) = Len(stack)
  BY <1>1, <1>2 DEF MatcherTyped, PlaceOK, Frame
<1>4. /\ caps' \in Seq(CapType) /\ Len(caps') = Len(stack) - 1
      /\ \A k \in 1 .. Len(stack) - 1 : caps'[k] = caps[k] /\ k \in DOMAIN caps
  BY <1>1, <1>3
<1>5. \A k \in 1 .. Len(stack') :
        /\ stack'[k].seg = stack[k].seg /\ stack'[k].from = stack[k].from
        /\ stack'[k].to \in stack[k].from .. Len(line) + 1
  BY <1>1, <1>2, <1>3 DEF StackOK
<1>6. StackOK'
  BY <1>1, <1>2, <1>3, <1>4, <1>5, StackKept
<1>7. DOMAIN caps' = 1 .. Len(stack) - 1
  BY <1>4
<1>8. CapsOK'
  BY <1>1, <1>2, <1>4, <1>7 DEF CapsOK
<1>9. PlaceOK' /\ MatcherTyped'
  <2>1. PlaceOK'
    BY <1>1, <1>3, <1>4 DEF PlaceOK
  <2>2. MatcherTyped'
    BY <1>1, <1>2, <1>4 DEF MatcherTyped
  <2> QED  BY <2>1, <2>2
<1> QED  BY <1>1, <1>6, <1>8, <1>9 DEF MatcherInv

LEMMA FormatFailsInv ==
  ASSUME MatcherInv, FormatFails
  PROVE  MatcherInv'
<1>1. fmt \in DOMAIN Formats /\ MatcherTyped
  BY DEF MatcherInv, Trying, FormatFails, StackOK
<1>2. CASE fmt < Len(Formats)
  <2>1. Start(fmt + 1) /\ line' \in Seq(STRING) /\ api' \in Apis
    BY <1>1, <1>2 DEF FormatFails, MatcherTyped
  <2>2. fmt + 1 \in DOMAIN Formats
    BY <1>1, <1>2, MatcherAssumption
  <2> QED  BY <2>1, <2>2, StartInv
<1>3. CASE ~(fmt < Len(Formats))
  BY <1>1, <1>3 DEF FormatFails, MatcherInv, MatcherTyped, Trying
<1> QED  BY <1>2, <1>3

LEMMA MatcherInductive ==
  ASSUME MatcherInv, [Next]_vars
  PROVE  MatcherInv'
<1>1. CASE \E l \in Lines : Call(l)
  BY <1>1, CallInv
<1>2. CASE Matched
  <2>1. phase' \in {"idle", "panicked"} /\ UNCHANGED <<api, line, fmt, si, pos, stack, caps>>
    BY <1>2 DEF Matched
  <2> QED  BY <2>1 DEF MatcherInv, MatcherTyped, Trying
<1>3. CASE UNCHANGED vars
  <2>1. UNCHANGED <<api, line, fmt, si, pos, stack, caps, phase>>
    BY <1>3 DEF vars
  <2>2. Segs' = Segs
    BY <2>1 DEF Segs
  <2> QED  BY <2>1, <2>2 DEF MatcherInv, MatcherTyped, Trying, StackOK, CapsOK, PlaceOK
<1>4. CASE AtEnd \/ LiteralSeg \/ CaptureSeg \/ Shrink \/ TryEmpty
  BY <1>4, AtEndInv, LiteralInv, CaptureInv, ShrinkInv, TryEmptyInv
<1>5. CASE Exhausted \/ Backtrack \/ FormatFails
  BY <1>5, ExhaustedInv, BacktrackInv, FormatFailsInv
<1> QED  BY <1>1, <1>2, <1>3, <1>4, <1>5 DEF Next, Step, Over

\* The invariant says what a match is.
LEMMA InvTiles ==
  ASSUME MatcherInv
  PROVE  CapsTile
<1> SUFFICES ASSUME phase = "matched"
             PROVE  \E at \in Tilings(fmt, line) :
                      /\ {caps[i] : i \in DOMAIN caps} = CapsOf(fmt, at)
                      /\ \A i, j \in DOMAIN caps : i < j => caps[i][1] < caps[j][1]
  BY DEF CapsTile
<1> DEFINE n == Len(Segs)
<1>1. StackOK /\ CapsOK /\ PlaceOK /\ MatcherTyped
  BY DEF MatcherInv, Trying
<1>2. Segs \in Seq(SegType) /\ Segs = Formats[fmt].segs
  BY <1>1, SegsTyped DEF StackOK, Segs
<1>3. n \in Nat /\ DOMAIN Segs = 1 .. n /\ (n + 1) - 1 = n
  BY <1>2
<1>4. Covered(Segs, line, caps, n + 1, Len(line), Len(caps))
  BY <1>1 DEF PlaceOK
<1>5. DOMAIN caps = 1 .. Len(caps)
  BY <1>1 DEF MatcherTyped
<1> HIDE DEF n
<1>6. PICK at \in [1 .. n + 1 -> 0 .. Len(line)] :
        /\ at[1] = 0 /\ at[n + 1] = Len(line)
        /\ \A k \in 1 .. n : Fits(Segs, line, k, at[k], at[k + 1])
        /\ \A i \in 1 .. Len(caps) : \E k \in 1 .. n :
             ~Segs[k].lit /\ caps[i] = <<k, at[k], at[k + 1]>>
        /\ \A k \in 1 .. n :
             ~Segs[k].lit => \E i \in 1 .. Len(caps) : caps[i] = <<k, at[k], at[k + 1]>>
  BY <1>3, <1>4 DEF Covered
<1>7. at \in Tilings(fmt, line)
  BY <1>2, <1>6 DEF Tilings, Fits, n
<1>8. {caps[i] : i \in DOMAIN caps} = CapsOf(fmt, at)
  <2>1. CapsOf(fmt, at) = {<<k, at[k], at[k + 1]>> : k \in {k \in 1 .. n : ~Segs[k].lit}}
    BY <1>2, <1>3, Zenon DEF CapsOf
  <2>2. ASSUME NEW i \in DOMAIN caps PROVE caps[i] \in CapsOf(fmt, at)
    <3>1. PICK k \in 1 .. n : ~Segs[k].lit /\ caps[i] = <<k, at[k], at[k + 1]>>
      BY <1>5, <1>6, Zenon
    <3> QED  BY <2>1, <3>1, Zenon
  <2>3. ASSUME NEW c \in CapsOf(fmt, at) PROVE \E i \in DOMAIN caps : caps[i] = c
    <3>1. PICK k \in 1 .. n : ~Segs[k].lit /\ c = <<k, at[k], at[k + 1]>>
      BY <2>1, Zenon
    <3> QED  BY <1>5, <1>6, <3>1, Zenon
  <2> QED  BY <2>2, <2>3, Zenon
<1> QED  BY <1>1, <1>7, <1>8 DEF CapsOK

LEMMA MatcherInvInit == Init => MatcherInv
  BY DEF Init, MatcherInv, MatcherTyped, Trying, Apis

LEMMA MatcherInvHolds == Spec => []MatcherInv
<1>1. MatcherInv /\ [Next]_vars => MatcherInv'
  BY MatcherInductive
<1> QED  BY <1>1, MatcherInvInit, PTL DEF Spec

\* A match of match_segments covers the whole line: literals and captured
\* texts spell it out without a gap, and the reused context holds exactly one
\* capture for each capture segment, for all formats, lines and calls.
THEOREM MatchTilesLine == Spec => []CapsTile
<1>1. MatcherInv => CapsTile
  BY InvTiles
<1> QED  BY <1>1, MatcherInvHolds, PTL

-----------------------------------------------------------------------------
(* Redaction *)

\* Between two calls the result of parse_line is the record built from the
\* captures that the context still holds.
ResultOK ==
  api = "parse_line" =>
    \/ result = None
    \/ /\ phase = "idle" /\ fmt \in DOMAIN Formats /\ CapsOK
       /\ result = [some |-> TRUE, format |-> fmt,
                    fields |-> BuildRecord(Formats[fmt], RawFields)]

LEMMA ResultInductive ==
  ASSUME MatcherInv, ResultOK, [Next]_vars
  PROVE  ResultOK'
<1>1. CASE \E l \in Lines : Call(l)
  BY <1>1 DEF Call, ResultOK
<1>2. CASE Matched
  <2>1. /\ phase = "matched" /\ UNCHANGED <<api, line, fmt, caps>>
        /\ fmt \in DOMAIN Formats /\ CapsOK
    BY <1>2 DEF Matched, MatcherInv, Trying, StackOK
  <2>2. RawFields' = RawFields /\ CapsOK'
    BY <2>1 DEF RawFields, Segs, CapsOK
  <2> SUFFICES ASSUME api = "parse_line"
               PROVE  \/ result' = None
                      \/ /\ phase' = "idle"
                         /\ result' = [some |-> TRUE, format |-> fmt,
                                       fields |-> BuildRecord(Formats[fmt], RawFields)]
    BY <2>1, <2>2, Zenon DEF ResultOK
  <2>3. CASE BuildPanics(Formats[fmt], RawFields)
    <3>1. result' = result
      BY <1>2, <2>3 DEF Matched
    <3>2. phase # "idle"
      BY <2>1
    <3> QED  BY <3>1, <3>2, Zenon DEF ResultOK
  <2>4. CASE ~BuildPanics(Formats[fmt], RawFields)
    <3>1. api # "matches" /\ api # "match_line"
      OBVIOUS
    <3> QED  BY <1>2, <2>4, <3>1, Zenon DEF Matched
  <2> QED  BY <2>3, <2>4
<1>3. CASE UNCHANGED vars
  <2>1. UNCHANGED <<api, line, fmt, caps, phase, result>>
    BY <1>3 DEF vars
  <2>2. RawFields' = RawFields /\ CapsOK' = CapsOK
    BY <2>1 DEF RawFields, Segs, CapsOK
  <2> QED  BY <2>1, <2>2, Zenon DEF ResultOK
<1>4. CASE /\ AtEnd \/ LiteralSeg \/ CaptureSeg \/ Shrink \/ TryEmpty \/ Exhausted
              \/ Backtrack \/ FormatFails
  <2>1. phase # "idle" /\ UNCHANGED <<api, result>>
    BY <1>4 DEF AtEnd, LiteralSeg, CaptureSeg, Shrink, TryEmpty, Exhausted, Backtrack,
                FormatFails
  <2> QED  BY <2>1, Zenon DEF ResultOK
<1> QED  BY <1>1, <1>2, <1>3, <1>4 DEF Next, Step, Over

\* What mask_value and the digest leave to be seen.
LEMMA RedactHides ==
  ASSUME NEW mode, NEW text \in Seq(STRING)
  PROVE  Hides(ValueToAny(Redact(mode, text)), text)
<1>1. CASE mode = "mask"
  <2> DEFINE t == MaskValue(text)
  <2>1. ValueToAny(Redact(mode, text)) = [kind |-> "string", text |-> t, n |-> 0]
    BY <1>1 DEF ValueToAny, Redact, Value, AnyValue
  <2>2. Len(text) \in Nat
    OBVIOUS
  <2>3. Kept(text) \in 0 .. 2
    <3>1. CASE Len(text) < 2
      <4>1. Kept(text) = Len(text)
        BY <3>1 DEF Kept
      <4> QED  BY <2>2, <3>1, <4>1
    <3>2. CASE ~(Len(text) < 2)
      <4>1. Kept(text) = 2
        BY <3>2 DEF Kept
      <4> QED  BY <4>1
    <3> QED  BY <3>1, <3>2
  <2>4. \A k \in 1 .. Len(text) - 2 : t[k] = Star
    BY <2>2, <2>3 DEF MaskValue
  <2> QED  BY <2>1, <2>4 DEF Hides
<1>2. CASE mode # "mask"
  <2>1. ValueToAny(Redact(mode, text)) = [kind |-> "string", text |-> <<>>, n |-> 0]
    BY <1>2 DEF ValueToAny, Redact, Value, AnyValue
  <2> QED  BY <2>1 DEF Hides
<1> QED  BY <1>1, <1>2

LEMMA ResultHides ==
  ASSUME MatcherInv, ResultOK
  PROVE  RedactedEverywhere
<1> SUFFICES ASSUME api = "parse_line", result.some,
                    NEW i \in DOMAIN RawFields, IsFirst(RawFields, i),
                    Redactions(Formats[result.format], RawFields[i].name) # {}
             PROVE  /\ Hides(Exported.attributes[i].value, RawFields[i].text)
                    /\ RawFields[i].name = MessageField =>
                         Hides(Exported.body, RawFields[i].text)
  BY Zenon DEF RedactedEverywhere
<1> DEFINE F == Formats[fmt]
           fields == BuildRecord(F, RawFields)
           text == RawFields[i].text
<1>1. /\ fmt \in DOMAIN Formats /\ CapsOK
      /\ result = [some |-> TRUE, format |-> fmt, fields |-> fields]
  <2>1. result # None
    BY DEF None
  <2> QED  BY <2>1, Zenon DEF ResultOK
<1>2. result.format = fmt /\ result.fields = fields
  BY <1>1
<1>3. DOMAIN RawFields = 1 .. Len(caps) /\ Len(caps) \in Nat
  BY DEF RawFields, MatcherInv, MatcherTyped
<1>4. text \in Seq(STRING)
  <2>1. /\ i \in DOMAIN caps /\ caps[i] \in CapType
        /\ caps[i][2] <= caps[i][3] /\ caps[i][3] <= Len(line)
    BY <1>1, <1>3 DEF CapsOK, MatcherInv, MatcherTyped
  <2>2. caps[i][2] \in Nat /\ caps[i][3] \in Nat /\ line \in Seq(STRING)
    BY <2>1 DEF CapType, MatcherInv, MatcherTyped
  <2>3. text = SubSeq(line, caps[i][2] + 1, caps[i][3])
    BY <2>1 DEF RawFields
  <2> QED  BY <2>1, <2>2, <2>3
<1>5. /\ DOMAIN fields = DOMAIN RawFields
      /\ \A k \in DOMAIN RawFields : fields[k].name = RawFields[k].name
  BY DEF BuildRecord
<1>6. \E mode : fields[i].value = Redact(mode, text)
  <2>1. Redactions(F, RawFields[i].name) # {}
    BY <1>2
  <2> QED  BY <2>1 DEF BuildRecord
<1> HIDE DEF fields, F, text
<1>7. Hides(ValueToAny(fields[i].value), text)
  BY <1>4, <1>6, RedactHides
<1>8. Exported = LogRecord(result)
  BY DEF Exported, RecordsToPayload
<1>9. Exported.attributes[i].value = ValueToAny(fields[i].value)
  <2>1. Exported.attributes =
          [k \in DOMAIN fields |-> [key |-> fields[k].name,
                                    value |-> ValueToAny(fields[k].value)]]
    BY <1>2, <1>8 DEF LogRecord
  <2> QED  BY <2>1, <1>5
<1>10. ASSUME RawFields[i].name = MessageField
       PROVE  Hides(Exported.body, text)
  <2> DEFINE message == Found(fields, MessageField)
  <2>1. i \in message
    BY <1>3, <1>5, <1>10 DEF Found, IsFirst
  <2>2. ASSUME NEW k \in message PROVE k = i
    <3>1. k \in 1 .. Len(caps) /\ i \in 1 .. Len(caps)
      BY <1>3, <1>5 DEF Found
    <3>2. fields[k].name = fields[i].name
      BY <2>1 DEF Found
    <3>3. ~(k < i)
      BY <2>1, <3>1, <3>2 DEF Found, IsFirst
    <3>4. ~(i < k)
      BY <2>2, <3>1, <3>2 DEF Found, IsFirst
    <3> QED  BY <3>1, <3>3, <3>4
  <2> HIDE DEF message
  <2>3. message # {} /\ Least(message) = i
    BY <2>1, <2>2, <1>3 DEF Least
  <2>4. Exported.body = ValueToAny(fields[i].value)
    BY <1>2, <1>8, <2>3 DEF LogRecord, message
  <2> QED  BY <1>7, <2>4
<1> QED  BY <1>7, <1>9, <1>10 DEF text

\* A field declared redact leaves the process masked or hashed: neither its
\* attribute nor the body of the exported log record shows more than its last
\* two bytes, for all formats, coercions and lines.
THEOREM RedactionHolds == Spec => []RedactedEverywhere
<1>1. Init => ResultOK
  BY DEF Init, ResultOK
<1>2. MatcherInv /\ ResultOK /\ [Next]_vars => ResultOK'
  BY ResultInductive
<1>3. MatcherInv /\ ResultOK => RedactedEverywhere
  BY ResultHides
<1> QED  BY <1>1, <1>2, <1>3, MatcherInvHolds, PTL DEF Spec

-----------------------------------------------------------------------------
(* What is exported *)

\* fields.iter().find() finds the first.
LEMMA LeastIn ==
  ASSUME NEW T \in SUBSET Nat, T # {}
  PROVE  Least(T) \in T
<1>1. PICK x \in T : \A y \in T : ~(<<y, x>> \in OpToRel(<, Nat))
  BY WFMin, NatLessThanWellFounded
<1>2. \A y \in T : ~(y < x)
  BY <1>1 DEF OpToRel
<1>3. \A y \in T : x <= y
  BY <1>2
<1> QED  BY <1>3 DEF Least

\* Every capture is a text that its segment's type allows (type_matches).
CapsFit ==
  \A i \in DOMAIN caps :
    /\ caps[i][1] \in DOMAIN Segs /\ ~Segs[caps[i][1]].lit
    /\ Fits(Segs, line, caps[i][1], caps[i][2], caps[i][3])

\* The captures that a record was built from fit the line of the call.
ExportOK ==
  /\ Trying => line \in Lines
  /\ api = "parse_line" /\ result # None => line \in Lines /\ CapsFit

LEMMA TilingsFit ==
  ASSUME NEW f, NEW l
  PROVE  \A at \in Tilings(f, l) : \A k \in 1 .. Len(Formats[f].segs) :
           Fits(Formats[f].segs, l, k, at[k], at[k + 1])
  BY DEF Tilings, Fits

LEMMA MatchedFits ==
  ASSUME MatcherInv, phase = "matched"
  PROVE  CapsFit
<1>1. PICK at \in Tilings(fmt, line) : {caps[i] : i \in DOMAIN caps} = CapsOf(fmt, at)
  BY InvTiles, Zenon DEF CapsTile
<1>2. Segs = Formats[fmt].segs /\ Segs \in Seq(SegType)
  BY SegsTyped DEF Segs, MatcherInv, Trying, StackOK
<1>3. DOMAIN Segs = 1 .. Len(Segs)
  BY <1>2
<1> SUFFICES ASSUME NEW i \in DOMAIN caps
             PROVE  /\ caps[i][1] \in DOMAIN Segs /\ ~Segs[caps[i][1]].lit
                    /\ Fits(Segs, line, caps[i][1], caps[i][2], caps[i][3])
  BY Zenon DEF CapsFit
<1>4. caps[i] \in CapsOf(fmt, at)
  BY <1>1, Zenon
<1>5. CapsOf(fmt, at) =
        {<<k, at[k], at[k + 1]>> : k \in {k \in DOMAIN Segs : ~Segs[k].lit}}
  BY <1>2, Zenon DEF CapsOf
<1>6. PICK k \in DOMAIN Segs : ~Segs[k].lit /\ caps[i] = <<k, at[k], at[k + 1]>>
  BY <1>4, <1>5, Zenon
<1>7. Fits(Segs, line, k, at[k], at[k + 1])
  BY <1>2, <1>3, TilingsFit
<1>8. caps[i][1] = k /\ caps[i][2] = at[k] /\ caps[i][3] = at[k + 1]
  BY <1>6
<1> QED  BY <1>6, <1>7, <1>8, Zenon

LEMMA ExportInductive ==
  ASSUME MatcherInv, ResultOK, ExportOK, [Next]_vars
  PROVE  ExportOK'
<1>1. CASE \E l \in Lines : Call(l)
  BY <1>1 DEF Call, ExportOK
<1>2. CASE Matched
  <2>1. /\ phase = "matched" /\ UNCHANGED <<api, line, fmt, caps>>
        /\ phase' \in {"idle", "panicked"}
    BY <1>2 DEF Matched
  <2>2. line \in Lines
    BY <2>1 DEF ExportOK, Trying
  <2>3. CapsFit
    BY <2>1, MatchedFits
  <2>4. CapsFit'
    BY <2>1, <2>3 DEF CapsFit, Segs, Fits
  <2> QED  BY <2>1, <2>2, <2>4, Zenon DEF ExportOK
<1>3. CASE UNCHANGED vars
  <2>1. UNCHANGED <<api, line, fmt, caps, phase, result>>
    BY <1>3 DEF vars
  <2>2. CapsFit' = CapsFit /\ Trying' = Trying
    BY <2>1 DEF CapsFit, Segs, Fits, Trying
  <2> QED  BY <2>1, <2>2, Zenon DEF ExportOK
<1>4. CASE /\ AtEnd \/ LiteralSeg \/ CaptureSeg \/ Shrink \/ TryEmpty \/ Exhausted
              \/ Backtrack \/ FormatFails
  <2>1. Trying /\ phase # "idle" /\ UNCHANGED <<api, line, result>>
    BY <1>4 DEF AtEnd, LiteralSeg, CaptureSeg, Shrink, TryEmpty, Exhausted, Backtrack,
                FormatFails, Trying
  <2>2. api = "parse_line" => result = None
    BY <2>1, Zenon DEF ResultOK
  <2>3. line' \in Lines
    BY <2>1, Zenon DEF ExportOK
  <2>4. api' = "parse_line" => result' = None
    BY <2>1, <2>2
  <2> QED  BY <2>3, <2>4, Zenon DEF ExportOK
<1> QED  BY <1>1, <1>2, <1>3, <1>4 DEF Next, Step, Over

\* A text that stays a string is exported as it is.
LEMMA TextShows ==
  ASSUME NEW text
  PROVE  Shows("string", <<>>, text, ValueToAny(Value("str", text)))
<1>1. ValueToAny(Value("str", text)) = [kind |-> "string", text |-> text, n |-> 0]
  BY DEF ValueToAny, Value, AnyValue
<1> QED  BY <1>1 DEF Shows, Addresses

\* coerce_scalar and value_to_any keep what a text of the type says.
LEMMA ScalarShows ==
  ASSUME NEW ty \in Types, NEW variants, NEW text,
         ParsesAs("uint", text) => NumberOf(text) \in 0 .. 2 * I64 - 1,
         ty = "string" \/ ty = "bool" \/ ParsesAs(ty, text)
  PROVE  Shows(ty, variants, text, ValueToAny(CoerceScalar(ty, text)))
<1>1. CASE ty = "string"
  <2>1. CoerceScalar(ty, text) = Value("str", text)
    BY <1>1 DEF CoerceScalar
  <2>2. Shows(ty, variants, text, ValueToAny(Value("str", text)))
        = Shows("string", <<>>, text, ValueToAny(Value("str", text)))
    BY <1>1 DEF Shows, Addresses
  <2> QED  BY <2>1, <2>2, TextShows
<1>2. CASE ty # "string"
  <2>1. CoerceScalar(ty, text) = [as |-> ty, of |-> text, code |-> 0]
    BY <1>2 DEF CoerceScalar, Value
  <2>2. CASE ty \in {"int", "timestamp"}
    BY <2>1, <2>2 DEF ValueToAny, AnyValue, Shows, Addresses
  <2>3. CASE ty = "uint"
    <3> DEFINE N == NumberOf(text)
    <3>1. N \in 0 .. 2 * I64 - 1 /\ I64 \in Nat \ {0}
      BY <2>3, OtlpAssumption
    <3>2. ValueToAny(CoerceScalar(ty, text)) = [kind |-> "int", text |-> <<>>, n |-> AsI64(N)]
      BY <2>1, <2>3 DEF ValueToAny, AnyValue
    <3> HIDE DEF N
    <3>3. AsI64(N) \in -I64 .. I64 - 1 /\ N \in {AsI64(N), AsI64(N) + 2 * I64}
      BY <3>1 DEF AsI64
    <3> QED  BY <2>3, <3>2, <3>3 DEF Shows, Addresses, N
  <2>4. CASE ty \in {"bool", "float"}
    BY <2>1, <2>4 DEF ValueToAny, AnyValue, Shows, Addresses
  <2>5. CASE ty \in Addresses
    BY <2>1, <2>5 DEF ValueToAny, AnyValue, Shows, Addresses
  <2> QED  BY <1>2, <2>2, <2>3, <2>4, <2>5 DEF Types, Addresses
<1> QED  BY <1>1, <1>2

\* An enum text is exported as the code of a variant that it names, or stays
\* what it was if it names none (coerce_enum).
LEMMA EnumShows ==
  ASSUME NEW variants \in Seq(Seq(STRING)), NEW text, Usize(text) \subseteq Nat
  PROVE  \/ Shows("enum", variants, text, ValueToAny(CoerceEnum(variants, text)))
         \/ /\ Shows("string", <<>>, text, ValueToAny(CoerceEnum(variants, text)))
            /\ VariantsOf(variants, text) = {}
<1> DEFINE index == {n \in Usize(text) : n < Len(variants)}
           names == {i \in DOMAIN variants : IgnoreCase(variants[i]) = IgnoreCase(text)}
           Enum(n) == [as |-> "enum", of |-> text, code |-> n % U8]
<1>1. Len(variants) \in Nat /\ DOMAIN variants = 1 .. Len(variants)
  OBVIOUS
<1>2. CoerceEnum(variants, text) = IF index # {} THEN Enum(Least(index))
                                   ELSE IF names # {} THEN Enum(Least(names) - 1)
                                   ELSE Value("str", text)
  BY DEF CoerceEnum
<1>3. index \in SUBSET Nat /\ names \in SUBSET Nat
  BY <1>1
\* The code of a variant, in one byte.
<1>4. ASSUME NEW k \in VariantsOf(variants, text)
      PROVE  Shows("enum", variants, text, ValueToAny(Enum(k - 1)))
  <2>1. k - 1 \in Nat /\ U8 \in Nat \ {0}
    BY <1>1, RecordAssumption DEF VariantsOf
  <2>2. (k - 1) % U8 \in 0 .. U8 - 1
    BY <2>1
  <2>3. ValueToAny(Enum(k - 1)) = [kind |-> "int", text |-> <<>>, n |-> (k - 1) % U8]
    BY DEF ValueToAny, AnyValue
  <2> HIDE DEF Enum
  <2> QED  BY <2>2, <2>3 DEF Shows, Addresses
<1>5. CASE index # {}
  <2> DEFINE k == Least(index) + 1
  <2>1. Least(index) \in index
    BY <1>3, <1>5, LeastIn
  <2>2. Least(index) \in Nat /\ Least(index) \in Usize(text) /\ Least(index) < Len(variants)
    BY <1>3, <2>1
  <2>3. k \in DOMAIN variants /\ k - 1 = Least(index)
    BY <1>1, <2>2
  <2>4. k \in VariantsOf(variants, text)
    BY <2>2, <2>3 DEF VariantsOf
  <2>5. CoerceEnum(variants, text) = Enum(k - 1)
    BY <1>2, <1>5, <2>3
  <2> HIDE DEF k, Enum
  <2> QED  BY <1>4, <2>4, <2>5
<1>6. CASE index = {} /\ names # {}
  <2>1. Least(names) \in names
    BY <1>3, <1>6, LeastIn
  <2>2. Least(names) \in VariantsOf(variants, text)
    BY <2>1 DEF VariantsOf
  <2>3. CoerceEnum(variants, text) = Enum(Least(names) - 1)
    BY <1>2, <1>6
  <2> HIDE DEF Enum, names
  <2> QED  BY <1>4, <2>2, <2>3
<1>7. CASE index = {} /\ names = {}
  <2>1. CoerceEnum(variants, text) = Value("str", text)
    BY <1>2, <1>7
  <2>2. ASSUME NEW k \in VariantsOf(variants, text) PROVE FALSE
    <3>1. k \in DOMAIN variants /\ k \notin names
      BY <1>7 DEF VariantsOf
    <3>2. k - 1 \in Usize(text)
      BY <3>1 DEF VariantsOf
    <3>3. k - 1 < Len(variants)
      BY <1>1, <3>1
    <3> QED  BY <1>7, <3>2, <3>3
  <2> QED  BY <2>1, <2>2, TextShows
<1> QED  BY <1>5, <1>6, <1>7

\* What MatcherAssumption says of the coercions of a format.
LEMMA CoercionTyped ==
  ASSUME NEW f \in DOMAIN Formats, NEW c \in DOMAIN Formats[f].coercions
  PROVE  /\ DOMAIN Formats[f].coercions \subseteq Nat
         /\ Formats[f].coercions[c].to \in Types \cup {"enum"}
         /\ Formats[f].coercions[c].variants \in Seq(Seq(STRING))
<1>1. Formats[f] \in Format
  BY MatcherAssumption
<1> DEFINE C == [field : Seq(STRING), to : Types \cup {"enum"},
                 variants : Seq(Seq(STRING))]
           R == Seq([field : Seq(STRING), mode : {"hash", "mask"}])
           S == Seq(SegType)
           D == Seq(C)
<1>2. Formats[f] \in [segs : S, coercions : D, redactions : R]
  BY <1>1, Zenon DEF Format, SegType
<1> HIDE DEF D, R, S
<1>3. Formats[f].coercions \in D
  BY <1>2
<1>4. Formats[f].coercions[c] \in C /\ DOMAIN Formats[f].coercions \subseteq Nat
  <2> HIDE DEF C
  <2> QED  BY <1>3 DEF D
<1> QED  BY <1>4

\* A field of the record built from captures that fit.
LEMMA FieldShows ==
  ASSUME MatcherInv, fmt \in DOMAIN Formats, CapsOK, CapsFit, line \in Lines,
         NEW i \in DOMAIN caps
  PROVE  LET f == RawFields[i]
             F == Formats[fmt]
             v == ValueToAny(CoerceField(F, f.name, f.text))
             mine == CapturesOf(fmt, f.name)
             cs == {c \in DOMAIN F.coercions : F.coercions[c].field = f.name} IN
         (\A j, k \in mine : j = k) =>
           IF cs = {}
           THEN \A k \in mine : Shows(F.segs[k].ty, <<>>, f.text, v)
           ELSE LET C == F.coercions[Least(cs)] IN
                  \/ Shows(C.to, C.variants, f.text, v)
                  \/ /\ Shows("string", <<>>, f.text, v)
                     /\ IF C.to = "enum" THEN VariantsOf(C.variants, f.text) = {}
                        ELSE ~ParsesAs(C.to, f.text)
<1> DEFINE F == Formats[fmt]
           g == caps[i][1]
           name == RawFields[i].name
           text == RawFields[i].text
           mine == CapturesOf(fmt, name)
           cs == {c \in DOMAIN F.coercions : F.coercions[c].field = name}
           v == ValueToAny(CoerceField(F, name, text))
<1>1. /\ caps[i] \in CapType /\ caps[i][2] <= caps[i][3] /\ caps[i][3] <= Len(line)
      /\ line \in Seq(STRING)
  BY DEF CapsOK, MatcherInv, MatcherTyped
<1>2. caps[i][2] \in 0 .. Len(line) /\ caps[i][3] \in caps[i][2] .. Len(line)
  BY <1>1 DEF CapType
<1>3. text = SubSeq(line, caps[i][2] + 1, caps[i][3]) /\ name = Segs[g].field
  BY DEF RawFields
<1>4. /\ ParsesAs("uint", text) => NumberOf(text) \in 0 .. 2 * I64 - 1
      /\ Usize(text) \subseteq Nat
  BY <1>2, <1>3, ScalarAssumption, Zenon
<1>5. /\ g \in DOMAIN F.segs /\ ~F.segs[g].lit /\ F.segs = Segs
      /\ Fits(Segs, line, g, caps[i][2], caps[i][3])
  BY Zenon DEF CapsFit, Segs
<1>6. F.segs[g].ty = "string" \/ ParsesAs(F.segs[g].ty, text)
  BY <1>1, <1>3, <1>5, Zenon DEF Fits
<1>7. F.segs[g].ty \in Types
  <2>1. F.segs \in Seq(SegType)
    BY FormatTyped
  <2>2. F.segs[g] \in SegType
    BY <1>5, <2>1
  <2> QED  BY <2>2 DEF SegType
<1> SUFFICES ASSUME \A j, k \in mine : j = k
             PROVE  IF cs = {}
                    THEN \A k \in mine : Shows(F.segs[k].ty, <<>>, text, v)
                    ELSE LET C == F.coercions[Least(cs)] IN
                           \/ Shows(C.to, C.variants, text, v)
                           \/ /\ Shows("string", <<>>, text, v)
                              /\ IF C.to = "enum" THEN VariantsOf(C.variants, text) = {}
                                 ELSE ~ParsesAs(C.to, text)
  OBVIOUS
<1>8. CASE cs = {}
  <2>1. mine = {g}
    BY <1>3, <1>5 DEF CapturesOf
  <2>2. g \in Int
    BY <1>1 DEF CapType
  <2>3. Greatest({g}) = g
    BY <2>2 DEF Greatest
  <2>4. mine = {k \in DOMAIN F.segs : ~F.segs[k].lit /\ F.segs[k].field = name}
    BY DEF CapturesOf
  <2>5. Declared(F, name) = F.segs[g].ty
    BY <2>1, <2>3, <2>4 DEF Declared
  <2>6. CoerceField(F, name, text) = CoerceScalar(F.segs[g].ty, text)
    BY <1>8, <2>5 DEF CoerceField
  <2> HIDE DEF F, text, name, mine
  <2>7. Shows(F.segs[g].ty, <<>>, text, v)
    BY <1>4, <1>6, <1>7, <2>6, ScalarShows
  <2> QED  BY <1>8, <2>1, <2>7
<1>9. CASE cs # {}
  <2> DEFINE C == F.coercions[Least(cs)]
  <2>1. cs \in SUBSET Nat
    BY <1>9, CoercionTyped
  <2>2. Least(cs) \in cs
    BY <1>9, <2>1, LeastIn
  <2>3. C.to \in Types \cup {"enum"} /\ C.variants \in Seq(Seq(STRING))
    BY <2>2, CoercionTyped
  <2>4. CoerceField(F, name, text) =
          IF C.to = "enum" THEN CoerceEnum(C.variants, text) ELSE CoerceScalar(C.to, text)
    BY <1>9 DEF CoerceField
  <2> HIDE DEF C, F, text, name
  <2>5. CASE C.to = "enum"
    <3>1. v = ValueToAny(CoerceEnum(C.variants, text))
      BY <2>4, <2>5
    <3> HIDE DEF v
    <3>2. \/ Shows("enum", C.variants, text, v)
          \/ Shows("string", <<>>, text, v) /\ VariantsOf(C.variants, text) = {}
      BY <1>4, <2>3, <3>1, EnumShows
    <3> QED  BY <1>9, <2>5, <3>2 DEF C
  <2>6. CASE C.to # "enum" /\ (C.to \in {"string", "bool"} \/ ParsesAs(C.to, text))
    <3>1. v = ValueToAny(CoerceScalar(C.to, text))
      BY <2>4, <2>6
    <3>2. C.to \in Types /\ (C.to = "string" \/ C.to = "bool" \/ ParsesAs(C.to, text))
      BY <2>3, <2>6
    <3> HIDE DEF v
    <3>3. Shows(C.to, C.variants, text, v)
      BY <1>4, <3>1, <3>2, ScalarShows
    <3> QED  BY <1>9, <3>3 DEF C
  <2>7. CASE C.to # "enum" /\ C.to \notin {"string", "bool"} /\ ~ParsesAs(C.to, text)
    <3>1. v = ValueToAny(Value("str", text))
      BY <2>4, <2>7 DEF CoerceScalar
    <3> HIDE DEF v
    <3>2. Shows("string", <<>>, text, v)
      BY <3>1, TextShows
    <3> QED  BY <1>9, <2>7, <3>2 DEF C
  <2> QED  BY <2>5, <2>6, <2>7
<1> HIDE DEF F, name, text, mine, cs, v
<1> QED  BY <1>8, <1>9

LEMMA ResultShows ==
  ASSUME MatcherInv, ResultOK, ExportOK
  PROVE  ExportedAsDeclared
<1> SUFFICES ASSUME api = "parse_line", result.some
             PROVE  ExportedAsDeclared
  BY Zenon DEF ExportedAsDeclared
<1> DEFINE F == Formats[fmt]
           fields == BuildRecord(F, RawFields)
<1>1. result # None
  BY DEF None
<1>2. /\ fmt \in DOMAIN Formats /\ CapsOK /\ CapsFit /\ line \in Lines
      /\ result = [some |-> TRUE, format |-> fmt, fields |-> fields]
  BY <1>1, Zenon DEF ResultOK, ExportOK
<1>3. result.format = fmt /\ result.fields = fields
  BY <1>2
<1>4. /\ DOMAIN RawFields = DOMAIN caps /\ DOMAIN caps = 1 .. Len(caps)
      /\ Len(caps) \in Nat /\ Len(RawFields) = Len(caps)
  BY DEF RawFields, MatcherInv, MatcherTyped
<1>5. /\ DOMAIN fields = DOMAIN RawFields
      /\ \A k \in DOMAIN RawFields :
           /\ fields[k].name = RawFields[k].name
           /\ Redactions(F, RawFields[k].name) = {} =>
                fields[k].value = CoerceField(F, RawFields[k].name, RawFields[k].text)
  BY DEF BuildRecord
<1> HIDE DEF fields
<1>6. Exported = LogRecord(result)
  BY DEF Exported, RecordsToPayload
<1>7. Exported.attributes = [k \in DOMAIN fields |->
        [key |-> fields[k].name, value |-> ValueToAny(fields[k].value)]]
  BY <1>3, <1>6 DEF LogRecord
<1>8. Len(Exported.attributes) = Len(RawFields)
  BY <1>4, <1>5, <1>7
<1>9. ASSUME NEW i \in DOMAIN RawFields
      PROVE  LET f == RawFields[i]
                 a == Exported.attributes[i]
                 mine == CapturesOf(fmt, f.name)
                 cs == {c \in DOMAIN F.coercions : F.coercions[c].field = f.name} IN
             /\ a.key = f.name
             /\ (\A j, k \in mine : j = k) /\ Redactions(F, f.name) = {} =>
                  IF cs = {}
                  THEN \A k \in mine : Shows(F.segs[k].ty, <<>>, f.text, a.value)
                  ELSE LET C == F.coercions[Least(cs)] IN
                         \/ Shows(C.to, C.variants, f.text, a.value)
                         \/ /\ Shows("string", <<>>, f.text, a.value)
                            /\ IF C.to = "enum" THEN VariantsOf(C.variants, f.text) = {}
                               ELSE ~ParsesAs(C.to, f.text)
  <2> DEFINE a == Exported.attributes[i]
  <2>1. a = [key |-> fields[i].name, value |-> ValueToAny(fields[i].value)]
    BY <1>5, <1>7
  <2>2. a.key = RawFields[i].name /\ a.value = ValueToAny(fields[i].value)
    BY <1>5, <2>1
  <2>3. Redactions(F, RawFields[i].name) = {} =>
          a.value = ValueToAny(CoerceField(F, RawFields[i].name, RawFields[i].text))
    BY <1>5, <2>2
  <2>4. i \in DOMAIN caps
    BY <1>4
  <2> HIDE DEF a
  <2> QED  BY <1>2, <2>2, <2>3, <2>4, FieldShows, Zenon DEF a
<1> QED  BY <1>3, <1>8, <1>9, ZenonT(60) DEF ExportedAsDeclared

\* What the collector gets is what the schema declares: every capture arrives
\* under its name, in order, as a value of its declared type or of its first
\* coercion, and a coerced text that does not parse arrives as it was, for all
\* formats and lines.
THEOREM ExportsDeclared == Spec => []ExportedAsDeclared
<1>1. Init => ResultOK /\ ExportOK
  BY DEF Init, ResultOK, ExportOK, Trying
<1>2. MatcherInv /\ ResultOK /\ [Next]_vars => ResultOK'
  BY ResultInductive
<1>3. MatcherInv /\ ResultOK /\ ExportOK /\ [Next]_vars => ExportOK'
  BY ExportInductive
<1>4. MatcherInv /\ ResultOK /\ ExportOK => ExportedAsDeclared
  BY ResultShows
<1> QED  BY <1>1, <1>2, <1>3, <1>4, MatcherInvHolds, PTL DEF Spec

-----------------------------------------------------------------------------
(***************************************************************************)
(* The backtracking of match_segments is complete and greedy, for all      *)
(* formats and lines.  At every moment the ways to spell out the line that *)
(* are left are those that agree with the path being tried, or that are    *)
(* shorter than it at the first place where they differ: whatever is       *)
(* longer has been tried before and has failed.                            *)
(***************************************************************************)


\* The places a path gives to the segments.
Places(segs, l) == [1 .. Len(segs) + 1 -> 0 .. Len(l)]

Agree(at, other, n) == \A j \in 1 .. n : at[j] = other[j]

\* The first of the n places where they differ is longer in at.
Beats(at, other, n) ==
  \E k \in 1 .. n : at[k] > other[k] /\ \A j \in 1 .. k - 1 : at[j] = other[j]

\* The first n - 1 segments lie as at says; the captures among them are those
\* of the first m frames, each with the text it is trying.
Path(segs, l, st, cs, at, n, m) ==
  /\ at[1] = 0
  /\ \A k \in 1 .. n - 1 : Fits(segs, l, k, at[k], at[k + 1])
  /\ \A i \in 1 .. m :
       /\ st[i].seg \in 1 .. n - 1
       /\ at[st[i].seg] = st[i].from /\ at[st[i].seg + 1] = st[i].to
       /\ cs[i] = <<st[i].seg, st[i].from, st[i].to>>
  /\ \A i, j \in 1 .. m : i < j => st[i].seg < st[j].seg
  /\ \A k \in 1 .. n - 1 : segs[k].lit \/ \E i \in 1 .. m : st[i].seg = k

\* What Tilings says of one of its members, segment by segment.
Tiles(segs, l, other) ==
  /\ other \in Places(segs, l)
  /\ other[1] = 0 /\ other[Len(segs) + 1] = Len(l)
  /\ \A k \in 1 .. Len(segs) : Fits(segs, l, k, other[k], other[k + 1])

-----------------------------------------------------------------------------
(* Paths *)

LEMMA TilingsTile ==
  ASSUME NEW f, NEW l
  PROVE  \A other : other \in Tilings(f, l) <=> Tiles(Formats[f].segs, l, other)
  BY DEF Tilings, Tiles, Places, Fits

\* A literal has one length.
LEMMA LiteralEnds ==
  ASSUME NEW segs \in Seq(SegType), NEW l \in Seq(STRING), NEW k \in 1 .. Len(segs),
         segs[k].lit, NEW a \in 0 .. Len(l), NEW e \in 0 .. Len(l),
         Fits(segs, l, k, a, e)
  PROVE  /\ e = a + Len(segs[k].text)
         /\ \A i \in 1 .. Len(segs[k].text) : l[a + i] = segs[k].text[i]
<1> DEFINE text == segs[k].text
<1>1. a <= e /\ SubSeq(l, a + 1, e) = text
  BY Zenon DEF Fits
<1>2. text \in Seq(STRING)
  <2>1. segs[k] \in SegType
    OBVIOUS
  <2> QED  BY <2>1 DEF SegType
<1> HIDE DEF text
<1>3. Len(SubSeq(l, a + 1, e)) = e - a
  BY <1>1
<1>4. \A i \in 1 .. e - a : SubSeq(l, a + 1, e)[i] = l[a + i]
  BY <1>1
<1>5. Len(text) = e - a /\ \A i \in 1 .. e - a : text[i] = l[a + i]
  BY <1>1, <1>3, <1>4
<1> QED  BY <1>5 DEF text

\* A path can go on anywhere.
LEMMA PathExtends ==
  ASSUME NEW segs \in Seq(SegType), NEW l, NEW at \in Places(segs, l),
         NEW n \in 1 .. Len(segs), NEW e \in 0 .. Len(l)
  PROVE  \E to \in Places(segs, l) : to[n + 1] = e /\ \A j \in 1 .. n : to[j] = at[j]
<1> DEFINE to == [at EXCEPT ![n + 1] = e]
<1>1. /\ to \in Places(segs, l) /\ to[n + 1] = e
      /\ \A j \in 1 .. n : to[j] = at[j]
  BY DEF Places
<1> HIDE DEF to
<1> QED  BY <1>1, Zenon

\* The path goes on behind segment n, without a frame for a literal.
LEMMA PathLiteral ==
  ASSUME NEW segs \in Seq(SegType), NEW l \in Seq(STRING), NEW st, NEW cs,
         NEW at \in Places(segs, l), NEW n \in 1 .. Len(segs), NEW m \in Nat,
         NEW e \in 0 .. Len(l), segs[n].lit,
         Fits(segs, l, n, at[n], e),
         Path(segs, l, st, cs, at, n, m),
         NEW to, to[n + 1] = e, \A j \in 1 .. n : to[j] = at[j]
  PROVE  Path(segs, l, st, cs, to, n + 1, m)
<1>1. to[n + 1] = e /\ \A j \in 1 .. n : to[j] = at[j]
  OBVIOUS
<1> DEFINE N == (n + 1) - 1
<1>2. N = n
  OBVIOUS
<1> HIDE DEF N
<1>3. 1 \in 1 .. n /\ \A k \in 1 .. n : k = n \/ (k \in 1 .. n - 1 /\ k + 1 \in 1 .. n)
  OBVIOUS
<1>4. ASSUME NEW k \in 1 .. n PROVE Fits(segs, l, k, to[k], to[k + 1])
  <2>1. CASE k = n
    BY <2>1, <1>1
  <2>2. CASE k \in 1 .. n - 1 /\ k + 1 \in 1 .. n
    BY <2>2, <1>1, Zenon DEF Path
  <2> QED  BY <1>3, <2>1, <2>2
<1>5. ASSUME NEW i \in 1 .. m
      PROVE  /\ st[i].seg \in 1 .. n
             /\ to[st[i].seg] = st[i].from /\ to[st[i].seg + 1] = st[i].to
             /\ cs[i] = <<st[i].seg, st[i].from, st[i].to>>
  <2>1. /\ st[i].seg \in 1 .. n - 1
        /\ at[st[i].seg] = st[i].from /\ at[st[i].seg + 1] = st[i].to
        /\ cs[i] = <<st[i].seg, st[i].from, st[i].to>>
    BY Zenon DEF Path
  <2>2. st[i].seg \in 1 .. n /\ st[i].seg + 1 \in 1 .. n
    BY <2>1, SMTT(30)
  <2>3. to[st[i].seg] = st[i].from /\ to[st[i].seg + 1] = st[i].to
    BY <1>1, <2>1, <2>2
  <2> QED  BY <2>1, <2>2, <2>3
<1>6. ASSUME NEW k \in 1 .. n PROVE segs[k].lit \/ \E i \in 1 .. m : st[i].seg = k
  BY <1>3, Zenon DEF Path
<1>7. Path(segs, l, st, cs, to, n + 1, m)
  <2>1. to[1] = 0 /\ \A i, j \in 1 .. m : i < j => st[i].seg < st[j].seg
    BY <1>1, <1>3, Zenon DEF Path
  <2>2. /\ \A k \in 1 .. N : Fits(segs, l, k, to[k], to[k + 1])
        /\ \A i \in 1 .. m :
             /\ st[i].seg \in 1 .. N
             /\ to[st[i].seg] = st[i].from /\ to[st[i].seg + 1] = st[i].to
             /\ cs[i] = <<st[i].seg, st[i].from, st[i].to>>
        /\ \A k \in 1 .. N : segs[k].lit \/ \E i \in 1 .. m : st[i].seg = k
    BY <1>2, <1>4, <1>5, <1>6
  <2> QED  BY <2>1, <2>2, Zenon DEF Path, N
<1> QED  BY <1>7

\* The path goes on behind a capture, which is the text of a new frame.
LEMMA PathCapture ==
  ASSUME NEW segs \in Seq(SegType), NEW l \in Seq(STRING), NEW st, NEW cs,
         NEW at \in Places(segs, l), NEW n \in 1 .. Len(segs), NEW m \in Nat,
         NEW e \in 0 .. Len(l),
         Fits(segs, l, n, at[n], e),
         Path(segs, l, st, cs, at, n, m),
         st[m + 1].seg = n, st[m + 1].from = at[n], st[m + 1].to = e,
         cs[m + 1] = <<n, at[n], e>>,
         NEW to, to[n + 1] = e, \A j \in 1 .. n : to[j] = at[j]
  PROVE  Path(segs, l, st, cs, to, n + 1, m + 1)
<1>1. to[n + 1] = e /\ \A j \in 1 .. n : to[j] = at[j]
  OBVIOUS
<1> DEFINE N == (n + 1) - 1
<1>2. N = n
  OBVIOUS
<1> HIDE DEF N
<1>3. /\ 1 \in 1 .. n /\ n \in 1 .. n
      /\ \A k \in 1 .. n : k = n \/ (k \in 1 .. n - 1 /\ k + 1 \in 1 .. n)
  OBVIOUS
<1>4. ASSUME NEW k \in 1 .. n PROVE Fits(segs, l, k, to[k], to[k + 1])
  <2>1. CASE k = n
    BY <2>1, <1>1
  <2>2. CASE k \in 1 .. n - 1 /\ k + 1 \in 1 .. n
    BY <2>2, <1>1, Zenon DEF Path
  <2> QED  BY <1>3, <2>1, <2>2
<1>5. ASSUME NEW i \in 1 .. m
      PROVE  /\ st[i].seg \in 1 .. n - 1 /\ st[i].seg \in 1 .. n
             /\ to[st[i].seg] = st[i].from /\ to[st[i].seg + 1] = st[i].to
             /\ cs[i] = <<st[i].seg, st[i].from, st[i].to>>
  <2>1. /\ st[i].seg \in 1 .. n - 1
        /\ at[st[i].seg] = st[i].from /\ at[st[i].seg + 1] = st[i].to
        /\ cs[i] = <<st[i].seg, st[i].from, st[i].to>>
    BY Zenon DEF Path
  <2>2. st[i].seg \in 1 .. n /\ st[i].seg + 1 \in 1 .. n
    BY <2>1, SMTT(30)
  <2> QED  BY <1>1, <2>1, <2>2
<1>6. /\ st[m + 1].seg \in 1 .. n
      /\ to[st[m + 1].seg] = st[m + 1].from /\ to[st[m + 1].seg + 1] = st[m + 1].to
      /\ cs[m + 1] = <<st[m + 1].seg, st[m + 1].from, st[m + 1].to>>
  BY <1>1, <1>3
<1>7. m + 1 \in 1 .. m + 1 /\ \A i \in 1 .. m + 1 : i \in 1 .. m \/ i = m + 1
  OBVIOUS
<1>8. \A i, j \in 1 .. m + 1 : i < j => st[i].seg < st[j].seg
  <2> SUFFICES ASSUME NEW i \in 1 .. m + 1, NEW j \in 1 .. m + 1, i < j
               PROVE  st[i].seg < st[j].seg
    OBVIOUS
  <2>1. i \in 1 .. m
    OBVIOUS
  <2>2. CASE j \in 1 .. m
    BY <2>1, <2>2, Zenon DEF Path
  <2>3. CASE j = m + 1
    BY <1>5, <2>1, <2>3
  <2> QED  BY <1>7, <2>2, <2>3
<1>9. ASSUME NEW k \in 1 .. n
      PROVE  segs[k].lit \/ \E i \in 1 .. m + 1 : st[i].seg = k
  <2>1. CASE k = n
    BY <1>7, <2>1, Zenon
  <2>2. CASE k \in 1 .. n - 1
    <3>1. segs[k].lit \/ \E i \in 1 .. m : st[i].seg = k
      BY <2>2, Zenon DEF Path
    <3>2. \A i \in 1 .. m : i \in 1 .. m + 1
      OBVIOUS
    <3> QED  BY <3>1, <3>2, Zenon
  <2> QED  BY <1>3, <2>1, <2>2
<1>10. Path(segs, l, st, cs, to, n + 1, m + 1)
  <2>1. to[1] = 0
    BY <1>1, <1>3, Zenon DEF Path
  <2>2. /\ \A k \in 1 .. N : Fits(segs, l, k, to[k], to[k + 1])
        /\ \A i \in 1 .. m + 1 :
             /\ st[i].seg \in 1 .. N
             /\ to[st[i].seg] = st[i].from /\ to[st[i].seg + 1] = st[i].to
             /\ cs[i] = <<st[i].seg, st[i].from, st[i].to>>
        /\ \A k \in 1 .. N : segs[k].lit \/ \E i \in 1 .. m + 1 : st[i].seg = k
    BY <1>2, <1>4, <1>5, <1>6, <1>7, <1>9
  <2> QED  BY <1>8, <2>1, <2>2, Zenon DEF Path, N
<1> QED  BY <1>10

\* Only the first m frames and captures matter.
LEMMA PathPrefix ==
  ASSUME NEW segs, NEW l, NEW st, NEW cs, NEW ss, NEW ds, NEW at, NEW n, NEW m,
         \A i \in 1 .. m : ss[i] = st[i] /\ ds[i] = cs[i],
         Path(segs, l, st, cs, at, n, m)
  PROVE  Path(segs, l, ss, ds, at, n, m)
<1>1. /\ at[1] = 0
      /\ \A k \in 1 .. n - 1 : Fits(segs, l, k, at[k], at[k + 1])
  BY Zenon DEF Path
<1>2. ASSUME NEW i \in 1 .. m
      PROVE  /\ ss[i].seg \in 1 .. n - 1
             /\ at[ss[i].seg] = ss[i].from /\ at[ss[i].seg + 1] = ss[i].to
             /\ ds[i] = <<ss[i].seg, ss[i].from, ss[i].to>>
  <2>1. ss[i] = st[i] /\ ds[i] = cs[i]
    OBVIOUS
  <2>2. /\ st[i].seg \in 1 .. n - 1
        /\ at[st[i].seg] = st[i].from /\ at[st[i].seg + 1] = st[i].to
        /\ cs[i] = <<st[i].seg, st[i].from, st[i].to>>
    BY Zenon DEF Path
  <2> QED  BY <2>1, <2>2
<1>3. \A i, j \in 1 .. m : i < j => ss[i].seg < ss[j].seg
  <2>1. \A i, j \in 1 .. m : i < j => st[i].seg < st[j].seg
    BY Zenon DEF Path
  <2> QED  BY <2>1, Zenon
<1>4. ASSUME NEW k \in 1 .. n - 1
      PROVE  segs[k].lit \/ \E i \in 1 .. m : ss[i].seg = k
  <2>1. segs[k].lit \/ \E i \in 1 .. m : st[i].seg = k
    BY Zenon DEF Path
  <2> QED  BY <2>1, Zenon
<1> QED  BY <1>1, <1>2, <1>3, <1>4, Zenon DEF Path

\* The path up to the last of its captures.
LEMMA PathDrop ==
  ASSUME NEW segs, NEW l, NEW st, NEW cs, NEW at, NEW n \in Nat, NEW m \in Nat \ {0},
         Path(segs, l, st, cs, at, n, m)
  PROVE  /\ st[m].seg \in 1 .. n - 1
         /\ at[st[m].seg] = st[m].from /\ at[st[m].seg + 1] = st[m].to
         /\ Path(segs, l, st, cs, at, st[m].seg, m - 1)
<1> DEFINE g == st[m].seg
<1>1. m \in 1 .. m /\ \A i \in 1 .. m - 1 : i \in 1 .. m /\ i < m
  OBVIOUS
<1>2. /\ g \in 1 .. n - 1
      /\ at[g] = st[m].from /\ at[g + 1] = st[m].to
  BY <1>1, Zenon DEF Path
<1>3. \A k \in 1 .. g - 1 : k \in 1 .. n - 1 /\ k < g
  BY <1>2
<1> HIDE DEF g
<1>4. ASSUME NEW i \in 1 .. m - 1
      PROVE  /\ st[i].seg \in 1 .. g - 1
             /\ at[st[i].seg] = st[i].from /\ at[st[i].seg + 1] = st[i].to
             /\ cs[i] = <<st[i].seg, st[i].from, st[i].to>>
  <2>1. /\ st[i].seg \in 1 .. n - 1 /\ st[i].seg < g
        /\ at[st[i].seg] = st[i].from /\ at[st[i].seg + 1] = st[i].to
        /\ cs[i] = <<st[i].seg, st[i].from, st[i].to>>
    BY <1>1, Zenon DEF Path, g
  <2>2. st[i].seg \in 1 .. g - 1
    BY <1>2, <2>1
  <2> QED  BY <2>1, <2>2
<1>5. ASSUME NEW k \in 1 .. g - 1
      PROVE  segs[k].lit \/ \E i \in 1 .. m - 1 : st[i].seg = k
  <2>1. CASE ~segs[k].lit
    <3>1. PICK i \in 1 .. m : st[i].seg = k
      BY <1>3, <2>1, Zenon DEF Path
    <3>2. i # m
      BY <1>3, <3>1 DEF g
    <3>3. i \in 1 .. m - 1
      BY <3>2
    <3> QED  BY <3>1, <3>3, Zenon
  <2> QED  BY <2>1
<1>6. /\ at[1] = 0
      /\ \A k \in 1 .. g - 1 : Fits(segs, l, k, at[k], at[k + 1])
      /\ \A i, j \in 1 .. m - 1 : i < j => st[i].seg < st[j].seg
  BY <1>1, <1>3, Zenon DEF Path
<1>7. Path(segs, l, st, cs, at, g, m - 1)
  BY <1>4, <1>5, <1>6, Zenon DEF Path
<1> QED  BY <1>2, <1>7 DEF g

\* Where every way left is shorter than the path, it is shorter at the path's
\* last capture or before: a literal cannot differ.
LEMMA PathFalls ==
  ASSUME NEW segs \in Seq(SegType), NEW l \in Seq(STRING), NEW st, NEW cs,
         NEW at \in Places(segs, l), NEW n \in 1 .. Len(segs) + 1, NEW m \in Nat,
         Path(segs, l, st, cs, at, n, m),
         NEW other, Tiles(segs, l, other), Beats(at, other, n)
  PROVE  /\ m # 0
         /\ \/ Agree(at, other, st[m].seg) /\ other[st[m].seg + 1] < st[m].to
            \/ Beats(at, other, st[m].seg)
<1>1. PICK k \in 1 .. n : at[k] > other[k] /\ \A j \in 1 .. k - 1 : at[j] = other[j]
  BY Zenon DEF Beats
<1>2. Len(segs) \in Nat /\ n \in Nat /\ k \in Nat
  OBVIOUS
<1>3. /\ \A j \in 1 .. Len(segs) + 1 : at[j] \in 0 .. Len(l) /\ other[j] \in 0 .. Len(l)
      /\ Len(l) \in Nat
  <2>1. other \in Places(segs, l)
    BY Zenon DEF Tiles
  <2>2. \A j \in 1 .. Len(segs) + 1 : at[j] \in 0 .. Len(l) /\ other[j] \in 0 .. Len(l)
    BY <2>1, Zenon DEF Places
  <2> QED  BY <2>2
<1>4. at[1] = 0 /\ other[1] = 0
  BY Zenon DEF Path, Tiles
<1>5. k # 1
  BY <1>1, <1>4
<1>6. k - 1 \in 1 .. n - 1 /\ k - 1 \in 1 .. Len(segs) /\ k - 1 \in 1 .. k - 1 /\ (k - 1) + 1 = k
  BY <1>2, <1>5
<1> DEFINE h == k - 1
<1>7. /\ Fits(segs, l, h, at[h], at[k]) /\ Fits(segs, l, h, other[h], other[k])
      /\ at[h] = other[h]
  <2>1. /\ h \in 1 .. n - 1 /\ h \in 1 .. Len(segs) /\ h \in 1 .. k - 1 /\ h + 1 = k
    BY <1>6
  <2> HIDE DEF h
  <2>2. Fits(segs, l, h, at[h], at[h + 1]) /\ Fits(segs, l, h, other[h], other[h + 1])
    BY <2>1, Zenon DEF Path, Tiles
  <2>3. at[h] = other[h]
    BY <1>1, <2>1
  <2> QED  BY <2>1, <2>2, <2>3
<1>8. ~segs[h].lit
  <2> SUFFICES ASSUME segs[h].lit PROVE FALSE
    OBVIOUS
  <2>1. /\ at[h] \in 0 .. Len(l) /\ at[k] \in 0 .. Len(l) /\ other[h] \in 0 .. Len(l)
        /\ other[k] \in 0 .. Len(l)
    <3>1. h \in 1 .. Len(segs) + 1 /\ k \in 1 .. Len(segs) + 1
      BY <1>2, <1>6
    <3> QED  BY <1>3, <3>1
  <2>2. h \in 1 .. Len(segs)
    BY <1>6
  <2> HIDE DEF h
  <2>3. at[k] = at[h] + Len(segs[h].text) /\ other[k] = other[h] + Len(segs[h].text)
    BY <1>7, <2>1, <2>2, LiteralEnds, SMTT(30)
  <2>4. at[k] = other[k]
    BY <1>7, <2>3
  <2> QED  BY <1>1, <1>3, <2>1, <2>4
<1>9. h \in 1 .. n - 1 /\ h + 1 = k
  BY <1>6
<1> HIDE DEF h
<1>10. PICK i \in 1 .. m : st[i].seg = h
  BY <1>8, <1>9, Zenon DEF Path
<1>11. m # 0
  OBVIOUS
<1> DEFINE g == st[m].seg
<1>12. g \in 1 .. n - 1 /\ at[g + 1] = st[m].to
  BY <1>11, PathDrop, <1>2
<1>13. CASE i = m
  <2>1. k = g + 1 /\ 1 .. k - 1 = 1 .. g
    BY <1>9, <1>10, <1>12, <1>13
  <2>2. Agree(at, other, g)
    BY <1>1, <2>1, Zenon DEF Agree
  <2>3. at[k] \in 0 .. Len(l) /\ other[k] \in 0 .. Len(l) /\ at[k] = st[m].to
    <3>1. k \in 1 .. Len(segs) + 1
      BY <1>2
    <3> QED  BY <1>3, <1>12, <2>1, <3>1
  <2>4. other[g + 1] < st[m].to
    BY <1>1, <1>3, <2>1, <2>3
  <2> QED  BY <1>11, <2>2, <2>4 DEF g
<1>14. CASE i # m
  <2>1. i < m /\ m \in 1 .. m
    BY <1>14
  <2>2. st[i].seg < st[m].seg
    BY <2>1, Zenon DEF Path
  <2>3. k \in 1 .. g
    BY <1>2, <1>9, <1>10, <1>12, <2>2 DEF g
  <2>4. Beats(at, other, g)
    BY <1>1, <2>3, Zenon DEF Beats
  <2> QED  BY <1>11, <2>4 DEF g
<1> QED  BY <1>13, <1>14

-----------------------------------------------------------------------------
(* The search *)

\* The path to segment n, which is about to be tried at p: every way left goes
\* on from there or is shorter.
AheadOf(f, l, st, cs, n, p) ==
  \E at \in Places(Formats[f].segs, l) :
    /\ Path(Formats[f].segs, l, st, cs, at, n, Len(st))
    /\ at[n] = p
    /\ \A other \in Tilings(f, l) : Agree(at, other, n) \/ Beats(at, other, n)

\* The ends a capture has not tried yet.
Remaining(fr, x) == x < fr.to \/ (x = fr.from /\ ~fr.empty)

\* The path to the topmost capture, whose last attempt has failed: every way
\* left goes on from there with an end it has not tried, or is shorter.
BehindOf(f, l, st, cs) ==
  \E at \in Places(Formats[f].segs, l) :
    LET fr == st[Len(st)] IN
    /\ Path(Formats[f].segs, l, st, cs, at, fr.seg, Len(st) - 1)
    /\ at[fr.seg] = fr.from
    /\ \A other \in Tilings(f, l) :
         \/ Agree(at, other, fr.seg) /\ Remaining(fr, other[fr.seg + 1])
         \/ Beats(at, other, fr.seg)

NoWay(f, l) == Tilings(f, l) = {}

SearchOK ==
  /\ phase \in {"enter", "matched"} => AheadOf(fmt, line, stack, caps, si, pos)
  /\ phase \in {"try", "false"} /\ stack # <<>> => BehindOf(fmt, line, stack, caps)
  /\ phase = "false" /\ stack = <<>> => NoWay(fmt, line)
  /\ Trying => /\ \A f \in 1 .. fmt - 1 : NoWay(f, line)
               /\ \A k \in DOMAIN stack : stack[k].empty => stack[k].to = stack[k].from
  /\ phase = "idle" /\ calls > 0 /\ ~result.some =>
       \A f \in DOMAIN Formats : NoWay(f, line)

\* A path that no way goes on from falls back to its last capture.
LEMMA SearchFalls ==
  ASSUME NEW f \in DOMAIN Formats, NEW l \in Seq(STRING), NEW st \in Seq(Frame), NEW cs,
         NEW at \in Places(Formats[f].segs, l), NEW n \in 1 .. Len(Formats[f].segs) + 1,
         Path(Formats[f].segs, l, st, cs, at, n, Len(st)),
         \A other \in Tilings(f, l) : Beats(at, other, n)
  PROVE  /\ st = <<>> => NoWay(f, l)
         /\ st # <<>> => BehindOf(f, l, st, cs)
<1> DEFINE segs == Formats[f].segs
           m == Len(st)
           fr == st[m]
<1>1. segs \in Seq(SegType) /\ m \in Nat /\ n \in Nat
  BY FormatTyped
<1> HIDE DEF segs, m
<1>2. ASSUME NEW other \in Tilings(f, l)
      PROVE  /\ m # 0
             /\ \/ Agree(at, other, fr.seg) /\ other[fr.seg + 1] < fr.to
                \/ Beats(at, other, fr.seg)
  <2>1. Tiles(segs, l, other)
    BY TilingsTile DEF segs
  <2> QED  BY <1>1, <2>1, PathFalls DEF segs, m
<1>3. ASSUME st = <<>> PROVE NoWay(f, l)
  <2>1. m = 0
    BY <1>3 DEF m
  <2> QED  BY <1>2, <2>1, Zenon DEF NoWay
<1>4. ASSUME st # <<>> PROVE BehindOf(f, l, st, cs)
  <2>1. m \in Nat \ {0}
    BY <1>4 DEF m
  <2>2. at[fr.seg] = fr.from /\ Path(segs, l, st, cs, at, fr.seg, m - 1)
    BY <1>1, <2>1, PathDrop DEF segs, m
  <2> HIDE DEF fr
  <2>3. \A other \in Tilings(f, l) :
          \/ Agree(at, other, fr.seg) /\ Remaining(fr, other[fr.seg + 1])
          \/ Beats(at, other, fr.seg)
    BY <1>2, Zenon DEF Remaining
  <2> QED  BY <2>2, <2>3, Zenon DEF BehindOf, segs, m, fr
<1> QED  BY <1>3, <1>4

\* match_into: at the first segment nothing is decided yet.
LEMMA SearchStarts ==
  ASSUME NEW f \in DOMAIN Formats, Start(f), line' \in Seq(STRING),
         \A g \in 1 .. f - 1 : NoWay(g, line')
  PROVE  SearchOK'
<1> DEFINE segs == Formats[f].segs
           at == [k \in 1 .. Len(segs) + 1 |-> 0]
<1>1. segs \in Seq(SegType)
  BY FormatTyped
<1>2. at \in Places(segs, line') /\ at[1] = 0
  BY <1>1 DEF Places
<1>3. /\ fmt' = f /\ si' = 1 /\ pos' = 0 /\ stack' = <<>> /\ caps' = <<>>
      /\ phase' = "enter"
  BY DEF Start
<1> HIDE DEF at
<1>4. Path(segs, line', stack', caps', at, 1, 0)
  <2>1. \A k \in 1 .. 0 : FALSE
    OBVIOUS
  <2>2. 1 .. 1 - 1 = 1 .. 0
    OBVIOUS
  <2> QED  BY <1>2, <2>1, <2>2 DEF Path
<1>5. \A other \in Tilings(f, line') : Agree(at, other, 1)
  <2> TAKE other \in Tilings(f, line')
  <2>1. other[1] = 0
    BY TilingsTile DEF Tiles
  <2>2. \A j \in 1 .. 1 : j = 1
    OBVIOUS
  <2> QED  BY <1>2, <2>1, <2>2, Zenon DEF Agree
<1>6. Len(stack') = 0
  BY <1>3
<1>7. AheadOf(f, line', stack', caps', 1, 0)
  BY <1>2, <1>4, <1>5, <1>6, Zenon DEF AheadOf, segs
<1>8. \A k \in DOMAIN stack' : FALSE
  BY <1>3
<1> QED  BY <1>3, <1>7, <1>8 DEF SearchOK

\* What the two invariants say where a segment is about to be tried.
LEMMA AheadFacts ==
  ASSUME MatcherInv, SearchOK, phase = "enter"
  PROVE  /\ Segs \in Seq(SegType) /\ Segs = Formats[fmt].segs /\ fmt \in DOMAIN Formats
         /\ line \in Seq(STRING) /\ stack \in Seq(Frame)
         /\ si \in 1 .. Len(Segs) + 1
         /\ \A f \in 1 .. fmt - 1 : NoWay(f, line)
         /\ \A k \in DOMAIN stack : stack[k].empty => stack[k].to = stack[k].from
         /\ \E at \in Places(Segs, line) :
              /\ Path(Segs, line, stack, caps, at, si, Len(stack))
              /\ at[si] = pos
              /\ \A other \in Tilings(fmt, line) : Agree(at, other, si) \/ Beats(at, other, si)
<1>1. Trying
  BY DEF Trying
<1>2. MatcherTyped /\ StackOK /\ PlaceOK
  BY <1>1 DEF MatcherInv
<1>3. fmt \in DOMAIN Formats /\ Segs = Formats[fmt].segs /\ Segs \in Seq(SegType)
  BY <1>2, SegsTyped DEF StackOK, Segs
<1>4. AheadOf(fmt, line, stack, caps, si, pos)
  BY DEF SearchOK
<1>5. line \in Seq(STRING) /\ stack \in Seq(Frame)
  BY <1>2 DEF MatcherTyped, Frame
<1>6. si \in 1 .. Len(Segs) + 1
  BY <1>2 DEF PlaceOK
<1>7. /\ \A f \in 1 .. fmt - 1 : NoWay(f, line)
      /\ \A k \in DOMAIN stack : stack[k].empty => stack[k].to = stack[k].from
  BY <1>1 DEF SearchOK
<1> QED  BY <1>3, <1>4, <1>5, <1>6, <1>7, Zenon DEF AheadOf

\* The same where a capture is being tried, or has failed.
LEMMA BehindFacts ==
  ASSUME MatcherInv, SearchOK, phase \in {"try", "false"}, stack # <<>>
  PROVE  /\ Segs \in Seq(SegType) /\ Segs = Formats[fmt].segs /\ fmt \in DOMAIN Formats
         /\ line \in Seq(STRING) /\ stack \in Seq(Frame) /\ Len(stack) \in Nat \ {0}
         /\ Len(stack) \in DOMAIN stack /\ Top \in Frame
         /\ Top.seg \in 1 .. Len(Segs) /\ ~Segs[Top.seg].lit /\ Top.from \in 0 .. Len(line)
         /\ Top.to \in Top.from .. Len(line) + 1
         /\ \A f \in 1 .. fmt - 1 : NoWay(f, line)
         /\ \A k \in DOMAIN stack : stack[k].empty => stack[k].to = stack[k].from
         /\ \E at \in Places(Segs, line) :
              /\ Path(Segs, line, stack, caps, at, Top.seg, Len(stack) - 1)
              /\ at[Top.seg] = Top.from
              /\ \A other \in Tilings(fmt, line) :
                   \/ Agree(at, other, Top.seg) /\ Remaining(Top, other[Top.seg + 1])
                   \/ Beats(at, other, Top.seg)
<1>1. Trying
  BY DEF Trying
<1>2. MatcherTyped /\ StackOK
  BY <1>1 DEF MatcherInv
<1>3. fmt \in DOMAIN Formats /\ Segs = Formats[fmt].segs /\ Segs \in Seq(SegType)
  BY <1>2, SegsTyped DEF StackOK, Segs
<1>4. BehindOf(fmt, line, stack, caps)
  BY DEF SearchOK
<1>5. line \in Seq(STRING) /\ stack \in Seq(Frame)
  BY <1>2 DEF MatcherTyped, Frame
<1>6. Len(stack) \in Nat \ {0} /\ Len(stack) \in DOMAIN stack /\ Top \in Frame
  BY <1>5 DEF Top
<1>7. /\ Top.seg \in 1 .. Len(Segs) /\ ~Segs[Top.seg].lit /\ Top.from \in 0 .. Len(line)
      /\ Top.to \in Top.from .. Len(line) + 1
  BY <1>2, <1>6 DEF StackOK, Top
<1>8. /\ \A f \in 1 .. fmt - 1 : NoWay(f, line)
      /\ \A k \in DOMAIN stack : stack[k].empty => stack[k].to = stack[k].from
  BY <1>1 DEF SearchOK
<1> QED  BY <1>3, <1>4, <1>5, <1>6, <1>7, <1>8, Zenon DEF BehindOf, Top

\* A call of match_segments returns false.
LEMMA SearchFails ==
  ASSUME fmt \in DOMAIN Formats, line \in Seq(STRING), UNCHANGED <<line, fmt>>,
         phase' = "false", stack' \in Seq(Frame),
         NEW at \in Places(Segs, line), NEW n \in 1 .. Len(Segs) + 1,
         Path(Segs, line, stack', caps', at, n, Len(stack')),
         \A other \in Tilings(fmt, line) : Beats(at, other, n),
         \A f \in 1 .. fmt - 1 : NoWay(f, line),
         \A k \in DOMAIN stack' : stack'[k].empty => stack'[k].to = stack'[k].from
  PROVE  SearchOK'
<1>1. Segs = Formats[fmt].segs /\ fmt' = fmt /\ line' = line
  BY DEF Segs
<1>2. /\ stack' = <<>> => NoWay(fmt, line)
      /\ stack' # <<>> => BehindOf(fmt, line, stack', caps')
  BY <1>1, SearchFalls
<1> QED  BY <1>1, <1>2 DEF SearchOK

LEMMA SearchAtEnd ==
  ASSUME MatcherInv, SearchOK, AtEnd
  PROVE  SearchOK'
<1>1. /\ phase = "enter" /\ si > Len(Segs)
      /\ UNCHANGED <<line, fmt, si, pos, stack, caps>>
      /\ phase' = IF pos = Len(line) THEN "matched" ELSE "false"
  BY DEF AtEnd
<1>2. CASE pos = Len(line)
  <2>1. phase' = "matched"
    BY <1>1, <1>2
  <2> QED  BY <1>1, <2>1 DEF SearchOK, Trying
<1>3. CASE pos # Len(line)
  <2>1. phase' = "false"
    BY <1>1, <1>3
  <2>2. /\ Segs \in Seq(SegType) /\ Segs = Formats[fmt].segs /\ fmt \in DOMAIN Formats
        /\ line \in Seq(STRING) /\ stack \in Seq(Frame) /\ si \in 1 .. Len(Segs) + 1
        /\ \A f \in 1 .. fmt - 1 : NoWay(f, line)
        /\ \A k \in DOMAIN stack : stack[k].empty => stack[k].to = stack[k].from
    BY <1>1, AheadFacts
  <2>3. PICK at \in Places(Segs, line) :
          /\ Path(Segs, line, stack, caps, at, si, Len(stack))
          /\ at[si] = pos
          /\ \A other \in Tilings(fmt, line) : Agree(at, other, si) \/ Beats(at, other, si)
    BY <1>1, AheadFacts, Zenon
  <2>4. si = Len(Segs) + 1 /\ si \in 1 .. si
    BY <1>1, <2>2
  <2>5. ASSUME NEW other \in Tilings(fmt, line) PROVE Beats(at, other, si)
    <3>1. Tiles(Segs, line, other)
      BY <2>2, TilingsTile
    <3>2. other[si] # at[si]
      BY <1>3, <2>3, <2>4, <3>1 DEF Tiles
    <3>3. ~Agree(at, other, si)
      BY <2>4, <3>2, Zenon DEF Agree
    <3> QED  BY <2>3, <3>3, Zenon
  <2> QED  BY <1>1, <2>1, <2>2, <2>3, <2>5, SearchFails
<1> QED  BY <1>2, <1>3

LEMMA SearchLiteral ==
  ASSUME MatcherInv, SearchOK, LiteralSeg
  PROVE  SearchOK'
<1>1. /\ phase = "enter" /\ si <= Len(Segs) /\ Seg.lit
      /\ UNCHANGED <<line, fmt, stack, caps>>
  BY DEF LiteralSeg
<1>2. /\ Segs \in Seq(SegType) /\ Segs = Formats[fmt].segs /\ fmt \in DOMAIN Formats
      /\ line \in Seq(STRING) /\ stack \in Seq(Frame) /\ si \in 1 .. Len(Segs) + 1
      /\ \A f \in 1 .. fmt - 1 : NoWay(f, line)
      /\ \A k \in DOMAIN stack : stack[k].empty => stack[k].to = stack[k].from
  BY <1>1, AheadFacts
<1>3. PICK at \in Places(Segs, line) :
        /\ Path(Segs, line, stack, caps, at, si, Len(stack))
        /\ at[si] = pos
        /\ \A other \in Tilings(fmt, line) : Agree(at, other, si) \/ Beats(at, other, si)
  BY <1>1, AheadFacts, Zenon
<1> DEFINE text == Seg.text
           e == pos + Len(text)
<1>4. /\ si \in 1 .. Len(Segs) /\ si \in 1 .. si /\ Segs[si].lit /\ Segs[si].text = text
      /\ text \in Seq(STRING)
  <2>1. si \in 1 .. Len(Segs) /\ si \in 1 .. si
    BY <1>1, <1>2
  <2>2. Segs[si] \in SegType /\ Seg = Segs[si]
    BY <1>2, <2>1 DEF Seg
  <2> QED  BY <1>1, <2>1, <2>2 DEF SegType
<1>5. pos \in 0 .. Len(line) /\ Len(line) \in Nat /\ Len(text) \in Nat
  <2>1. at[si] \in 0 .. Len(line)
    BY <1>2 DEF Places
  <2> QED  BY <1>2, <1>3, <1>4, <2>1
<1> HIDE DEF text
\* A way that agrees with the path so far goes on with the literal.
<1>6. ASSUME NEW other \in Tilings(fmt, line), Agree(at, other, si)
      PROVE  StartsWith(text) /\ other[si + 1] = e
  <2>1. Tiles(Segs, line, other)
    BY <1>2, TilingsTile
  <2>2. other[si] = pos
    BY <1>3, <1>4, <1>6 DEF Agree
  <2>3. other[si + 1] \in 0 .. Len(line)
    BY <1>4, <2>1 DEF Tiles, Places
  <2>4. Fits(Segs, line, si, pos, other[si + 1])
    BY <1>4, <2>1, <2>2, Zenon DEF Tiles
  <2>5. /\ other[si + 1] = pos + Len(text)
        /\ \A i \in 1 .. Len(text) : line[pos + i] = text[i]
    <3>1. /\ other[si + 1] = pos + Len(Segs[si].text)
          /\ \A i \in 1 .. Len(Segs[si].text) : line[pos + i] = Segs[si].text[i]
      <4>1. Segs \in Seq(SegType) /\ line \in Seq(STRING) /\ si \in 1 .. Len(Segs)
        BY <1>2, <1>4
      <4>2. Segs[si].lit
        BY <1>4
      <4>3. pos \in 0 .. Len(line)
        BY <1>5
      <4> QED  BY <2>3, <2>4, <4>1, <4>2, <4>3, LiteralEnds
    <3> QED  BY <1>4, <3>1
  <2> QED  BY <1>5, <2>3, <2>5 DEF StartsWith
<1>7. CASE StartsWith(text)
  <2>1. e \in 0 .. Len(line) /\ e \in pos .. Len(line) /\ SubSeq(line, pos + 1, e) = text
    <3>1. /\ pos + Len(text) <= Len(line)
          /\ \A i \in 1 .. Len(text) : line[pos + i] = text[i]
      BY <1>7 DEF StartsWith
    <3>2. SubSeq(line, pos + 1, pos + Len(text)) = text
      <4>1. text \in Seq(STRING)
        BY <1>4
      <4>2. line \in Seq(STRING) /\ pos \in Nat
        BY <1>2, <1>5
      <4> QED  BY <3>1, <4>1, <4>2, LiteralFits
    <3>3. e \in 0 .. Len(line) /\ e \in pos .. Len(line)
      BY <1>5, <3>1
    <3> QED  BY <3>2, <3>3
  <2>2. si' = si + 1 /\ pos' = e /\ phase' = "enter"
    BY <1>1, <1>7 DEF LiteralSeg, text
  <2>3. Fits(Segs, line, si, at[si], e)
    <3>1. pos <= e /\ Segs[si].lit /\ SubSeq(line, pos + 1, e) = Segs[si].text
      BY <1>4, <1>5, <2>1
    <3> HIDE DEF e
    <3> QED  BY <1>3, <3>1, Zenon DEF Fits
  <2> HIDE DEF e
  <2>4. Len(stack) \in Nat
    BY <1>2
  <2>5. PICK to \in Places(Segs, line) : to[si + 1] = e /\ \A j \in 1 .. si : to[j] = at[j]
    <3>1. Segs \in Seq(SegType) /\ si \in 1 .. Len(Segs) /\ e \in 0 .. Len(line)
      BY <1>2, <1>4, <2>1
    <3> QED  BY <3>1, PathExtends
  <2>9. Path(Segs, line, stack, caps, to, si + 1, Len(stack))
    <3>1. /\ Path(Segs, line, stack, caps, at, si, Len(stack)) /\ e \in 0 .. Len(line)
          /\ si \in 1 .. Len(Segs) /\ Segs[si].lit
      BY <1>3, <1>4, <2>1
    <3>2. Segs \in Seq(SegType) /\ line \in Seq(STRING)
      BY <1>2
    <3> QED  BY <2>3, <2>4, <2>5, <3>1, <3>2, PathLiteral
  <2>6. \A j \in 1 .. si + 1 : j \in 1 .. si \/ j = si + 1
    BY <1>4
  <2>7. ASSUME NEW other \in Tilings(fmt, line)
        PROVE  Agree(to, other, si + 1) \/ Beats(to, other, si + 1)
    <3>1. CASE Agree(at, other, si)
      <4>1. other[si + 1] = e
        BY <1>6, <3>1
      <4> QED  BY <2>5, <2>6, <3>1, <4>1, Zenon DEF Agree
    <3>2. CASE Beats(at, other, si)
      <4>1. PICK k \in 1 .. si : at[k] > other[k] /\ \A j \in 1 .. k - 1 : at[j] = other[j]
        BY <3>2, Zenon DEF Beats
      <4>2. k \in 1 .. si + 1 /\ \A j \in 1 .. k - 1 : j \in 1 .. si
        BY <1>4
      <4>3. to[k] > other[k] /\ \A j \in 1 .. k - 1 : to[j] = other[j]
        BY <2>5, <4>1, <4>2, Zenon
      <4> QED  BY <4>2, <4>3, Zenon DEF Beats
    <3> QED  BY <1>3, <3>1, <3>2
  <2>8. AheadOf(fmt, line, stack, caps, si + 1, e)
    BY <1>2, <2>5, <2>7, <2>9, Zenon DEF AheadOf
  <2> QED  BY <1>1, <1>2, <2>2, <2>8 DEF SearchOK
<1>8. CASE ~StartsWith(text)
  <2>1. phase' = "false"
    BY <1>8 DEF LiteralSeg, text
  <2>2. \A other \in Tilings(fmt, line) : Beats(at, other, si)
    BY <1>3, <1>6, <1>8, Zenon
  <2> QED  BY <1>1, <1>2, <1>3, <2>1, <2>2, SearchFails
<1> QED  BY <1>7, <1>8

LEMMA SearchCapture ==
  ASSUME MatcherInv, SearchOK, CaptureSeg
  PROVE  SearchOK'
<1> DEFINE new == [seg |-> si, from |-> pos, to |-> Len(line) + 1, empty |-> FALSE]
<1>1. /\ phase = "enter" /\ si <= Len(Segs) /\ phase' = "try"
      /\ stack' = Append(stack, new)
      /\ UNCHANGED <<line, fmt, caps>>
  BY DEF CaptureSeg
<1>2. /\ Segs \in Seq(SegType) /\ Segs = Formats[fmt].segs /\ fmt \in DOMAIN Formats
      /\ line \in Seq(STRING) /\ stack \in Seq(Frame) /\ si \in 1 .. Len(Segs) + 1
      /\ \A f \in 1 .. fmt - 1 : NoWay(f, line)
      /\ \A k \in DOMAIN stack : stack[k].empty => stack[k].to = stack[k].from
  BY <1>1, AheadFacts
<1>3. PICK at \in Places(Segs, line) :
        /\ Path(Segs, line, stack, caps, at, si, Len(stack))
        /\ at[si] = pos
        /\ \A other \in Tilings(fmt, line) : Agree(at, other, si) \/ Beats(at, other, si)
  BY <1>1, AheadFacts, Zenon
<1>4. si \in 1 .. Len(Segs) /\ Len(line) \in Nat /\ si \in Nat
  BY <1>1, <1>2
<1>5. pos \in Nat
  BY DEF MatcherInv, MatcherTyped
<1>6. new \in Frame /\ new.seg = si /\ new.from = pos /\ new.to = Len(line) + 1 /\ ~new.empty
  BY <1>4, <1>5 DEF Frame
<1> HIDE DEF new
<1>7. /\ Len(stack) \in Nat /\ Len(stack') = Len(stack) + 1
      /\ \A k \in 1 .. Len(stack) : stack'[k] = stack[k]
      /\ stack'[Len(stack')] = new
      /\ DOMAIN stack' = 1 .. Len(stack) + 1 /\ DOMAIN stack = 1 .. Len(stack)
  BY <1>1, <1>2, <1>6
<1>8. Len(stack') - 1 = Len(stack)
  BY <1>7
<1>9. Path(Segs, line, stack', caps', at, si, Len(stack))
  BY <1>1, <1>3, <1>7, PathPrefix
<1>10. ASSUME NEW other \in Tilings(fmt, line)
       PROVE  \/ Agree(at, other, si) /\ Remaining(new, other[si + 1])
              \/ Beats(at, other, si)
  <2>1. other[si + 1] \in 0 .. Len(line)
    <3>1. other \in Places(Segs, line) /\ si + 1 \in 1 .. Len(Segs) + 1
      BY <1>2, <1>4, TilingsTile DEF Tiles
    <3> QED  BY <3>1, Zenon DEF Places
  <2>2. Remaining(new, other[si + 1])
    BY <1>4, <1>6, <2>1 DEF Remaining
  <2> QED  BY <1>3, <2>2, Zenon
<1>11. BehindOf(fmt, line, stack', caps')
  <2>1. /\ Path(Segs, line, stack', caps', at, new.seg, Len(stack') - 1)
        /\ at[new.seg] = new.from
        /\ \A other \in Tilings(fmt, line) :
             \/ Agree(at, other, new.seg) /\ Remaining(new, other[new.seg + 1])
             \/ Beats(at, other, new.seg)
    BY <1>3, <1>6, <1>8, <1>9, <1>10
  <2> QED  BY <1>2, <1>7, <2>1, Zenon DEF BehindOf
<1>12. \A k \in DOMAIN stack' : stack'[k].empty => stack'[k].to = stack'[k].from
  <2> TAKE k \in DOMAIN stack'
  <2>1. k \in 1 .. Len(stack) \/ k = Len(stack')
    BY <1>7
  <2> QED  BY <1>2, <1>6, <1>7, <2>1
<1> QED  BY <1>1, <1>2, <1>11, <1>12 DEF SearchOK

\* Where a way that agrees with the path ends the capture.
LEMMA WayEnds ==
  ASSUME NEW segs \in Seq(SegType), NEW l \in Seq(STRING), NEW at, NEW other,
         Tiles(segs, l, other), NEW g \in 1 .. Len(segs), Agree(at, other, g),
         NEW a \in 0 .. Len(l), at[g] = a
  PROVE  other[g + 1] \in a .. Len(l) /\ Fits(segs, l, g, a, other[g + 1])
<1>1. g \in 1 .. g /\ g + 1 \in 1 .. Len(segs) + 1
  OBVIOUS
<1>2. other[g] = a
  BY <1>1, Zenon DEF Agree
<1>3. Fits(segs, l, g, a, other[g + 1])
  BY <1>2, Zenon DEF Tiles
<1>4. other[g + 1] \in 0 .. Len(l)
  BY <1>1, Zenon DEF Tiles, Places
<1>5. a <= other[g + 1]
  BY <1>3, Zenon DEF Fits
<1> QED  BY <1>3, <1>4, <1>5

\* A capture is taken: the ends it has not tried are no longer than this one.
LEMMA SearchDescends ==
  ASSUME MatcherInv, SearchOK, phase = "try", stack # <<>>, NEW e \in Top.from .. Len(line),
         Fits(Segs, line, Top.seg, Top.from, e),
         Descend(e), UNCHANGED <<line, fmt>>,
         stack' \in Seq(Frame), Len(stack') = Len(stack),
         \A k \in 1 .. Len(stack) - 1 : stack'[k] = stack[k],
         NEW r \in Frame, stack'[Len(stack)] = r,
         r.seg = Top.seg, r.from = Top.from, r.to = e, r.empty => e = Top.from,
         \A x \in Top.from .. Len(line) : Remaining(Top, x) => x <= e
  PROVE  SearchOK'
<1> DEFINE g == Top.seg
           m == Len(stack) - 1
<1>1. /\ Segs \in Seq(SegType) /\ Segs = Formats[fmt].segs /\ fmt \in DOMAIN Formats
      /\ line \in Seq(STRING) /\ stack \in Seq(Frame) /\ Len(stack) \in Nat \ {0}
      /\ Top.seg \in 1 .. Len(Segs) /\ Top.from \in 0 .. Len(line)
      /\ \A f \in 1 .. fmt - 1 : NoWay(f, line)
      /\ \A k \in DOMAIN stack : stack[k].empty => stack[k].to = stack[k].from
  BY BehindFacts
<1>2. PICK at \in Places(Segs, line) :
        /\ Path(Segs, line, stack, caps, at, Top.seg, Len(stack) - 1)
        /\ at[Top.seg] = Top.from
        /\ \A other \in Tilings(fmt, line) :
             \/ Agree(at, other, Top.seg) /\ Remaining(Top, other[Top.seg + 1])
             \/ Beats(at, other, Top.seg)
  BY BehindFacts
<1>3. /\ caps' = Append(caps, <<Top.seg, Top.from, e>>) /\ si' = Top.seg + 1 /\ pos' = e
      /\ phase' = "enter"
  BY DEF Descend
<1>4. /\ g \in 1 .. Len(Segs) /\ m \in Nat /\ m + 1 = Len(stack)
      /\ e \in 0 .. Len(line) /\ Len(line) \in Nat
  BY <1>1
<1>5. caps \in Seq(CapType) /\ Len(caps) = m
  BY TopOK DEF MatcherTyped
<1>6. /\ \A i \in 1 .. m : stack'[i] = stack[i] /\ caps'[i] = caps[i]
      /\ stack'[m + 1] = r
      /\ caps'[m + 1] = <<g, at[g], e>>
  <2>1. /\ \A i \in 1 .. Len(caps) : caps'[i] = caps[i]
        /\ caps'[Len(caps) + 1] = <<Top.seg, Top.from, e>>
    BY <1>3, <1>5
  <2> QED  BY <1>2, <1>4, <1>5, <2>1
<1>7. PICK to \in Places(Segs, line) : to[g + 1] = e /\ \A j \in 1 .. g : to[j] = at[j]
  <2>1. Segs \in Seq(SegType) /\ g \in 1 .. Len(Segs) /\ e \in 0 .. Len(line)
    BY <1>1, <1>4
  <2> HIDE DEF g
  <2> QED  BY <2>1, PathExtends
<1>8. Path(Segs, line, stack', caps', to, g + 1, m + 1)
  <2>1. /\ Path(Segs, line, stack, caps, at, g, m)
        /\ Fits(Segs, line, g, at[g], e)
        /\ r.seg = g /\ r.from = at[g] /\ r.to = e
    BY <1>2
  <2>2. /\ Segs \in Seq(SegType) /\ line \in Seq(STRING) /\ g \in 1 .. Len(Segs)
        /\ m \in Nat /\ e \in 0 .. Len(line)
    BY <1>1, <1>4
  <2> HIDE DEF g, m
  <2>3. /\ stack'[m + 1].seg = g /\ stack'[m + 1].from = at[g] /\ stack'[m + 1].to = e
        /\ caps'[m + 1] = <<g, at[g], e>>
        /\ \A i \in 1 .. m : stack'[i] = stack[i] /\ caps'[i] = caps[i]
    BY <1>6, <2>1
  <2>4. Path(Segs, line, stack', caps', at, g, m)
    BY <2>1, <2>3, PathPrefix
  <2> QED  BY <1>7, <2>1, <2>2, <2>3, <2>4, PathCapture
<1>9. \A j \in 1 .. g + 1 : j \in 1 .. g \/ j = g + 1
  BY <1>4
<1>10. ASSUME NEW other \in Tilings(fmt, line)
       PROVE  Agree(to, other, g + 1) \/ Beats(to, other, g + 1)
  <2>1. CASE Agree(at, other, g) /\ Remaining(Top, other[g + 1])
    <3>1. Tiles(Segs, line, other)
      BY <1>1, TilingsTile
    <3>2. other[g + 1] \in Top.from .. Len(line)
      BY <1>1, <1>2, <2>1, <3>1, WayEnds
    <3>3. other[g + 1] <= e
      BY <2>1, <3>2
    <3>4. CASE other[g + 1] = e
      BY <1>7, <1>9, <2>1, <3>4, Zenon DEF Agree
    <3>5. CASE other[g + 1] < e
      <4>1. to[g + 1] > other[g + 1]
        BY <1>4, <1>7, <3>2, <3>5, <1>1
      <4>2. g + 1 \in 1 .. g + 1 /\ 1 .. (g + 1) - 1 = 1 .. g
        BY <1>4
      <4>3. \A j \in 1 .. (g + 1) - 1 : to[j] = other[j]
        BY <1>7, <2>1, <4>2, Zenon DEF Agree
      <4> QED  BY <4>1, <4>2, <4>3, Zenon DEF Beats
    <3> QED  BY <1>1, <1>4, <3>2, <3>3, <3>4, <3>5
  <2>2. CASE Beats(at, other, g)
    <3>1. PICK k \in 1 .. g : at[k] > other[k] /\ \A j \in 1 .. k - 1 : at[j] = other[j]
      BY <2>2, Zenon DEF Beats
    <3>2. k \in 1 .. g + 1 /\ \A j \in 1 .. k - 1 : j \in 1 .. g
      BY <1>4
    <3>3. to[k] > other[k] /\ \A j \in 1 .. k - 1 : to[j] = other[j]
      BY <1>7, <3>1, <3>2, Zenon
    <3> QED  BY <3>2, <3>3, Zenon DEF Beats
  <2> QED  BY <1>2, <2>1, <2>2
<1>11. AheadOf(fmt, line, stack', caps', g + 1, e)
  <2>1. m + 1 = Len(stack')
    BY <1>4
  <2> HIDE DEF g, m
  <2> QED  BY <1>1, <1>7, <1>8, <1>10, <2>1, Zenon DEF AheadOf
<1>12. \A k \in DOMAIN stack' : stack'[k].empty => stack'[k].to = stack'[k].from
  <2> TAKE k \in DOMAIN stack'
  <2>1. CASE k \in 1 .. Len(stack) - 1
    <3>1. k \in DOMAIN stack /\ stack'[k] = stack[k]
      BY <1>1, <2>1
    <3> QED  BY <1>1, <3>1
  <2>2. CASE k = Len(stack)
    BY <2>2
  <2>3. k \in 1 .. Len(stack) - 1 \/ k = Len(stack)
    BY <1>1
  <2> QED  BY <2>1, <2>2, <2>3
<1> QED  BY <1>1, <1>3, <1>11, <1>12 DEF SearchOK

LEMMA SearchShrink ==
  ASSUME MatcherInv, SearchOK, Shrink
  PROVE  SearchOK'
<1> DEFINE e == Top.to - 1
           r == [Top EXCEPT !.to = e]
           text == SubSeq(line, Top.from + 1, e)
<1>1. /\ phase = "try" /\ Top.to > Top.from /\ UNCHANGED <<line, fmt>>
      /\ stack' = [stack EXCEPT ![Len(stack)].to = e]
  BY DEF Shrink
<1>2. stack # <<>>
  BY <1>1, TopOK
<1>3. /\ Segs \in Seq(SegType) /\ Segs = Formats[fmt].segs /\ fmt \in DOMAIN Formats
      /\ line \in Seq(STRING) /\ stack \in Seq(Frame) /\ Len(stack) \in Nat \ {0}
      /\ Len(stack) \in DOMAIN stack /\ Top \in Frame
      /\ Top.seg \in 1 .. Len(Segs) /\ ~Segs[Top.seg].lit /\ Top.from \in 0 .. Len(line)
      /\ Top.to \in Top.from .. Len(line) + 1
      /\ \A f \in 1 .. fmt - 1 : NoWay(f, line)
      /\ \A k \in DOMAIN stack : stack[k].empty => stack[k].to = stack[k].from
  BY <1>1, <1>2, BehindFacts
<1>4. /\ e \in Top.from .. Len(line) /\ e \in Nat /\ Len(line) \in Nat
      /\ Top.from \in Nat /\ Top.to \in Nat
  BY <1>1, <1>3
<1>5. ~Top.empty
  BY <1>1, <1>3, <1>4 DEF Top
<1>6. r \in Frame /\ r.seg = Top.seg /\ r.from = Top.from /\ r.to = e /\ ~r.empty
  BY <1>3, <1>4, <1>5 DEF Frame
<1>7. stack' = [stack EXCEPT ![Len(stack)] = r]
  BY <1>1, <1>3 DEF Top
<1> HIDE DEF r
<1>8. /\ stack' \in Seq(Frame) /\ Len(stack') = Len(stack)
      /\ stack'[Len(stack)] = r
      /\ \A k \in 1 .. Len(stack) - 1 : stack'[k] = stack[k]
  BY <1>3, <1>6, <1>7, SetTop
<1>9. CASE ~IsCharBoundary(line, e)
  <2>1. phase' = "panicked"
    BY <1>9 DEF Shrink
  <2> QED  BY <2>1 DEF SearchOK, Trying
<1>10. CASE IsCharBoundary(line, e) /\ TypeMatches(Segs[Top.seg].ty, text)
  <2>1. Descend(e)
    BY <1>10 DEF Shrink
  <2>2. Fits(Segs, line, Top.seg, Top.from, e)
    <3>1. Top.from <= e
      BY <1>4
    <3> HIDE DEF e
    <3> QED  BY <1>3, <1>10, <3>1, Zenon DEF TypeMatches, Fits, text
  <2>3. \A x \in Top.from .. Len(line) : Remaining(Top, x) => x <= e
    BY <1>4 DEF Remaining
  <2> HIDE DEF e
  <2> QED  BY <1>1, <1>2, <1>4, <1>6, <1>8, <2>1, <2>2, <2>3, SearchDescends
<1>11. CASE IsCharBoundary(line, e) /\ ~TypeMatches(Segs[Top.seg].ty, text)
  <2>1. UNCHANGED <<caps, phase>>
    BY <1>11 DEF Shrink
  <2>2. PICK at \in Places(Segs, line) :
          /\ Path(Segs, line, stack, caps, at, Top.seg, Len(stack) - 1)
          /\ at[Top.seg] = Top.from
          /\ \A other \in Tilings(fmt, line) :
               \/ Agree(at, other, Top.seg) /\ Remaining(Top, other[Top.seg + 1])
               \/ Beats(at, other, Top.seg)
    BY <1>1, <1>2, BehindFacts
  <2>3. Path(Segs, line, stack', caps', at, Top.seg, Len(stack) - 1)
    BY <1>8, <2>1, <2>2, PathPrefix
  \* The end e is no end of a way, unless the text is an empty string.
  <2>4. ASSUME NEW x \in Top.from .. Len(line), Remaining(Top, x),
               Fits(Segs, line, Top.seg, Top.from, x)
        PROVE  Remaining(r, x)
    <3>1. CASE x = e
      <4>1. /\ Top.from <= e
            /\ \/ Segs[Top.seg].ty = "string"
               \/ text # <<>> /\ ParsesAs(Segs[Top.seg].ty, text)
        BY <1>3, <1>4, <2>4, <3>1, Zenon DEF Fits
      <4>2. text = <<>>
        BY <1>11, <4>1, Zenon DEF TypeMatches
      <4>3. e = Top.from
        <5>1. Len(text) = e - Top.from
          <6>1. line \in Seq(STRING) /\ Top.from \in Nat /\ e \in Top.from .. Len(line)
            BY <1>3, <1>4
          <6> HIDE DEF e
          <6> QED  BY <6>1
        <5>2. Len(<<>>) = 0
          OBVIOUS
        <5> HIDE DEF text, e
        <5> QED  BY <1>4, <4>2, <5>1, <5>2
      <4> QED  BY <1>6, <3>1, <4>3 DEF Remaining
    <3>2. CASE x # e
      BY <1>4, <1>5, <1>6, <2>4, <3>2 DEF Remaining
    <3> QED  BY <3>1, <3>2
  <2>5. ASSUME NEW other \in Tilings(fmt, line)
        PROVE  \/ Agree(at, other, r.seg) /\ Remaining(r, other[r.seg + 1])
               \/ Beats(at, other, r.seg)
    <3>1. CASE Agree(at, other, Top.seg) /\ Remaining(Top, other[Top.seg + 1])
      <4>1. Tiles(Segs, line, other)
        BY <1>3, TilingsTile
      <4>2. /\ other[Top.seg + 1] \in Top.from .. Len(line)
            /\ Fits(Segs, line, Top.seg, Top.from, other[Top.seg + 1])
        BY <1>3, <2>2, <3>1, <4>1, WayEnds
      <4>3. Remaining(r, other[Top.seg + 1])
        BY <2>4, <3>1, <4>2
      <4> QED  BY <1>6, <3>1, <4>3
    <3>2. CASE Beats(at, other, Top.seg)
      BY <1>6, <3>2
    <3> QED  BY <2>2, <3>1, <3>2
  <2>6. BehindOf(fmt, line, stack', caps')
    <3>1. /\ Path(Segs, line, stack', caps', at, r.seg, Len(stack') - 1)
          /\ at[r.seg] = r.from /\ stack'[Len(stack')] = r
      BY <1>6, <1>8, <2>2, <2>3
    <3> QED  BY <1>3, <2>5, <3>1, Zenon DEF BehindOf
  <2>7. \A k \in DOMAIN stack' : stack'[k].empty => stack'[k].to = stack'[k].from
    <3> TAKE k \in DOMAIN stack'
    <3>1. CASE k \in 1 .. Len(stack) - 1
      <4>1. k \in DOMAIN stack /\ stack'[k] = stack[k]
        BY <1>3, <1>8, <3>1, SMTT(30)
      <4> QED  BY <1>3, <4>1
    <3>2. CASE k = Len(stack)
      BY <1>6, <1>8, <3>2
    <3>3. k \in 1 .. Len(stack) - 1 \/ k = Len(stack)
      BY <1>3, <1>8
    <3> QED  BY <3>1, <3>2, <3>3
  <2> QED  BY <1>1, <1>3, <2>1, <2>6, <2>7 DEF SearchOK
<1> QED  BY <1>9, <1>10, <1>11

LEMMA SearchTryEmpty ==
  ASSUME MatcherInv, SearchOK, TryEmpty
  PROVE  SearchOK'
<1> DEFINE r == [Top EXCEPT !.empty = TRUE]
<1>1. /\ phase = "try" /\ Top.to = Top.from /\ UNCHANGED <<line, fmt>>
      /\ stack' = [stack EXCEPT ![Len(stack)].empty = TRUE]
      /\ Segs[Top.seg].ty = "string" /\ Descend(Top.from)
  BY DEF TryEmpty
<1>2. stack # <<>>
  BY <1>1, TopOK
<1>3. /\ line \in Seq(STRING) /\ stack \in Seq(Frame) /\ Len(stack) \in Nat \ {0}
      /\ Len(stack) \in DOMAIN stack /\ Top \in Frame
      /\ ~Segs[Top.seg].lit /\ Top.from \in 0 .. Len(line)
  BY <1>1, <1>2, BehindFacts
<1>4. r \in Frame /\ r.seg = Top.seg /\ r.from = Top.from /\ r.to = Top.from
  BY <1>1, <1>3 DEF Frame
<1>5. stack' = [stack EXCEPT ![Len(stack)] = r]
  BY <1>1, <1>3 DEF Top
<1> HIDE DEF r
<1>6. /\ stack' \in Seq(Frame) /\ Len(stack') = Len(stack)
      /\ stack'[Len(stack)] = r
      /\ \A k \in 1 .. Len(stack) - 1 : stack'[k] = stack[k]
  BY <1>3, <1>4, <1>5, SetTop
<1>7. Top.from \in Top.from .. Len(line) /\ Top.from <= Top.from
  BY <1>3
<1>8. Fits(Segs, line, Top.seg, Top.from, Top.from)
  BY <1>1, <1>3, <1>7, Zenon DEF Fits
<1>9. \A x \in Top.from .. Len(line) : Remaining(Top, x) => x <= Top.from
  BY <1>1, <1>3 DEF Remaining
<1> QED  BY <1>1, <1>2, <1>4, <1>6, <1>7, <1>8, <1>9, SearchDescends

\* What is left when the last element of a sequence is taken off (Pop).
LEMMA PopFront ==
  ASSUME NEW S, NEW s \in Seq(S), Len(s) \in Nat \ {0}
  PROVE  /\ SubSeq(s, 1, Len(s) - 1) \in Seq(S)
         /\ Len(SubSeq(s, 1, Len(s) - 1)) = Len(s) - 1
         /\ \A k \in 1 .. Len(s) - 1 : SubSeq(s, 1, Len(s) - 1)[k] = s[k]
<1> DEFINE n == Len(s) - 1
<1>1. n \in Nat /\ n <= Len(s) /\ 1 \in 1 .. Len(s) + 1
  OBVIOUS
<1>2. \A k \in 1 .. n : k \in 1 .. Len(s)
  BY <1>1
<1> HIDE DEF n
<1>3. Len(SubSeq(s, 1, n)) = n /\ \A k \in 1 .. n : SubSeq(s, 1, n)[k] = s[k]
  BY <1>1
<1>4. SubSeq(s, 1, n) \in Seq(S)
  BY <1>1, <1>2, <1>3
<1> QED  BY <1>3, <1>4 DEF n

LEMMA SearchExhausted ==
  ASSUME MatcherInv, SearchOK, Exhausted
  PROVE  SearchOK'
<1>1. /\ phase = "try" /\ phase' = "false" /\ UNCHANGED <<line, fmt, caps>>
      /\ Top.to = Top.from /\ (Top.empty \/ Segs[Top.seg].ty # "string")
      /\ stack' = SubSeq(stack, 1, Len(stack) - 1)
  BY DEF Exhausted, Pop
<1>2. stack # <<>>
  BY <1>1, TopOK
<1>3. /\ Segs \in Seq(SegType) /\ Segs = Formats[fmt].segs /\ fmt \in DOMAIN Formats
      /\ line \in Seq(STRING) /\ stack \in Seq(Frame) /\ Len(stack) \in Nat \ {0}
      /\ Top.seg \in 1 .. Len(Segs) /\ ~Segs[Top.seg].lit /\ Top.from \in 0 .. Len(line)
      /\ \A f \in 1 .. fmt - 1 : NoWay(f, line)
      /\ \A k \in DOMAIN stack : stack[k].empty => stack[k].to = stack[k].from
  BY <1>1, <1>2, BehindFacts
<1>4. PICK at \in Places(Segs, line) :
        /\ Path(Segs, line, stack, caps, at, Top.seg, Len(stack) - 1)
        /\ at[Top.seg] = Top.from
        /\ \A other \in Tilings(fmt, line) :
             \/ Agree(at, other, Top.seg) /\ Remaining(Top, other[Top.seg + 1])
             \/ Beats(at, other, Top.seg)
  BY <1>1, <1>2, BehindFacts
<1>5. /\ stack' \in Seq(Frame) /\ Len(stack') = Len(stack) - 1
      /\ \A k \in 1 .. Len(stack) - 1 : stack'[k] = stack[k]
  BY <1>1, <1>3, PopFront
<1>6. Path(Segs, line, stack', caps', at, Top.seg, Len(stack'))
  <2>1. caps' = caps /\ Len(stack') = Len(stack) - 1
    BY <1>1, <1>5
  <2>2. \A k \in 1 .. Len(stack) - 1 : stack'[k] = stack[k] /\ caps'[k] = caps[k]
    BY <1>5, <2>1
  <2>3. Path(Segs, line, stack', caps', at, Top.seg, Len(stack) - 1)
    BY <1>4, <2>2, PathPrefix
  <2> QED  BY <2>1, <2>3
\* No end is left that the segment's type allows.
<1>7. ASSUME NEW other \in Tilings(fmt, line) PROVE Beats(at, other, Top.seg)
  <2> SUFFICES ASSUME Agree(at, other, Top.seg), Remaining(Top, other[Top.seg + 1])
               PROVE  FALSE
    BY <1>4
  <2> DEFINE x == other[Top.seg + 1]
  <2>1. Tiles(Segs, line, other)
    BY <1>3, TilingsTile
  <2>2. x \in Top.from .. Len(line) /\ Fits(Segs, line, Top.seg, Top.from, x)
    BY <1>3, <1>4, <2>1, WayEnds
  <2>3. Remaining(Top, x)
    OBVIOUS
  <2> HIDE DEF x
  <2>4. x = Top.from /\ ~Top.empty
    BY <1>1, <1>3, <2>2, <2>3 DEF Remaining
  <2>5. Segs[Top.seg].ty # "string"
    BY <1>1, <2>4
  <2>6. Top.from <= x /\ SubSeq(line, Top.from + 1, x) # <<>>
    BY <1>3, <2>2, <2>5, Zenon DEF Fits
  <2>7. SubSeq(line, Top.from + 1, Top.from) = <<>>
    BY <1>3
  <2> QED  BY <2>4, <2>6, <2>7
<1>8. \A k \in DOMAIN stack' : stack'[k].empty => stack'[k].to = stack'[k].from
  <2> TAKE k \in DOMAIN stack'
  <2>1. k \in DOMAIN stack /\ stack'[k] = stack[k]
    BY <1>3, <1>5, SMTT(30)
  <2> QED  BY <1>3, <2>1
<1>9. Top.seg \in 1 .. Len(Segs) + 1
  BY <1>3
<1> QED  BY <1>1, <1>3, <1>5, <1>6, <1>7, <1>8, <1>9, SearchFails

LEMMA SearchBacktrack ==
  ASSUME MatcherInv, SearchOK, Backtrack
  PROVE  SearchOK'
<1>1. /\ phase = "false" /\ stack # <<>> /\ phase' = "try"
      /\ UNCHANGED <<line, fmt, stack>>
      /\ caps' = SubSeq(caps, 1, Len(caps) - 1)
  BY DEF Backtrack, Pop
<1>2. caps \in Seq(CapType) /\ Len(caps) = Len(stack) /\ stack \in Seq(Frame)
  BY <1>1 DEF MatcherInv, Trying, MatcherTyped, PlaceOK, Frame
<1>3. \A k \in 1 .. Len(stack) - 1 : caps'[k] = caps[k]
  BY <1>1, <1>2
<1>4. BehindOf(fmt, line, stack, caps)
  BY <1>1 DEF SearchOK
<1>5. BehindOf(fmt, line, stack, caps')
  <2> DEFINE fr == stack[Len(stack)]
             segs == Formats[fmt].segs
  <2>1. PICK at \in Places(segs, line) :
          /\ Path(segs, line, stack, caps, at, fr.seg, Len(stack) - 1)
          /\ at[fr.seg] = fr.from
          /\ \A other \in Tilings(fmt, line) :
               \/ Agree(at, other, fr.seg) /\ Remaining(fr, other[fr.seg + 1])
               \/ Beats(at, other, fr.seg)
    BY <1>4, Zenon DEF BehindOf
  <2>2. Path(segs, line, stack, caps', at, fr.seg, Len(stack) - 1)
    <3> HIDE DEF segs, fr
    <3> QED  BY <1>3, <2>1, PathPrefix
  <2> QED  BY <2>1, <2>2, Zenon DEF BehindOf
<1> QED  BY <1>1, <1>5 DEF SearchOK, Trying

LEMMA SearchFormatFails ==
  ASSUME MatcherInv, SearchOK, FormatFails
  PROVE  SearchOK'
<1>1. phase = "false" /\ stack = <<>> /\ line' = line
  BY DEF FormatFails
<1>2. NoWay(fmt, line) /\ \A f \in 1 .. fmt - 1 : NoWay(f, line)
  BY <1>1 DEF SearchOK, Trying
<1>3. fmt \in DOMAIN Formats /\ line \in Seq(STRING) /\ DOMAIN Formats = 1 .. Len(Formats)
  BY <1>1, MatcherAssumption DEF MatcherInv, Trying, StackOK, MatcherTyped
<1>4. \A f \in 1 .. fmt : NoWay(f, line)
  <2> TAKE f \in 1 .. fmt
  <2>1. f = fmt \/ f \in 1 .. fmt - 1
    BY <1>3
  <2> QED  BY <1>2, <2>1
<1>5. CASE fmt < Len(Formats)
  <2>1. Start(fmt + 1) /\ fmt + 1 \in DOMAIN Formats /\ 1 .. (fmt + 1) - 1 = 1 .. fmt
    BY <1>3, <1>5 DEF FormatFails
  <2>2. \A g \in 1 .. (fmt + 1) - 1 : NoWay(g, line')
    BY <1>1, <1>4, <2>1
  <2> QED  BY <1>1, <1>3, <2>1, <2>2, SearchStarts
<1>6. CASE ~(fmt < Len(Formats))
  <2>1. phase' = "idle"
    BY <1>6 DEF FormatFails
  <2>2. DOMAIN Formats \subseteq 1 .. fmt
    BY <1>3, <1>6, MatcherAssumption
  <2>3. \A f \in DOMAIN Formats : NoWay(f, line')
    BY <1>1, <1>4, <2>2
  <2> QED  BY <2>1, <2>3 DEF SearchOK, Trying
<1> QED  BY <1>5, <1>6

LEMMA SearchCalls ==
  ASSUME MatcherInv, SearchOK, NEW l \in Lines, Call(l)
  PROVE  SearchOK'
<1>1. phase = "idle" /\ line' = l /\ l \in Seq(STRING)
  BY MatcherAssumption DEF Call
<1>2. CASE Len(Formats) = 0
  <2>1. phase' = phase
    BY <1>2 DEF Call
  <2>2. \A f \in DOMAIN Formats : FALSE
    BY <1>2, MatcherAssumption
  <2> QED  BY <1>1, <2>1, <2>2 DEF SearchOK, Trying
<1>3. CASE Len(Formats) # 0
  <2>1. Start(1) /\ 1 \in DOMAIN Formats
    BY <1>3, MatcherAssumption DEF Call
  <2>2. \A g \in 1 .. 1 - 1 : FALSE
    OBVIOUS
  <2> QED  BY <1>1, <2>1, <2>2, SearchStarts
<1> QED  BY <1>2, <1>3

LEMMA SearchInductive ==
  ASSUME MatcherInv, SearchOK, [Next]_vars
  PROVE  SearchOK'
<1>1. CASE \E l \in Lines : Call(l)
  BY <1>1, SearchCalls
<1>2. CASE Matched
  <2>1. \/ phase' = "panicked"
        \/ phase' = "idle" /\ result'.some
    BY <1>2 DEF Matched
  <2> QED  BY <2>1 DEF SearchOK, Trying
<1>3. CASE UNCHANGED vars
  BY <1>3 DEF vars, SearchOK, Trying
<1>4. CASE AtEnd \/ LiteralSeg \/ CaptureSeg \/ Shrink
  BY <1>4, SearchAtEnd, SearchLiteral, SearchCapture, SearchShrink
<1>5. CASE TryEmpty \/ Exhausted \/ Backtrack \/ FormatFails
  BY <1>5, SearchTryEmpty, SearchExhausted, SearchBacktrack, SearchFormatFails
<1> QED  BY <1>1, <1>2, <1>3, <1>4, <1>5 DEF Next, Step, Over

\* The invariant says that a match is the first and the longest there is.
LEMMA SearchFinds ==
  ASSUME MatcherInv, SearchOK
  PROVE  FirstLongest
<1>1. ASSUME phase = "matched"
      PROVE  /\ \A f \in 1 .. fmt - 1 : Tilings(f, line) = {}
             /\ \E at \in Tilings(fmt, line) :
                  /\ {caps[i] : i \in DOMAIN caps} = CapsOf(fmt, at)
                  /\ \A other \in Tilings(fmt, line) : other = at \/ Longer(at, other)
  <2> DEFINE n == Len(Segs)
  <2>1. Trying /\ StackOK /\ PlaceOK /\ MatcherTyped
    BY <1>1 DEF Trying, MatcherInv
  <2>2. /\ Segs \in Seq(SegType) /\ Segs = Formats[fmt].segs
        /\ stack \in Seq(Frame) /\ caps \in Seq(CapType)
    BY <2>1, SegsTyped DEF StackOK, MatcherTyped, Frame, Segs
  <2>3. /\ si = n + 1 /\ pos = Len(line) /\ Len(caps) = Len(stack)
        /\ DOMAIN caps = 1 .. Len(stack) /\ DOMAIN stack = 1 .. Len(stack)
        /\ n \in Nat /\ DOMAIN Segs = 1 .. n /\ (n + 1) - 1 = n
    BY <1>1, <2>1, <2>2 DEF PlaceOK
  <2>4. PICK at \in Places(Segs, line) :
          /\ Path(Segs, line, stack, caps, at, n + 1, Len(stack))
          /\ at[n + 1] = Len(line)
          /\ \A other \in Tilings(fmt, line) : Agree(at, other, n + 1) \/ Beats(at, other, n + 1)
    <3>1. AheadOf(fmt, line, stack, caps, si, pos)
      BY <1>1 DEF SearchOK
    <3> QED  BY <2>2, <2>3, <3>1 DEF AheadOf
  <2> HIDE DEF n
  <2>5. /\ at[1] = 0
        /\ \A k \in 1 .. n : Fits(Segs, line, k, at[k], at[k + 1])
        /\ \A i \in 1 .. Len(stack) :
             /\ stack[i].seg \in 1 .. n
             /\ at[stack[i].seg] = stack[i].from /\ at[stack[i].seg + 1] = stack[i].to
             /\ caps[i] = <<stack[i].seg, stack[i].from, stack[i].to>>
        /\ \A k \in 1 .. n : Segs[k].lit \/ \E i \in 1 .. Len(stack) : stack[i].seg = k
    BY <2>3, <2>4 DEF Path
  <2>6. Tiles(Segs, line, at)
    BY <2>4, <2>5, Zenon DEF Tiles, n
  <2>7. at \in Tilings(fmt, line)
    BY <2>2, <2>6, TilingsTile
  <2>8. {caps[i] : i \in DOMAIN caps} = CapsOf(fmt, at)
    <3>1. CapsOf(fmt, at) = {<<k, at[k], at[k + 1]>> : k \in {k \in 1 .. n : ~Segs[k].lit}}
      BY <2>2, <2>3, Zenon DEF CapsOf
    <3>2. ASSUME NEW i \in DOMAIN caps PROVE caps[i] \in CapsOf(fmt, at)
      <4> DEFINE k == stack[i].seg
      <4>1. i \in 1 .. Len(stack) /\ i \in DOMAIN stack
        BY <2>3
      <4>2. k \in 1 .. n /\ caps[i] = <<k, at[k], at[k + 1]>>
        BY <2>5, <4>1, Zenon
      <4>3. ~Segs[k].lit
        BY <2>1, <4>1 DEF StackOK
      <4> QED  BY <3>1, <4>2, <4>3, Zenon
    <3>3. ASSUME NEW c \in CapsOf(fmt, at) PROVE \E i \in DOMAIN caps : caps[i] = c
      <4>1. PICK k \in 1 .. n : ~Segs[k].lit /\ c = <<k, at[k], at[k + 1]>>
        BY <3>1, Zenon
      <4>2. PICK i \in 1 .. Len(stack) : stack[i].seg = k
        BY <2>5, <4>1, Zenon
      <4>3. caps[i] = <<k, at[k], at[k + 1]>>
        BY <2>5, <4>2, Zenon
      <4> QED  BY <2>3, <4>1, <4>3, Zenon
    <3> QED  BY <3>2, <3>3, Zenon
  <2>9. ASSUME NEW other \in Tilings(fmt, line) PROVE other = at \/ Longer(at, other)
    <3>1. other \in Places(Segs, line)
      BY <2>2, TilingsTile DEF Tiles
    <3>2. DOMAIN at = 1 .. n + 1 /\ DOMAIN other = 1 .. n + 1
      BY <3>1, Zenon DEF Places, n
    <3>3. CASE Agree(at, other, n + 1)
      BY <3>1, <3>3 DEF Agree, Places, n
    <3>4. CASE Beats(at, other, n + 1)
      BY <3>2, <3>4, Zenon DEF Beats, Longer
    <3> QED  BY <2>4, <3>3, <3>4
  <2>10. \A f \in 1 .. fmt - 1 : Tilings(f, line) = {}
    BY <2>1 DEF SearchOK, NoWay
  <2> QED  BY <2>7, <2>8, <2>9, <2>10
<1>2. ASSUME phase = "idle", calls > 0, ~result.some
      PROVE  \A f \in DOMAIN Formats : Tilings(f, line) = {}
  BY <1>2 DEF SearchOK, NoWay
<1> QED  BY <1>1, <1>2 DEF FirstLongest

\* The backtracking of match_segments misses nothing: for all formats and
\* lines a match is one of the first format that has any, with the longest
\* captures, the first capture first, and no match is reported only where no
\* format can spell out the line.
THEOREM SearchIsComplete == Spec => []FirstLongest
<1>1. Init => SearchOK
  BY DEF Init, SearchOK, Trying
<1>2. MatcherInv /\ SearchOK /\ [Next]_vars => SearchOK'
  BY SearchInductive
<1>3. MatcherInv /\ SearchOK => FirstLongest
  BY SearchFinds
<1> QED  BY <1>1, <1>2, <1>3, MatcherInvHolds, PTL DEF Spec
=============================================================================
