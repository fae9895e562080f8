------------------------------- MODULE Record -------------------------------
(***************************************************************************)
(* build_record of tpt-telemetry-compiler: the captured texts of a line    *)
(* become typed values, and the redacted fields are replaced.  A text is a *)
(* sequence of bytes; a value is what it was made from (of) and what it is *)
(* shown as (as).  The parsing of a scalar is the standard library's and   *)
(* chrono's, and is a parameter.                                           *)
(***************************************************************************)
EXTENDS Segment, Naturals, Sequences

CONSTANTS
  Continuation,      \* the bytes that continue a character
  ParsesAs(_, _),    \* whether a text parses as a scalar type
  Usize(_),          \* the set of the number a text parses to, if it does
  Upper(_),          \* a byte in upper case
  Star,              \* the byte *
  U8                 \* 2^8

ASSUME RecordAssumption == U8 \in Nat \ {0}

\* str::is_char_boundary: where a text may be sliced without a panic.
IsCharBoundary(text, i) ==
  i = 0 \/ i = Len(text) \/ text[i + 1] \notin Continuation

Least(S) == CHOOSE i \in S : \A j \in S : i <= j
Greatest(S) == CHOOSE i \in S : \A j \in S : i >= j

-----------------------------------------------------------------------------

Value(as, of) == [as |-> as, of |-> of, code |-> 0]

\* Mutation: a signed number is parsed as an unsigned one.
CoerceScalarUnsigned(ty, text) ==
  LET parsed == IF ty = "int" THEN "uint" ELSE ty IN
  IF ty = "bool" \/ (ty # "string" /\ ParsesAs(parsed, text))
    THEN Value(ty, text) ELSE Value("str", text)

\* A text that does not parse stays a string, except that every text makes a
\* bool.
CoerceScalar(ty, text) ==
  IF ty = "bool" \/ (ty # "string" /\ ParsesAs(ty, text))
    THEN Value(ty, text) ELSE Value("str", text)

IgnoreCase(text) == [i \in DOMAIN text |-> Upper(text[i])]

\* A number indexes the variants; any other text is looked up among them.
CoerceEnum(variants, text) ==
  LET index == {n \in Usize(text) : n < Len(variants)}
      names == {i \in DOMAIN variants : IgnoreCase(variants[i]) = IgnoreCase(text)}
      Enum(n) == [as |-> "enum", of |-> text, code |-> n % U8] IN
  IF index # {} THEN Enum(Least(index))
  ELSE IF names # {} THEN Enum(Least(names) - 1)
  ELSE Value("str", text)

\* The map from field to type is filled in the order of the segments: of two
\* captures of one name the last decides.
Declared(fmt, name) ==
  fmt.segs[Greatest({i \in DOMAIN fmt.segs :
                       ~fmt.segs[i].lit /\ fmt.segs[i].field = name})].ty

\* The first coercion of the field, or else its declared type.
CoerceField(fmt, name, text) ==
  LET mine == {i \in DOMAIN fmt.coercions : fmt.coercions[i].field = name} IN
  IF mine = {} THEN CoerceScalar(Declared(fmt, name), text)
  ELSE LET c == fmt.coercions[Least(mine)] IN
       IF c.to = "enum" THEN CoerceEnum(c.variants, text)
       ELSE CoerceScalar(c.to, text)

-----------------------------------------------------------------------------

Kept(text) == IF Len(text) < 2 THEN Len(text) ELSE 2

\* Mutation: the first two bytes are kept.
MaskValueHead(text) ==
  [i \in 1 .. Len(text) |-> IF i <= Kept(text) THEN text[i] ELSE Star]

\* Everything but the last two bytes becomes a star.
MaskValue(text) ==
  [i \in 1 .. Len(text) |-> IF i > Len(text) - Kept(text) THEN text[i] ELSE Star]

\* The kept part is sliced off at a byte, not at a character.
MaskPanics(text) == ~IsCharBoundary(text, Len(text) - Kept(text))

\* A digest of fixed length takes the place of the text.
Redact(mode, text) ==
  IF mode = "mask" THEN Value("mask", MaskValue(text)) ELSE Value("hash", <<>>)

\* fields.iter().find(): the first of the fields with this name.
IsFirst(fields, i) == \A j \in 1 .. i - 1 : fields[j].name # fields[i].name

Redactions(fmt, name) ==
  {k \in DOMAIN fmt.redactions : fmt.redactions[k].field = name}

BuildPanics(fmt, fields) ==
  \E i \in DOMAIN fields :
    /\ IsFirst(fields, i)
    /\ MaskPanics(fields[i].text)
    /\ \E k \in Redactions(fmt, fields[i].name) : fmt.redactions[k].mode = "mask"

\* Every field is coerced; then each redaction, in order, overwrites the first
\* field with its name by what it makes of that field's text.
BuildRecord(fmt, fields) ==
  [i \in DOMAIN fields |->
     LET f == fields[i]
         hits == Redactions(fmt, f.name) IN
     [name |-> f.name,
      value |-> IF hits # {} /\ IsFirst(fields, i)
                  THEN Redact(fmt.redactions[Greatest(hits)].mode, f.text)
                  ELSE CoerceField(fmt, f.name, f.text)]]
=============================================================================
