----------------------------- MODULE MCMatcher ------------------------------
(***************************************************************************)
(* Matcher on lines of up to MaxChars characters: a digit, a sign, a       *)
(* letter in both cases and, where Wide is set, a character of two bytes.  *)
(***************************************************************************)
EXTENDS Matcher, FiniteSets

LOCAL INSTANCE SequencesExt

CONSTANTS MaxChars, Wide

ASSUME MCAssumption == MaxChars \in Nat /\ Wide \in BOOLEAN

Chars == {<<"1">>, <<"-">>, <<"a">>} \cup (IF Wide THEN {<<"C3", "A9">>} ELSE {})

MCLines == {FlattenSeq(s) : s \in UNION {[1 .. n -> Chars] : n \in 0 .. MaxChars}}

Digits(t) == t # <<>> /\ \A k \in DOMAIN t : t[k] = "1"

\* i64, u64 and bool over these bytes: with I64 = 8 two digits are too many for
\* a signed number, three for an unsigned one.
MCParsesAs(ty, t) ==
  CASE ty = "int" -> t \in {<<"1">>, <<"-", "1">>}
    [] ty = "uint" -> Digits(t) /\ Len(t) <= 2
    [] ty = "bool" -> t = <<"1">>
    [] ty \in {"ip", "float"} -> t = <<"a">>
    [] OTHER -> FALSE

MCNumberOf(t) == IF t[1] = "-" THEN -1 ELSE IF Len(t) = 1 THEN 1 ELSE 11

MCUsize(t) == IF Digits(t) /\ Len(t) <= 2 THEN {MCNumberOf(t)} ELSE {}

MCIsTrue(t) == t = <<"1">>

MCDisplay(ty, t) == t \o t

MCUpper(b) == IF b = "a" THEN "A" ELSE b

Plain(segs) == [segs |-> segs, coercions |-> <<>>, redactions |-> <<>>]

\* A sign that is a literal and part of a number, a string next to a number,
\* an enum with more variants than codes, and a message that is redacted, that
\* is redacted twice, and that is captured twice; an address and a float,
\* which is what is left of the lines.
Mixed ==
  << [segs |-> <<Capture(SeverityField, "int"), Literal(<<"-">>),
                 Capture(<<"s">>, "string")>>,
      coercions |-> <<[field |-> <<"s">>, to |-> "uint", variants |-> <<>>]>>,
      redactions |-> <<>>],
     [segs |-> <<Capture(MessageField, "string"), Capture(<<"b">>, "bool"),
                 Literal(<<"a">>), Capture(SeverityField, "string")>>,
      coercions |-> <<[field |-> SeverityField, to |-> "enum",
                       variants |-> <<<<"b">>, <<"-">>, <<"A">>>>]>>,
      redactions |-> <<[field |-> MessageField, mode |-> "mask"]>>],
     [segs |-> <<Capture(MessageField, "string"), Capture(<<"n">>, "uint")>>,
      coercions |-> <<[field |-> MessageField, to |-> "int", variants |-> <<>>]>>,
      redactions |-> <<[field |-> MessageField, mode |-> "hash"],
                       [field |-> MessageField, mode |-> "mask"]>>],
     [segs |-> <<Capture(MessageField, "string"), Literal(<<"-">>),
                 Capture(MessageField, "string")>>,
      coercions |-> <<>>,
      redactions |-> <<[field |-> MessageField, mode |-> "hash"]>>],
     Plain(<<Capture(<<"v">>, "ip"), Capture(<<"w">>, "float")>>) >>

\* The end of the line is given.
Suffix == << Plain(<<Capture(<<"s">>, "string"), Literal(<<"C3", "A9">>)>>) >>
=============================================================================
