------------------------------ MODULE Segment -------------------------------
(***************************************************************************)
(* What the schema compiler hands to the matcher: a format is a sequence   *)
(* of segments, each a literal text or a capture of a field with a scalar  *)
(* type.  The text of a pattern is a sequence of symbols: % { } : and      *)
(* words; two tokenizers read it, the schema parser's and the Grok         *)
(* engine's.                                                               *)
(***************************************************************************)
EXTENDS Naturals, Sequences, FiniteSets

Types == {"int", "uint", "float", "bool", "string", "ipv4", "ipv6", "ip", "mac",
          "timestamp"}

Literal(text) == [lit |-> TRUE, text |-> text, field |-> <<>>, ty |-> "string"]
Capture(field, ty) == [lit |-> FALSE, text |-> <<>>, field |-> field, ty |-> ty]

\* %{ at place k of a pattern.
Opens(s, k) == k + 1 <= Len(s) /\ s[k] = "%" /\ s[k + 1] = "{"

\* The colons among the first k symbols.
Colons(s, k) == Cardinality({m \in 1 .. k : s[m] = ":"})

\* The word between two colons: what n colons come before.
Word(s, n) ==
  LET ends == {k \in 0 .. Len(s) : Colons(s, k) = n} IN
  SubSeq(s, (CHOOSE k \in ends : \A m \in ends : k <= m) + 1,
            CHOOSE k \in ends : \A m \in ends : m <= k)

\* content.split(':')
Split(s) == [n \in 1 .. Colons(s, Len(s)) + 1 |-> Word(s, n - 1)]
=============================================================================
