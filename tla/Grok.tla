-------------------------------- MODULE Grok --------------------------------
(***************************************************************************)
(* tpt-grok-engine: the tokenizer and the expansion that turn a Grok       *)
(* pattern into a regular expression, and the literal a line is searched   *)
(* for before the expression is tried.  Of the pattern library only the    *)
(* names and their references to one another are kept.                     *)
(***************************************************************************)
EXTENDS Segment, SequencesExt

CONSTANTS
  Width(_),     \* the bytes of a symbol
  IsIdent(_)    \* whether a text is a letter or _ followed by such and digits

MaxDepth == 64
MinLiteral == 3

\* STANDARD_PATTERNS: the patterns made of others, and the ones that are not.
Composed == [NUMBER |-> <<<<"BASE10NUM">>>>, IP |-> <<<<"IPV6">>, <<"IPV4">>>>,
             USER |-> <<<<"USERNAME">>>>]

Plain ==
  {"BASE10NUM", "BASE16NUM", "BASE16FLOAT", "POSINT", "NONNEGINT", "INT", "WORD",
   "NOTSPACE", "SPACE", "DATA", "GREEDYDATA", "QS", "IPV4", "IPV6", "MAC",
   "EMAILADDRESS", "MONTH", "MONTHDAY", "YEAR", "HOUR", "MINUTE", "SECOND", "TIME",
   "MONTHNUM", "MONTHNUM2", "ISO8601_SECOND", "HOSTNAME", "PORT", "USERNAME"}

\* The names are words, over which the expansion is defined.
ASSUME LibraryAssumption == DOMAIN Composed \cup Plain \subseteq STRING

\* patterns::lookup: what the pattern of that name refers to, if there is one.
Lookup(name) ==
  IF Len(name) # 1 THEN {}
  ELSE IF name[1] \in DOMAIN Composed THEN {Composed[name[1]]}
  ELSE IF name[1] \in Plain THEN {<<>>} ELSE {}

-----------------------------------------------------------------------------
(* tokenize *)

Count(s, from, to, c) == Cardinality({m \in from .. to : s[m] = c})

\* Where the capture opened at k closes: one closing brace more than opening.
ClosingBraces(s, k) ==
  {j \in k + 2 .. Len(s) : Count(s, k + 2, j, "}") = Count(s, k + 2, j, "{") + 1}

First(S) == CHOOSE x \in S : \A y \in S : x <= y

LiteralToken(text) ==
  IF text = <<>> THEN <<>> ELSE <<[kind |-> "lit", text |-> text, words |-> <<>>]>>

CaptureToken(content) ==
  LET w == Split(content) IN
  [kind |-> IF Len(w) <= 3 THEN "cap" ELSE "BadCapture", text |-> content, words |-> w]

\* The tokens of the pattern; an error is the last of them.
Tokens(s) ==
  LET from[k \in 1 .. Len(s) + 1] ==
        LET opening == {o \in k .. Len(s) : Opens(s, o)} IN
        IF opening = {} THEN LiteralToken(SubSeq(s, k, Len(s)))
        ELSE LET o == First(opening)
                 closing == ClosingBraces(s, o) IN
             LiteralToken(SubSeq(s, k, o - 1)) \o
             IF closing = {}
             THEN <<[kind |-> "UnbalancedBrace", text |-> s, words |-> <<>>]>>
             ELSE LET t == CaptureToken(SubSeq(s, o + 2, First(closing) - 1)) IN
                  IF t.kind = "cap" THEN <<t>> \o from[First(closing) + 1] ELSE <<t>>
  IN from[1]

TokenError(s) ==
  LET errs == {k \in DOMAIN Tokens(s) : Tokens(s)[k].kind \notin {"lit", "cap"}} IN
  IF errs = {} THEN "none" ELSE Tokens(s)[First(errs)].kind

-----------------------------------------------------------------------------
(* compile *)

\* The first of some outcomes that is an error.
FirstError(outcomes) ==
  LET errs == {k \in DOMAIN outcomes : outcomes[k] # "none"} IN
  IF errs = {} THEN "none" ELSE outcomes[First(errs)]

\* expand_ref: how the expansion of the last name of a chain ends; the names
\* before it are on the stack.
ExpandRef[chain \in Seq(Seq(STRING))] ==
  LET name == Last(chain) IN
  IF \E k \in 1 .. Len(chain) - 1 : chain[k] = name THEN "Cycle"
  ELSE IF Len(chain) > MaxDepth THEN "TooDeep"
  ELSE IF Lookup(name) = {} THEN "UnknownPattern"
  ELSE LET refs == CHOOSE r \in Lookup(name) : TRUE IN
       FirstError([k \in DOMAIN refs |-> ExpandRef[Append(chain, refs[k])]])

CaptureError(t) ==
  LET e == ExpandRef[<<t.words[1]>>] IN
  IF e = "none" /\ Len(t.words) > 1 /\ ~IsIdent(t.words[2]) THEN "InvalidGroupName"
  ELSE e

\* How Grok::new ends before the regular expression is compiled.
CompileGrok(s) ==
  IF TokenError(s) # "none" THEN TokenError(s)
  ELSE FirstError([k \in DOMAIN Tokens(s) |->
         IF Tokens(s)[k].kind = "lit" THEN "none" ELSE CaptureError(Tokens(s)[k])])

-----------------------------------------------------------------------------
(* fast_literal *)

Bytes(text) == FoldLeft(LAMBDA n, x : n + Width(x), 0, text)

\* The first of the longest literals that are long enough and not all blanks
\* and backslashes; scan gives up on a line without it.
FastLiteral(s) ==
  LET usable == {k \in DOMAIN Tokens(s) :
                   LET t == Tokens(s)[k] IN
                   /\ t.kind = "lit" /\ Bytes(t.text) >= MinLiteral
                   /\ \E m \in DOMAIN t.text : t.text[m] \notin {"\\", " "}}
      best == {k \in usable : \A m \in usable :
                 Bytes(Tokens(s)[m].text) <= Bytes(Tokens(s)[k].text)} IN
  IF TokenError(s) # "none" \/ best = {} THEN <<>> ELSE Tokens(s)[First(best)].text
=============================================================================
