------------------------------ MODULE Matcher -------------------------------
(***************************************************************************)
(* The matcher of tpt-telemetry-compiler: match_segments as the machine    *)
(* its recursion runs, with the pending captures on an explicit stack, and *)
(* the three ways to call it (parse_line, match_line, matches) that        *)
(* tpt-telemetry-core's Parser hands through.  The formats are tried in    *)
(* order; each capture tries the longest text first and gives up one byte  *)
(* at a time.  The context with the captures is reused from call to call.  *)
(***************************************************************************)
EXTENDS OtlpModel

CONSTANTS
  Formats,     \* the compiled formats, in order
  Lines,       \* the lines the callers bring, valid UTF-8
  MaxCalls     \* bound: calls

\* CompiledFormat: segments, coercions and redactions.
Format ==
  [segs : Seq([lit : BOOLEAN, text : Seq(STRING), field : Seq(STRING), ty : Types]),
   coercions : Seq([field : Seq(STRING), to : Types \cup {"enum"},
                    variants : Seq(Seq(STRING))]),
   redactions : Seq([field : Seq(STRING), mode : {"hash", "mask"}])]

ASSUME MatcherAssumption ==
  /\ MaxCalls \in Nat
  /\ Formats \in Seq(Format)
  /\ Lines \subseteq Seq(STRING)

\* parse::<u64>() and parse::<usize>() on a part of a line.
ASSUME ScalarAssumption ==
  \A l \in Lines : \A from \in 0 .. Len(l) : \A to \in from .. Len(l) :
    LET text == SubSeq(l, from + 1, to) IN
    /\ ParsesAs("uint", text) => NumberOf(text) \in 0 .. 2 * I64 - 1
    /\ Usize(text) \subseteq Nat

Apis == {"parse_line", "match_line", "matches"}

VARIABLES
  api,      \* what the caller calls
  line,     \* the line it passed
  fmt,      \* the format being tried
  si, pos,  \* the arguments of the innermost call of match_segments
  stack,    \* the captures on the call stack: segment, where it starts, end,
            \* and whether the attempt at an empty text has been made
  caps,     \* ctx.caps: segment, start, end
  phase,    \* where the matcher is
  result,   \* what the last call returned
  calls     \* how many calls were made

vars == <<api, line, fmt, si, pos, stack, caps, phase, result, calls>>

None == [some |-> FALSE, format |-> 0, fields |-> <<>>]

Init ==
  /\ api \in Apis
  /\ line = <<>> /\ fmt = 0 /\ si = 1 /\ pos = 0
  /\ stack = <<>> /\ caps = <<>>
  /\ phase = "idle" /\ result = None /\ calls = 0

Segs == Formats[fmt].segs
Seg == Segs[si]
Top == stack[Len(stack)]
Pop(s) == SubSeq(s, 1, Len(s) - 1)

-----------------------------------------------------------------------------

\* Mutation: the context keeps the captures of the last call.
StartKeepsCaps(f) ==
  /\ fmt' = f
  /\ si' = 1 /\ pos' = 0 /\ stack' = <<>>
  /\ caps' = caps
  /\ phase' = "enter"

\* match_into: the context is reset and match_segments called from the start.
Start(f) ==
  /\ fmt' = f
  /\ si' = 1 /\ pos' = 0 /\ stack' = <<>>
  /\ caps' = <<>>
  /\ phase' = "enter"

Call(l) ==
  /\ phase = "idle"
  /\ calls < MaxCalls
  /\ calls' = calls + 1
  /\ line' = l
  /\ result' = None
  /\ IF Len(Formats) = 0 THEN UNCHANGED <<fmt, si, pos, stack, caps, phase>>
     ELSE Start(1)
  /\ UNCHANGED api

\* All segments are used up.
AtEnd ==
  /\ phase = "enter"
  /\ si > Len(Segs)
  /\ phase' = IF pos = Len(line) THEN "matched" ELSE "false"
  /\ UNCHANGED <<api, line, fmt, si, pos, stack, caps, result, calls>>

StartsWith(text) ==
  /\ pos + Len(text) <= Len(line)
  /\ \A i \in 1 .. Len(text) : line[pos + i] = text[i]

\* The line must go on with the literal.
LiteralSeg ==
  /\ phase = "enter"
  /\ si <= Len(Segs) /\ Seg.lit
  /\ IF StartsWith(Seg.text)
       THEN /\ si' = si + 1
            /\ pos' = pos + Len(Seg.text)
            /\ UNCHANGED phase
       ELSE phase' = "false" /\ UNCHANGED <<si, pos>>
  /\ UNCHANGED <<api, line, fmt, stack, caps, result, calls>>

\* A capture begins its loop one past the end of the line.
CaptureSeg ==
  /\ phase = "enter"
  /\ si <= Len(Segs) /\ ~Seg.lit
  /\ stack' = Append(stack, [seg |-> si, from |-> pos, to |-> Len(line) + 1,
                             empty |-> FALSE])
  /\ phase' = "try"
  /\ UNCHANGED <<api, line, fmt, si, pos, caps, result, calls>>

TypeMatches(ty, text) == text # <<>> /\ (ty = "string" \/ ParsesAs(ty, text))

\* The recursive call behind the top capture, which now ends at e.
Descend(e) ==
  /\ caps' = Append(caps, <<Top.seg, Top.from, e>>)
  /\ si' = Top.seg + 1
  /\ pos' = e
  /\ phase' = "enter"

\* One round of the loop: the capture loses its last byte.  The slice panics
\* inside a character.
Shrink ==
  /\ phase = "try"
  /\ Top.to > Top.from
  /\ LET e == Top.to - 1 IN
       /\ stack' = [stack EXCEPT ![Len(stack)].to = e]
       /\ IF ~IsCharBoundary(line, e)
            THEN phase' = "panicked" /\ UNCHANGED <<si, pos, caps>>
          ELSE IF TypeMatches(Segs[Top.seg].ty, SubSeq(line, Top.from + 1, e))
            THEN Descend(e)
          ELSE UNCHANGED <<si, pos, caps, phase>>
  /\ UNCHANGED <<api, line, fmt, result, calls>>

\* Mutation: the attempt at an empty text is made again and again.
TryEmptyAgain ==
  /\ phase = "try"
  /\ Top.to = Top.from
  /\ ~Top.empty
  /\ Segs[Top.seg].ty = "string"
  /\ Descend(Top.from)
  /\ UNCHANGED <<api, line, fmt, stack, result, calls>>

\* A string may be empty: the last attempt, after the loop.
TryEmpty ==
  /\ phase = "try"
  /\ Top.to = Top.from
  /\ ~Top.empty
  /\ Segs[Top.seg].ty = "string"
  /\ stack' = [stack EXCEPT ![Len(stack)].empty = TRUE]
  /\ Descend(Top.from)
  /\ UNCHANGED <<api, line, fmt, result, calls>>

\* Mutation: a string gives up without trying the empty text.
ExhaustedEarly ==
  /\ phase = "try"
  /\ Top.to = Top.from
  /\ stack' = Pop(stack)
  /\ phase' = "false"
  /\ UNCHANGED <<api, line, fmt, si, pos, caps, result, calls>>

\* The capture has no attempt left: its call returns false.
Exhausted ==
  /\ phase = "try"
  /\ Top.to = Top.from
  /\ Top.empty \/ Segs[Top.seg].ty # "string"
  /\ stack' = Pop(stack)
  /\ phase' = "false"
  /\ UNCHANGED <<api, line, fmt, si, pos, caps, result, calls>>

\* false returned to a capture: caps.pop(), and on with its loop.
Backtrack ==
  /\ phase = "false"
  /\ stack # <<>>
  /\ caps' = Pop(caps)
  /\ phase' = "try"
  /\ UNCHANGED <<api, line, fmt, si, pos, stack, result, calls>>

\* false returned from the outermost call: the next format, or no match.
FormatFails ==
  /\ phase = "false"
  /\ stack = <<>>
  /\ IF fmt < Len(Formats) THEN Start(fmt + 1)
     ELSE phase' = "idle" /\ UNCHANGED <<fmt, si, pos, stack, caps>>
  /\ UNCHANGED <<api, line, result, calls>>

\* into_raw: the captures as fields of the line.
RawFields ==
  [i \in DOMAIN caps |-> [name |-> Segs[caps[i][1]].field,
                          text |-> SubSeq(line, caps[i][2] + 1, caps[i][3])]]

\* true returned from the outermost call.  parse_line goes on to build the
\* record, and panics if a mask does.
Matched ==
  /\ phase = "matched"
  /\ \/ /\ api = "matches"
        /\ phase' = "idle"
        /\ result' = [some |-> TRUE, format |-> fmt, fields |-> <<>>]
     \/ /\ api = "match_line"
        /\ phase' = "idle"
        /\ result' = [some |-> TRUE, format |-> fmt,
                      fields |-> [i \in DOMAIN RawFields |->
                        [name |-> RawFields[i].name,
                         value |-> Value("str", RawFields[i].text)]]]
     \/ /\ api = "parse_line"
        /\ ~BuildPanics(Formats[fmt], RawFields)
        /\ phase' = "idle"
        /\ result' = [some |-> TRUE, format |-> fmt,
                      fields |-> BuildRecord(Formats[fmt], RawFields)]
     \/ /\ api = "parse_line"
        /\ BuildPanics(Formats[fmt], RawFields)
        /\ phase' = "panicked"
        /\ UNCHANGED result
  /\ UNCHANGED <<api, line, fmt, si, pos, stack, caps, calls>>

-----------------------------------------------------------------------------

Step ==
  \/ AtEnd \/ LiteralSeg \/ CaptureSeg \/ Shrink \/ TryEmpty \/ Exhausted
  \/ Backtrack \/ FormatFails \/ Matched

Over ==
  /\ phase = "panicked" \/ (phase = "idle" /\ calls = MaxCalls)
  /\ UNCHANGED vars

Next == (\E l \in Lines : Call(l)) \/ Step \/ Over

Spec == Init /\ [][Next]_vars

\* The matcher runs on its caller's thread and never waits.
FairSpec == Spec /\ WF_vars(Step)

-----------------------------------------------------------------------------

\* Where the segments of format f can begin and end so that they spell out l.
Tilings(f, l) ==
  LET segs == Formats[f].segs
      n == Len(segs) IN
  {at \in [1 .. n + 1 -> 0 .. Len(l)] :
     /\ at[1] = 0 /\ at[n + 1] = Len(l)
     /\ \A k \in 1 .. n :
          LET text == IF at[k] <= at[k + 1] THEN SubSeq(l, at[k] + 1, at[k + 1])
                                            ELSE <<>> IN
          /\ at[k] <= at[k + 1]
          /\ IF segs[k].lit THEN text = segs[k].text
             ELSE \/ segs[k].ty = "string"
                  \/ (text # <<>> /\ ParsesAs(segs[k].ty, text))}

\* The captures that go with a tiling.
CapsOf(f, at) ==
  LET segs == Formats[f].segs IN
  {<<k, at[k], at[k + 1]>> : k \in {k \in DOMAIN segs : ~segs[k].lit}}

\* A match covers the whole line: the literals and the captured texts, in
\* their order and without a gap, spell it out, and the context holds one
\* capture for each capture segment and nothing left over from an attempt
\* that failed, from another format or from the line before.
CapsTile ==
  phase = "matched" =>
    \E at \in Tilings(fmt, line) :
      /\ {caps[i] : i \in DOMAIN caps} = CapsOf(fmt, at)
      /\ \A i, j \in DOMAIN caps : i < j => caps[i][1] < caps[j][1]

\* at is preferred to other: the first place where they differ is longer.
Longer(at, other) ==
  \E k \in DOMAIN at :
    at[k] > other[k] /\ \A j \in 1 .. k - 1 : at[j] = other[j]

\* The backtracking is complete and greedy: the format is the first that has
\* a way to spell out the line, and of all the ways it has the captures are
\* the longest, the first capture first.  No match is missed.
FirstLongest ==
  /\ phase = "matched" =>
       /\ \A f \in 1 .. fmt - 1 : Tilings(f, line) = {}
       /\ \E at \in Tilings(fmt, line) :
            /\ {caps[i] : i \in DOMAIN caps} = CapsOf(fmt, at)
            /\ \A other \in Tilings(fmt, line) : other = at \/ Longer(at, other)
  /\ phase = "idle" /\ calls > 0 /\ ~result.some =>
       \A f \in DOMAIN Formats : Tilings(f, line) = {}

CapturesOf(f, name) ==
  {k \in DOMAIN Formats[f].segs :
     ~Formats[f].segs[k].lit /\ Formats[f].segs[k].field = name}

\* The log record that is exported for what parse_line returned.
Exported == RecordsToPayload(<<result>>, "scope")[1].logs[1]

\* The variants a text names, by number or by name.
VariantsOf(variants, text) ==
  {k \in DOMAIN variants : \/ k - 1 \in Usize(text)
                           \/ IgnoreCase(variants[k]) = IgnoreCase(text)}

Addresses == {"ip", "ipv4", "ipv6", "mac"}

\* What a text of type ty has to be in the exported record.  A number keeps
\* its value, but for the widths: an unsigned one is shown as the i64 of the
\* same bits, and the code of an enum is one byte.  An address is written out
\* anew.
Shows(ty, variants, text, v) ==
  CASE ty \in {"int", "timestamp"} -> v.kind = "int" /\ v.n = NumberOf(text)
    [] ty = "uint" -> /\ v.kind = "int" /\ v.n \in -I64 .. I64 - 1
                      /\ NumberOf(text) \in {v.n, v.n + 2 * I64}
    [] ty = "enum" -> /\ v.kind = "int" /\ v.n \in 0 .. U8 - 1
                      /\ \E k \in VariantsOf(variants, text) : v.n = (k - 1) % U8
    [] ty = "bool" -> v.kind = "bool" /\ v.n = (IF IsTrue(text) THEN 1 ELSE 0)
    [] ty = "float" -> v.kind = "double" /\ v.text = text
    [] ty \in Addresses -> v.kind = "string" /\ v.text = Display(ty, text)
    [] OTHER -> v.kind = "string" /\ v.text = text

\* The line's captures arrive at the collector, each under its name, in order
\* and with its value: what the matcher let through as a type is exported as
\* that type and never falls back to a string, what is coerced is exported as
\* the target of its first coercion or, where it does not parse, as the text it
\* was.  (Fields
\* that are redacted, or captured twice, are left out here.)
ExportedAsDeclared ==
  api = "parse_line" /\ result.some =>
    LET F == Formats[result.format] IN
    /\ Len(Exported.attributes) = Len(RawFields)
    /\ \A i \in DOMAIN RawFields :
         LET f == RawFields[i]
             a == Exported.attributes[i]
             mine == CapturesOf(result.format, f.name)
             cs == {c \in DOMAIN F.coercions : F.coercions[c].field = f.name} IN
         /\ a.key = f.name
         /\ (\A j, k \in mine : j = k) /\ Redactions(F, f.name) = {} =>
              IF cs = {}
              THEN \A k \in mine : Shows(F.segs[k].ty, <<>>, f.text, a.value)
              ELSE LET C == F.coercions[Least(cs)] IN
                     \/ Shows(C.to, C.variants, f.text, a.value)
                     \/ /\ Shows("string", <<>>, f.text, a.value)
                        /\ IF C.to = "enum" THEN VariantsOf(C.variants, f.text) = {}
                           ELSE ~ParsesAs(C.to, f.text)

\* All that may be seen of a redacted text: its last two bytes, or a digest.
Hides(v, text) ==
  /\ v.kind = "string"
  /\ v.text # <<>> => \A k \in 1 .. Len(text) - 2 : v.text[k] = Star

\* A redacted field leaves the process redacted: neither its attribute nor,
\* when it is the message, the body of the log record shows it, whatever else
\* the schema does with the field.  Of two captures of one name this is said
\* of the first only.
RedactedEverywhere ==
  api = "parse_line" /\ result.some =>
    \A i \in DOMAIN RawFields :
      LET f == RawFields[i] IN
      IsFirst(RawFields, i) /\ Redactions(Formats[result.format], f.name) # {} =>
        /\ Hides(Exported.attributes[i].value, f.text)
        /\ f.name = MessageField => Hides(Exported.body, f.text)

\* Every call returns or panics.
MatchEnds == phase = "enter" ~> phase \in {"idle", "panicked"}

\* What the comment on match_segments says: it returns true on a full match.
\* Where the format being tried has one, the matcher does not panic.
FullMatchFound == phase = "panicked" => Tilings(fmt, line) = {}
=============================================================================
