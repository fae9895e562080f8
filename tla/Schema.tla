------------------------------- MODULE Schema -------------------------------
(***************************************************************************)
(* From a .tpt-log file to compiled formats: parse of tpt-telemetry-schema *)
(* with its pattern tokenizer, then CompiledSchema::compile of             *)
(* tpt-telemetry-compiler.  The file is the tree its grammar yields: a     *)
(* sequence of format blocks, each with its name and statements.  A        *)
(* pattern is a sequence of symbols: % { } : and words.                    *)
(***************************************************************************)
EXTENDS Segment, SequencesExt

CONSTANT Alphabet    \* the characters and words that texts are made of

VARIABLES
  source,     \* the text being loaded
  phase,      \* where the loader is
  block,      \* the format block
  stmt,       \* the statement of it
  draft,      \* the Format being put together, and the fields seen in it
  i, lit, j, depth, parts,   \* the variables of tokenize_pattern
  formats,    \* the formats parsed so far
  compiled,   \* the formats compiled so far
  error       \* the error returned

tokenVars == <<i, lit, j, depth, parts>>
vars == <<source, phase, block, stmt, draft, tokenVars, formats, compiled, error>>

\* What the grammar makes of a text.
Statement ==
  [kind : Alphabet, field : Seq(Alphabet), to : Alphabet, text : Seq(Alphabet)]
FormatBlock == [name : Alphabet, stmts : Seq(Statement)]
Tree == Seq(FormatBlock)

Empty == [found |-> FALSE, pattern |-> <<>>, extracts |-> <<>>, coercions |-> <<>>,
          redactions |-> <<>>, seen |-> {}]

\* The parser and the compiler before the first line of a text.
Fresh(p) ==
  /\ phase = p /\ block = 1 /\ stmt = 1 /\ draft = Empty
  /\ i = 1 /\ lit = 1 /\ j = 1 /\ depth = 0 /\ parts = <<>>
  /\ formats = <<>> /\ compiled = <<>> /\ error = "none"

Block == source[block]
Stmt == Block.stmts[stmt]

Fail(e) == phase' = "err" /\ error' = e

-----------------------------------------------------------------------------
(* The grammar *)

\* The alternatives of type_name, in their order, and how they are spelled:
\* ip begins ipv4 and ipv6.
TypeRule == <<"int", "uint", "float", "bool", "string", "ip", "ipv4", "ipv6",
              "mac", "timestamp">>

Spelling(t) ==
  IF t = "ipv4" THEN <<"ip", "v4">> ELSE IF t = "ipv6" THEN <<"ip", "v6">>
  ELSE <<t>>

\* The choice is ordered: it takes the first alternative that the text begins
\* with, and the statement must end behind it.
GrammarTakes(t) ==
  \E k \in DOMAIN TypeRule :
    /\ TypeRule[k] = t
    /\ \A m \in 1 .. k - 1 : ~IsPrefix(Spelling(TypeRule[m]), Spelling(t))

InGrammar(file) ==
  \A b \in DOMAIN file : \A s \in DOMAIN file[b].stmts :
    LET st == file[b].stmts[s] IN
    /\ st.kind \in {"pattern", "extract", "coerce", "redact"}
    /\ st.kind = "coerce" /\ st.to # "enum" => GrammarTakes(st.to)
    /\ st.kind = "redact" => st.to \in {"hash", "mask"}

\* SchemaParser::parse over the whole file.
ParseFile ==
  /\ phase = "file"
  /\ IF InGrammar(source) THEN phase' = "stmt" /\ UNCHANGED error
     ELSE Fail("Parse")
  /\ UNCHANGED <<source, block, stmt, draft, tokenVars, formats, compiled>>

-----------------------------------------------------------------------------
(* The statements of a format block *)

InBlock ==
  /\ phase = "stmt"
  /\ block <= Len(source)

PatternDecl ==
  /\ InBlock
  /\ stmt <= Len(Block.stmts) /\ Stmt.kind = "pattern"
  /\ i' = 1 /\ lit' = 1 /\ j' = 1 /\ depth' = 0 /\ parts' = <<>>
  /\ phase' = "scan"
  /\ UNCHANGED <<source, block, stmt, draft, formats, compiled, error>>

\* check_field: no two extract or coerce statements of a block share a field.
CheckField(st) == st.field \notin draft.seen

ExtractDecl ==
  /\ InBlock
  /\ stmt <= Len(Block.stmts) /\ Stmt.kind = "extract"
  /\ IF CheckField(Stmt)
       THEN /\ draft' = [draft EXCEPT !.extracts = Append(@, Stmt),
                                      !.seen = @ \cup {Stmt.field}]
            /\ stmt' = stmt + 1
            /\ UNCHANGED <<phase, error>>
       ELSE Fail("DuplicateField") /\ UNCHANGED <<draft, stmt>>
  /\ UNCHANGED <<source, block, tokenVars, formats, compiled>>

CoerceDecl ==
  /\ InBlock
  /\ stmt <= Len(Block.stmts) /\ Stmt.kind = "coerce"
  /\ IF CheckField(Stmt)
       THEN /\ draft' = [draft EXCEPT !.coercions = Append(@, Stmt),
                                      !.seen = @ \cup {Stmt.field}]
            /\ stmt' = stmt + 1
            /\ UNCHANGED <<phase, error>>
       ELSE Fail("DuplicateField") /\ UNCHANGED <<draft, stmt>>
  /\ UNCHANGED <<source, block, tokenVars, formats, compiled>>

RedactDecl ==
  /\ InBlock
  /\ stmt <= Len(Block.stmts) /\ Stmt.kind = "redact"
  /\ draft' = [draft EXCEPT !.redactions = Append(@, Stmt)]
  /\ stmt' = stmt + 1
  /\ UNCHANGED <<source, phase, block, tokenVars, formats, compiled, error>>

Names == {formats[f].name : f \in DOMAIN formats}

\* The end of a block: its name is new, and it has a pattern.
EndBlock ==
  /\ InBlock
  /\ stmt > Len(Block.stmts)
  /\ IF Block.name \in Names
       THEN Fail("DuplicateFormat") /\ UNCHANGED <<formats, block, stmt, draft>>
     ELSE IF ~draft.found
       THEN Fail("MissingPattern") /\ UNCHANGED <<formats, block, stmt, draft>>
       ELSE /\ formats' = Append(formats, [name |-> Block.name, body |-> draft])
            /\ block' = block + 1 /\ stmt' = 1 /\ draft' = Empty
            /\ UNCHANGED <<phase, error>>
  /\ UNCHANGED <<source, tokenVars, compiled>>

EndFile ==
  /\ phase = "stmt"
  /\ block > Len(source)
  /\ phase' = "compile"
  /\ UNCHANGED <<source, block, stmt, draft, tokenVars, formats, compiled, error>>

-----------------------------------------------------------------------------
(* tokenize_pattern *)

Text == Stmt.text

ScanLiteral ==
  /\ phase = "scan"
  /\ i <= Len(Text) /\ ~Opens(Text, i)
  /\ i' = i + 1
  /\ UNCHANGED <<source, phase, block, stmt, draft, lit, j, depth, parts, formats,
                 compiled, error>>

LiteralPart(from, to) ==
  IF from < to THEN <<[kind |-> "lit", text |-> SubSeq(Text, from, to - 1)]>>
  ELSE <<>>

\* A capture opens: the literal before it is flushed.
ScanCapture ==
  /\ phase = "scan"
  /\ i <= Len(Text) /\ Opens(Text, i)
  /\ parts' = parts \o LiteralPart(lit, i)
  /\ depth' = 1 /\ j' = i + 2
  /\ phase' = "brace"
  /\ UNCHANGED <<source, block, stmt, draft, i, lit, formats, compiled, error>>

\* Mutation: braces inside a capture are not counted.
BraceFlat ==
  /\ phase = "brace"
  /\ j <= Len(Text) /\ depth > 0
  /\ depth' = IF Text[j] = "}" THEN 0 ELSE depth
  /\ j' = j + 1
  /\ UNCHANGED <<source, phase, block, stmt, draft, i, lit, parts, formats,
                 compiled, error>>

\* Mutation: the search for the brace advances only over braces.
BraceStuck ==
  /\ phase = "brace"
  /\ j <= Len(Text) /\ depth > 0
  /\ depth' = IF Text[j] = "{" THEN depth + 1
              ELSE IF Text[j] = "}" THEN depth - 1 ELSE depth
  /\ j' = IF Text[j] \in {"{", "}"} THEN j + 1 ELSE j
  /\ UNCHANGED <<source, phase, block, stmt, draft, i, lit, parts, formats,
                 compiled, error>>

Brace ==
  /\ phase = "brace"
  /\ j <= Len(Text) /\ depth > 0
  /\ depth' = IF Text[j] = "{" THEN depth + 1
              ELSE IF Text[j] = "}" THEN depth - 1 ELSE depth
  /\ j' = j + 1
  /\ UNCHANGED <<source, phase, block, stmt, draft, i, lit, parts, formats,
                 compiled, error>>

Unbalanced ==
  /\ phase = "brace"
  /\ j > Len(Text) /\ depth # 0
  /\ Fail("Parse")
  /\ UNCHANGED <<source, block, stmt, draft, tokenVars, formats, compiled>>

IsType(word) == Len(word) = 1 /\ word[1] \in Types

\* parse_capture: PATTERN; field:type, or else PATTERN:field; and
\* PATTERN:field:type, whatever comes behind it.
ParseCapture(content) ==
  LET w == Split(content) IN
  IF Len(w) = 1 THEN [name |-> w[1], ty |-> "string", grok |-> TRUE, field |-> w[1]]
  ELSE IF Len(w) = 2 /\ IsType(w[2])
    THEN [name |-> w[1], ty |-> w[2][1], grok |-> FALSE, field |-> w[1]]
  ELSE IF Len(w) = 2
    THEN [name |-> w[1], ty |-> "string", grok |-> TRUE, field |-> w[2]]
  ELSE [name |-> w[1], ty |-> w[3][1], grok |-> TRUE, field |-> w[2]]

UnknownType(content) == Len(Split(content)) >= 3 /\ ~IsType(Split(content)[3])

Content == SubSeq(Text, i + 2, j - 2)

BraceClosed ==
  /\ phase = "brace"
  /\ depth = 0
  /\ IF UnknownType(Content)
       THEN Fail("UnknownType") /\ UNCHANGED <<i, lit, parts>>
       ELSE /\ parts' = Append(parts, [kind |-> "cap", text |-> Content])
            /\ i' = j /\ lit' = j
            /\ phase' = "scan"
            /\ UNCHANGED error
  /\ UNCHANGED <<source, block, stmt, draft, j, depth, formats, compiled>>

\* The last literal is flushed and the pattern is the block's; a later pattern
\* statement replaces it.
ScanDone ==
  /\ phase = "scan"
  /\ i > Len(Text)
  /\ draft' = [draft EXCEPT !.found = TRUE,
                            !.pattern = parts \o LiteralPart(lit, Len(Text) + 1)]
  /\ stmt' = stmt + 1
  /\ phase' = "stmt"
  /\ UNCHANGED <<source, block, tokenVars, formats, compiled, error>>

-----------------------------------------------------------------------------
(* CompiledSchema::compile *)

\* grok_native_type
GrokNativeType(name) ==
  LET Is(words) == \E w \in words : name = <<w>> IN
  CASE Is({"INT", "NUMBER", "BASE10NUM"}) -> "int"
    [] Is({"POSINT", "NONNEGINT", "PORT", "BASE16NUM"}) -> "uint"
    [] Is({"FLOAT", "BASE16FLOAT"}) -> "float"
    [] Is({"IPV4"}) -> "ipv4" [] Is({"IPV6"}) -> "ipv6" [] Is({"IP"}) -> "ip"
    [] Is({"MAC"}) -> "mac"
    [] Is({"WORD", "NOTSPACE", "DATA", "GREEDYDATA", "QS", "HOSTNAME", "USERNAME",
           "USER", "EMAILADDRESS", "SPACE"}) -> "string"
    [] Is({"MONTH", "MONTHDAY", "YEAR", "HOUR", "MINUTE", "SECOND", "TIME",
           "MONTHNUM", "MONTHNUM2", "ISO8601_SECOND"}) -> "timestamp"
    [] OTHER -> "none"

\* The type of a capture: an explicit one other than string, or the one its
\* Grok name stands for.
CaptureType(c) ==
  IF ~c.grok \/ c.ty # "string" THEN c.ty ELSE GrokNativeType(c.name)

CompileSegment(part) ==
  IF part.kind = "lit" THEN Literal(part.text)
  ELSE LET c == ParseCapture(part.text) IN Capture(c.field, CaptureType(c))

Unsupported(part) ==
  part.kind = "cap" /\ CaptureType(ParseCapture(part.text)) = "none"

\* The next format, without its extract statements.
CompileFormat ==
  /\ phase = "compile"
  /\ Len(compiled) < Len(formats)
  /\ LET f == formats[Len(compiled) + 1] IN
     IF \E k \in DOMAIN f.body.pattern : Unsupported(f.body.pattern[k])
       THEN Fail("UnsupportedGrok") /\ UNCHANGED compiled
       ELSE /\ compiled' = Append(compiled,
                 [name |-> f.name,
                  segs |-> [k \in DOMAIN f.body.pattern |->
                              CompileSegment(f.body.pattern[k])],
                  coercions |-> f.body.coercions, redactions |-> f.body.redactions])
            /\ UNCHANGED <<phase, error>>
  /\ UNCHANGED <<source, block, stmt, draft, tokenVars, formats>>

Compiled ==
  /\ phase = "compile"
  /\ Len(compiled) = Len(formats)
  /\ phase' = "ok"
  /\ UNCHANGED <<source, block, stmt, draft, tokenVars, formats, compiled, error>>

-----------------------------------------------------------------------------

Load ==
  \/ ParseFile
  \/ PatternDecl \/ ExtractDecl \/ CoerceDecl \/ RedactDecl \/ EndBlock \/ EndFile
  \/ ScanLiteral \/ ScanCapture \/ Brace \/ Unbalanced \/ BraceClosed \/ ScanDone
  \/ CompileFormat \/ Compiled

-----------------------------------------------------------------------------
(* generate_rust *)

\* Mutation: an explicit type is not looked at.
GeneratedTypeAlwaysGrok(c) == IF c.grok THEN GrokNativeType(c.name) ELSE c.ty

GeneratedType(c) ==
  IF c.grok /\ c.ty = "string" THEN GrokNativeType(c.name) ELSE c.ty

GeneratedSegment(part) ==
  IF part.kind = "lit" THEN Literal(part.text)
  ELSE LET c == ParseCapture(part.text) IN
       Capture(IF c.grok THEN c.field ELSE c.name, GeneratedType(c))

\* The formats of the generated module, or the error: it walks the parsed
\* formats by itself, and fails at the first name without a native type.
GenerateRust(fs) ==
  IF \E f \in DOMAIN fs : \E k \in DOMAIN fs[f].body.pattern :
       /\ fs[f].body.pattern[k].kind = "cap"
       /\ GeneratedType(ParseCapture(fs[f].body.pattern[k].text)) = "none"
  THEN [ok |-> FALSE, formats |-> <<>>]
  ELSE [ok |-> TRUE,
        formats |-> [f \in DOMAIN fs |->
          [name |-> fs[f].name,
           segs |-> [k \in DOMAIN fs[f].body.pattern |->
                       GeneratedSegment(fs[f].body.pattern[k])],
           coercions |-> fs[f].body.coercions,
           redactions |-> fs[f].body.redactions]]]

-----------------------------------------------------------------------------

Spelled(part) ==
  IF part.kind = "lit" THEN part.text ELSE <<"%", "{">> \o part.text \o <<"}">>

Patterns(b) == {s \in DOMAIN source[b].stmts : source[b].stmts[s].kind = "pattern"}

LastPattern(b) ==
  LET s == CHOOSE s \in Patterns(b) : \A t \in Patterns(b) : t <= s
  IN source[b].stmts[s].text

Braces(s, k, c) == Cardinality({m \in 1 .. k : s[m] = c})

\* Nothing of a pattern is lost, moved or read twice: the literals and the
\* captures of a format, put back together, are the last pattern statement of
\* its block; and every capture is found and is whole: no literal opens one,
\* and the braces inside one balance.
PatternCut ==
  \A f \in DOMAIN formats :
    LET ps == formats[f].body.pattern IN
    /\ FlattenSeq([k \in DOMAIN ps |-> Spelled(ps[k])]) = LastPattern(f)
    /\ \A k \in DOMAIN ps :
         LET t == ps[k].text IN
         IF ps[k].kind = "lit" THEN \A m \in DOMAIN t : ~Opens(t, m)
         ELSE /\ \A m \in DOMAIN t : Braces(t, m, "{") >= Braces(t, m, "}")
              /\ Braces(t, Len(t), "{") = Braces(t, Len(t), "}")
=============================================================================
