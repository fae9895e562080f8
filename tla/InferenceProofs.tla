-------------------------- MODULE InferenceProofs ---------------------------
(***************************************************************************)
(* Proofs about Inference and the schema loader it runs, for any command   *)
(* line and whatever the provider replies: what is fed back is complete,   *)
(* what is printed is the first reply that compiles, and compiles whole,   *)
(* patterns are cut without loss, and what is written down twice, the      *)
(* tokenizers, the Grok names and the walks over the formats, agrees.      *)
(***************************************************************************)
EXTENDS Inference, FiniteSetTheorems, WellFoundedInduction, TLAPS

-----------------------------------------------------------------------------
(* Lemmas about the operators. *)

\* A function on 1 .. n is a sequence of length n.
LEMMA FunctionIsSeq ==
  ASSUME NEW n \in Nat, NEW f, f = [k \in 1 .. n |-> f[k]]
  PROVE  Len(f) = n /\ DOMAIN f = 1 .. n
  OBVIOUS

\* There is always a word.
LEMMA SplitLength ==
  ASSUME NEW s \in Seq(Alphabet)
  PROVE  Len(Split(s)) \in Nat \ {0}
  <1>1. Colons(s, Len(s)) \in Nat
    <2> DEFINE C == {m \in 1 .. Len(s) : s[m] = ":"}
    <2>1. IsFiniteSet(1 .. Len(s))
      BY FS_Interval
    <2>2. C \in SUBSET (1 .. Len(s))
      OBVIOUS
    <2>3. IsFiniteSet(C)
      BY <2>1, <2>2, FS_Subset
    <2>4. Cardinality(C) \in Nat
      BY <2>3, FS_CardinalityType
    <2> QED
      BY <2>4 DEF Colons
  <1>2. Split(s) = [n \in 1 .. Colons(s, Len(s)) + 1 |-> Split(s)[n]]
    BY DEF Split
  <1> QED
    BY <1>1, <1>2, FunctionIsSeq

\* A number of retries is one that was given, or three.
LEMMA RetriesType ==
  ASSUME NEW c \in Commands, NEW args, args = c.argv
  PROVE  Retries(args) \in Numbers /\ Retries(args) \in Nat
  <1> DEFINE ks == {k \in Given(args, "--retries") : NumberIn(args[k]) # {}}
             last == {k \in ks : \A m \in ks : m <= k}
  <1>1. CASE last = {}
    <2>1. Retries(args) = 3
      BY <1>1 DEF Retries
    <2> QED
      BY <2>1, CommandsAssumption DEF Numbers
  <1>2. CASE last # {}
    <2> DEFINE N == UNION {NumberIn(args[k]) : k \in last}
    <2>1. PICK k \in last : TRUE
      BY <1>2
    <2>2. N # {}
      BY <2>1
    <2>3. last \subseteq DOMAIN args
      BY CommandsAssumption DEF Given
    <2>4. N \subseteq Numbers
      BY <2>3 DEF Numbers
    <2>5. Retries(args) = CHOOSE n \in N : TRUE
      BY <1>2 DEF Retries
    <2> QED
      BY <2>2, <2>4, <2>5, CommandsAssumption
  <1> QED
    BY <1>1, <1>2

LEMMA NativeTypes == \A name : GrokNativeType(name) \in Types \cup {"none"}
  BY DEF GrokNativeType, Types

\* A capture whose type is known has a type, or a name without a native one.
LEMMA CaptureHasType ==
  ASSUME NEW s \in Seq(Alphabet), ~UnknownType(s)
  PROVE  CaptureType(ParseCapture(s)) \in Types \cup {"none"}
  <1>1. Len(Split(s)) \in Nat \ {0}
    BY SplitLength
  <1> DEFINE c == ParseCapture(s)
  <1>2. c.ty \in Types
    <2>1. CASE Len(Split(s)) = 1
      BY <2>1 DEF ParseCapture, Types
    <2>2. CASE Len(Split(s)) = 2
      BY <2>2 DEF ParseCapture, IsType, Types
    <2>3. CASE Len(Split(s)) \notin {1, 2}
      <3>1. Split(s)[3][1] \in Types
        <4> DEFINE n == Len(Split(s))
        <4>1. n \in Nat \ {0} /\ n \notin {1, 2}
          BY <1>1, <2>3
        <4> HIDE DEF n
        <4>2. n >= 3
          BY <4>1
        <4> QED
          BY <4>2 DEF UnknownType, IsType, n
      <3>2. c.ty = Split(s)[3][1]
        BY <2>3 DEF ParseCapture
      <3> QED
        BY <3>1, <3>2
    <2> QED
      BY <2>1, <2>2, <2>3
  <1> HIDE DEF c
  <1> QED
    BY <1>2, NativeTypes DEF CaptureType, c

-----------------------------------------------------------------------------
(* The schema loader. *)

Part == {p \in [kind : {"lit", "cap"}, text : Seq(Alphabet)] :
           p.kind = "cap" => ~UnknownType(p.text)}

Body == [found : BOOLEAN, pattern : Seq(Part), extracts : Seq(Statement),
         coercions : Seq(Statement), redactions : Seq(Statement),
         seen : SUBSET Seq(Alphabet)]

Parsed == [name : Alphabet, body : Body]

\* No field has two coercions.
Distinct(cs) ==
  \A c, d \in DOMAIN cs : cs[c].field = cs[d].field => c = d

\* Where the parser is, and what it has put together.
LoaderTyped ==
  /\ source \in Tree
  /\ phase \in {"idle", "file", "stmt", "scan", "brace", "compile", "ok", "err"}
  /\ block \in Nat \ {0} /\ stmt \in Nat \ {0}
  /\ draft \in Body
  /\ parts \in Seq(Part)
  /\ formats \in Seq(Parsed)
  /\ phase = "err" => error # "none"

\* In a pattern the offsets stay inside.
ScanOK ==
  phase \in {"scan", "brace"} =>
    /\ block <= Len(source) /\ stmt <= Len(Block.stmts)
    /\ i \in 1 .. Len(Text) + 1 /\ lit \in 1 .. i
    /\ phase = "brace" => i + 1 <= Len(Text) /\ j \in i + 2 .. Len(Text) + 1

\* Every block read has its format, names do not repeat, and neither do the
\* fields of the coercions.
FormatsOK ==
  /\ Len(formats) = block - 1 /\ block <= Len(source) + 1
  /\ \A f \in 1 .. Len(formats) : /\ formats[f].name = source[f].name
                                  /\ Distinct(formats[f].body.coercions)
  /\ \A f, g \in 1 .. Len(formats) : formats[f].name = formats[g].name => f = g
  /\ Distinct(draft.coercions)
  /\ \A c \in DOMAIN draft.coercions : draft.coercions[c].field \in draft.seen

\* What compile has made of format f.
CompiledAs(f, x) ==
  /\ x.name = f.name
  /\ x.coercions = f.body.coercions
  /\ DOMAIN x.segs = DOMAIN f.body.pattern
  /\ Len(x.segs) = Len(f.body.pattern)
  /\ \A k \in DOMAIN x.segs : x.segs[k].ty \in Types

CompiledOK ==
  /\ \E S : compiled \in Seq(S)
  /\ Len(compiled) <= Len(formats)
  /\ \A f \in 1 .. Len(compiled) : CompiledAs(formats[f], compiled[f])
  /\ phase \in {"compile", "ok"} => block = Len(source) + 1
  /\ phase = "ok" => Len(compiled) = Len(formats)
  /\ phase \in {"file", "stmt", "scan", "brace"} => compiled = <<>>

LoaderInv == LoaderTyped /\ ScanOK /\ FormatsOK /\ CompiledOK

\* A text that has been loaded has been compiled whole.
LEMMA LoadedWhole ==
  ASSUME LoaderInv, phase = "ok"
  PROVE  CompiledWhole(source)
  <1>1. /\ Len(compiled) = Len(source) /\ Len(formats) = Len(source)
        /\ source \in Tree
    BY DEF LoaderInv, LoaderTyped, FormatsOK, CompiledOK, Tree
  <1>2. DOMAIN source = 1 .. Len(source)
    BY <1>1 DEF Tree
  <1>3. ASSUME NEW f \in DOMAIN source
        PROVE  /\ compiled[f].name = source[f].name
               /\ \A g \in DOMAIN source : source[f].name = source[g].name => f = g
               /\ Len(compiled[f].segs) = Len(formats[f].body.pattern)
               /\ \A k \in DOMAIN compiled[f].segs : compiled[f].segs[k].ty \in Types
               /\ Distinct(compiled[f].coercions)
    BY <1>1, <1>2, <1>3 DEF LoaderInv, FormatsOK, CompiledOK, CompiledAs
  <1> QED
    BY <1>1, <1>3 DEF CompiledWhole, Distinct

\* A new text.
LEMMA RestartStep ==
  ASSUME NEW text \in Tree, NEW p \in {"idle", "file"}, Restart(text, p)
  PROVE  LoaderInv'
  <1>1. /\ source' = text /\ phase' = p /\ block' = 1 /\ stmt' = 1 /\ draft' = Empty
        /\ parts' = <<>> /\ formats' = <<>> /\ compiled' = <<>> /\ error' = "none"
    BY DEF Restart
  <1>2. Empty \in Body
    BY DEF Empty, Body
  <1>3. Distinct(Empty.coercions) /\ DOMAIN Empty.coercions = {}
    BY DEF Empty, Distinct
  <1>4. LoaderTyped'
    BY <1>1, <1>2 DEF LoaderTyped
  <1>5. ScanOK'
    BY <1>1 DEF ScanOK
  <1>6. FormatsOK'
    BY <1>1, <1>3 DEF FormatsOK, Tree
  <1>7. CompiledOK'
    BY <1>1 DEF CompiledOK
  <1> QED
    BY <1>4, <1>5, <1>6, <1>7 DEF LoaderInv

\* The statement and the text under the cursor.
LEMMA StmtType ==
  ASSUME LoaderTyped, block <= Len(source), stmt <= Len(Block.stmts)
  PROVE  /\ Stmt \in Statement /\ Text \in Seq(Alphabet)
         /\ Stmt.field \in Seq(Alphabet)
  <1>1. Block \in FormatBlock
    <2>1. source \in Seq(FormatBlock)
      BY DEF LoaderTyped, Tree
    <2>2. block \in 1 .. Len(source)
      BY <2>1 DEF LoaderTyped
    <2> QED
      BY <2>1, <2>2 DEF Block
  <1>2. Stmt \in Statement
    <2>1. stmt \in 1 .. Len(Block.stmts)
      BY <1>1 DEF LoaderTyped, FormatBlock
    <2> QED
      BY <1>1, <2>1 DEF Stmt, FormatBlock
  <1> QED
    BY <1>2 DEF Text, Statement

\* Steps that only move the cursor.
LEMMA CursorStep ==
  ASSUME LoaderInv,
         ParseFile \/ PatternDecl \/ EndFile \/ ScanLiteral \/ Brace \/ Unbalanced
  PROVE  LoaderInv'
  <1> USE DEF tokenVars, Fail
  <1>1. UNCHANGED <<source, block, stmt, draft, formats, compiled>>
    BY DEF ParseFile, PatternDecl, EndFile, ScanLiteral, Brace, Unbalanced
  <1>2. /\ phase' \in {"stmt", "scan", "brace", "compile", "err"}
        /\ phase' = "err" => error' # "none"
        /\ phase' = "compile" => phase = "stmt" /\ block > Len(source)
        /\ phase \in {"file", "stmt", "scan", "brace"}
        /\ parts' = parts \/ parts' = <<>>
    <2>1. CASE ParseFile
      BY <2>1 DEF ParseFile
    <2>2. CASE PatternDecl \/ EndFile
      BY <2>2 DEF PatternDecl, InBlock, EndFile
    <2>3. CASE ScanLiteral \/ Brace \/ Unbalanced
      BY <2>3 DEF ScanLiteral, Brace, Unbalanced
    <2> QED
      BY <2>1, <2>2, <2>3
  <1>3. LoaderTyped'
    <2>1. parts' \in Seq(Part)
      <3>1. parts \in Seq(Part) /\ <<>> \in Seq(Part)
        BY DEF LoaderInv, LoaderTyped
      <3>2. parts' = parts \/ parts' = <<>>
        BY <1>2
      <3> QED
        BY <3>1, <3>2
    <2> QED
      BY <1>1, <1>2, <2>1 DEF LoaderInv, LoaderTyped
  <1>4. FormatsOK'
    BY <1>1 DEF LoaderInv, FormatsOK
  <1>5. CompiledOK'
    <2>1. phase' = "compile" => block = Len(source) + 1
      BY <1>2 DEF LoaderInv, LoaderTyped, FormatsOK, Tree
    <2> QED
      BY <1>1, <1>2, <2>1 DEF LoaderInv, CompiledOK, CompiledAs
  <1>6. ScanOK'
    <2>1. CASE PatternDecl
      <3>1. Text \in Seq(Alphabet)
        BY <2>1, StmtType DEF PatternDecl, InBlock, LoaderInv
      <3> QED
        <4>1. /\ block <= Len(source) /\ stmt <= Len(Block.stmts)
              /\ i' = 1 /\ lit' = 1 /\ phase' = "scan" /\ UNCHANGED <<Text, Block>>
          BY <1>1, <2>1 DEF PatternDecl, InBlock, Block, Text, Stmt
        <4> QED
          BY <1>1, <3>1, <4>1 DEF ScanOK
    <2>2. CASE ScanLiteral
      <3>1. Text \in Seq(Alphabet)
        BY <2>2, StmtType DEF ScanLiteral, ScanOK, LoaderInv
      <3> QED
        BY <1>1, <2>2, <3>1, SMTT(30) DEF ScanLiteral, ScanOK, LoaderInv, Block, Text, Stmt
    <2>3. CASE Brace
      <3>1. Text \in Seq(Alphabet)
        BY <2>3, StmtType DEF Brace, ScanOK, LoaderInv
      <3>2. /\ phase = "brace" /\ phase' = "brace" /\ UNCHANGED <<i, lit, Text, Block>>
            /\ j <= Len(Text) /\ j' = j + 1
        BY <1>1, <2>3 DEF Brace, Block, Text, Stmt
      <3> QED
        BY <1>1, <3>1, <3>2 DEF ScanOK, LoaderInv
    <2>4. CASE ParseFile \/ EndFile \/ Unbalanced
      BY <2>4 DEF ParseFile, EndFile, Unbalanced, ScanOK
    <2> QED
      BY <2>1, <2>2, <2>3, <2>4
  <1> QED
    BY <1>3, <1>4, <1>5, <1>6 DEF LoaderInv

\* The literal between two places of the text is a part, or nothing.
LEMMA LiteralPartType ==
  ASSUME Text \in Seq(Alphabet), NEW from \in Nat \ {0}, NEW to \in 1 .. Len(Text) + 1
  PROVE  LiteralPart(from, to) \in Seq(Part)
  <1>1. CASE from < to
    <2>1. SubSeq(Text, from, to - 1) \in Seq(Alphabet)
      BY <1>1
    <2>2. [kind |-> "lit", text |-> SubSeq(Text, from, to - 1)] \in Part
      BY <2>1 DEF Part
    <2> QED
      BY <1>1, <2>2 DEF LiteralPart
  <1>2. CASE ~(from < to)
    BY <1>2 DEF LiteralPart
  <1> QED
    BY <1>1, <1>2

\* Steps inside a pattern that add a part to it.
LEMMA PartStep ==
  ASSUME LoaderInv, ScanCapture \/ BraceClosed
  PROVE  LoaderInv'
  <1> USE DEF Fail
  <1>1. UNCHANGED <<source, block, stmt, draft, formats, compiled, Text, Block>>
    BY DEF ScanCapture, BraceClosed, Text, Stmt, Block
  <1>2. /\ Text \in Seq(Alphabet) /\ Len(Text) \in Nat
        /\ block <= Len(source) /\ stmt <= Len(Block.stmts)
    BY StmtType DEF ScanCapture, BraceClosed, ScanOK, LoaderInv
  <1>3. parts \in Seq(Part)
    BY DEF LoaderInv, LoaderTyped
  <1>4. /\ phase \in {"scan", "brace"}
        /\ i \in 1 .. Len(Text) + 1 /\ lit \in 1 .. i
        /\ phase = "brace" => i + 1 <= Len(Text) /\ j \in i + 2 .. Len(Text) + 1
    BY DEF ScanCapture, BraceClosed, ScanOK, LoaderInv
  <1>5. ASSUME parts' \in Seq(Part), phase' \in {"scan", "brace", "err"},
               phase' = "err" => error' # "none",
               phase' \in {"scan", "brace"} =>
                 /\ i' \in 1 .. Len(Text) + 1 /\ lit' \in 1 .. i'
                 /\ phase' = "brace" => i' + 1 <= Len(Text) /\ j' \in i' + 2 .. Len(Text) + 1
        PROVE  LoaderInv'
    <2>1. LoaderTyped'
      BY <1>1, <1>5 DEF LoaderInv, LoaderTyped
    <2>2. ScanOK'
      BY <1>1, <1>2, <1>5 DEF ScanOK
    <2>3. FormatsOK'
      BY <1>1 DEF LoaderInv, FormatsOK
    <2>4. CompiledOK'
      BY <1>1, <1>4, <1>5 DEF LoaderInv, CompiledOK, CompiledAs
    <2> QED
      BY <2>1, <2>2, <2>3, <2>4 DEF LoaderInv
  <1>6. CASE ScanCapture
    <2>1. LiteralPart(lit, i) \in Seq(Part)
      BY <1>2, <1>4, LiteralPartType
    <2>2. parts' \in Seq(Part)
      BY <1>3, <1>6, <2>1 DEF ScanCapture
    <2>3. /\ phase' = "brace" /\ i' = i /\ lit' = lit /\ j' = i + 2
          /\ i + 1 <= Len(Text)
      BY <1>6 DEF ScanCapture, Opens
    <2> QED
      BY <1>2, <1>4, <1>5, <2>2, <2>3
  <1>7. CASE BraceClosed
    <2>1. CASE UnknownType(Content)
      <3>1. phase' = "err" /\ error' # "none" /\ parts' = parts
        BY <1>7, <2>1 DEF BraceClosed
      <3> QED
        BY <1>3, <1>5, <3>1
    <2>2. CASE ~UnknownType(Content)
      <3>1. phase = "brace" /\ phase' = "scan" /\ i' = j /\ lit' = j
        BY <1>7, <2>2 DEF BraceClosed
      <3>2. Content \in Seq(Alphabet)
        BY <1>2, <1>4, <3>1 DEF Content
      <3>3. [kind |-> "cap", text |-> Content] \in Part
        BY <2>2, <3>2 DEF Part
      <3>4. parts' \in Seq(Part)
        BY <1>3, <1>7, <2>2, <3>3 DEF BraceClosed
      <3> QED
        BY <1>2, <1>4, <1>5, <3>1, <3>4
    <2> QED
      BY <2>1, <2>2
  <1> QED
    BY <1>6, <1>7

\* Steps that change the draft of the block.
LEMMA DraftStep ==
  ASSUME LoaderInv, ExtractDecl \/ CoerceDecl \/ RedactDecl \/ ScanDone
  PROVE  LoaderInv'
  <1> USE DEF Fail
  <1>1. UNCHANGED <<source, block, parts, formats, compiled>>
    BY DEF ExtractDecl, CoerceDecl, RedactDecl, ScanDone, tokenVars
  <1>2. /\ Stmt \in Statement /\ Stmt.field \in Seq(Alphabet) /\ Text \in Seq(Alphabet)
        /\ phase \in {"stmt", "scan"}
    BY StmtType DEF ExtractDecl, CoerceDecl, RedactDecl, ScanDone, InBlock, ScanOK, LoaderInv
  <1>3. /\ draft \in Body /\ stmt \in Nat \ {0} /\ parts \in Seq(Part)
        /\ Distinct(draft.coercions)
        /\ \A c \in DOMAIN draft.coercions : draft.coercions[c].field \in draft.seen
    BY DEF LoaderInv, LoaderTyped, FormatsOK
  <1>4. ASSUME draft' \in Body, stmt' \in Nat \ {0}, phase' \in {"stmt", "err"},
               phase' = "err" => error' # "none",
               Distinct(draft'.coercions),
               \A c \in DOMAIN draft'.coercions : draft'.coercions[c].field \in draft'.seen
        PROVE  LoaderInv'
    <2>1. LoaderTyped'
      BY <1>1, <1>4 DEF LoaderInv, LoaderTyped
    <2>2. ScanOK'
      BY <1>4 DEF ScanOK
    <2>3. FormatsOK'
      BY <1>1, <1>4 DEF LoaderInv, FormatsOK, Distinct
    <2>4. CompiledOK'
      BY <1>1, <1>2, <1>4 DEF LoaderInv, CompiledOK, CompiledAs
    <2> QED
      BY <2>1, <2>2, <2>3, <2>4 DEF LoaderInv
  <1>a. /\ Append(draft.extracts, Stmt) \in Seq(Statement)
        /\ Append(draft.coercions, Stmt) \in Seq(Statement)
        /\ Append(draft.redactions, Stmt) \in Seq(Statement)
        /\ draft.seen \cup {Stmt.field} \in SUBSET Seq(Alphabet)
    <2>1. /\ draft.extracts \in Seq(Statement) /\ draft.coercions \in Seq(Statement)
          /\ draft.redactions \in Seq(Statement) /\ draft.seen \in SUBSET Seq(Alphabet)
      BY <1>3 DEF Body
    <2> QED
      BY <1>2, <2>1
  <1>5. CASE draft' = draft /\ stmt' = stmt /\ phase' = "err" /\ error' # "none"
    BY <1>3, <1>4, <1>5
  <1>6. CASE /\ draft' = [draft EXCEPT !.extracts = Append(@, Stmt),
                                       !.seen = @ \cup {Stmt.field}]
             /\ stmt' = stmt + 1 /\ phase' = phase /\ phase = "stmt"
    <2>1. draft' \in Body
      BY <1>a, <1>3, <1>6 DEF Body
    <2>2. draft'.coercions = draft.coercions /\ draft.seen \subseteq draft'.seen
      BY <1>3, <1>6 DEF Body
    <2> QED
      BY <1>3, <1>4, <1>6, <2>1, <2>2
  <1>7. CASE /\ draft' = [draft EXCEPT !.coercions = Append(@, Stmt),
                                       !.seen = @ \cup {Stmt.field}]
             /\ stmt' = stmt + 1 /\ phase' = phase /\ phase = "stmt"
             /\ Stmt.field \notin draft.seen
    <2> DEFINE cs == draft.coercions
    <2>1. draft' \in Body /\ cs \in Seq(Statement)
      BY <1>a, <1>3, <1>7 DEF Body
    <2>2. /\ draft'.coercions = Append(cs, Stmt)
          /\ draft'.seen = draft.seen \cup {Stmt.field}
      BY <1>3, <1>7 DEF Body
    <2>3. /\ DOMAIN cs = 1 .. Len(cs) /\ Len(cs) \in Nat
          /\ DOMAIN Append(cs, Stmt) = 1 .. Len(cs) + 1
          /\ \A k \in 1 .. Len(cs) : Append(cs, Stmt)[k] = cs[k]
          /\ Append(cs, Stmt)[Len(cs) + 1] = Stmt
      BY <1>2, <2>1
    <2>4. /\ \A c, d \in 1 .. Len(cs) : cs[c].field = cs[d].field => c = d
          /\ \A c \in 1 .. Len(cs) : cs[c].field \in draft.seen
      BY <1>3, <2>3 DEF Distinct
    <2> HIDE DEF cs
    <2>5. Distinct(draft'.coercions)
      BY <1>7, <2>2, <2>3, <2>4 DEF Distinct
    <2>6. \A c \in DOMAIN draft'.coercions : draft'.coercions[c].field \in draft'.seen
      BY <2>2, <2>3, <2>4
    <2> QED
      BY <1>3, <1>4, <1>7, <2>1, <2>5, <2>6
  <1>8. CASE /\ draft' = [draft EXCEPT !.redactions = Append(@, Stmt)]
             /\ stmt' = stmt + 1 /\ phase' = phase /\ phase = "stmt"
    <2>1. draft' \in Body
      BY <1>a, <1>3, <1>8 DEF Body
    <2>2. draft'.coercions = draft.coercions /\ draft'.seen = draft.seen
      BY <1>3, <1>8 DEF Body
    <2> QED
      BY <1>3, <1>4, <1>8, <2>1, <2>2
  <1>9. CASE ScanDone
    <2> DEFINE last == LiteralPart(lit, Len(Text) + 1)
    <2>1. last \in Seq(Part)
      <3>1. lit \in Nat \ {0} /\ Len(Text) + 1 \in 1 .. Len(Text) + 1
        BY <1>2, <1>9 DEF ScanDone, ScanOK, LoaderInv
      <3> QED
        BY <1>2, <3>1, LiteralPartType
    <2>2. /\ draft' = [draft EXCEPT !.found = TRUE, !.pattern = parts \o last]
          /\ stmt' = stmt + 1 /\ phase' = "stmt"
      BY <1>9 DEF ScanDone
    <2> HIDE DEF last
    <2>3. parts \o last \in Seq(Part)
      BY <1>3, <2>1
    <2>4. draft' \in Body /\ draft'.coercions = draft.coercions /\ draft'.seen = draft.seen
      BY <1>3, <2>2, <2>3 DEF Body
    <2> QED
      BY <1>3, <1>4, <2>2, <2>4
  <1>10. CASE ExtractDecl
    BY <1>5, <1>6, <1>10 DEF ExtractDecl, InBlock
  <1>11. CASE CoerceDecl
    BY <1>5, <1>7, <1>11 DEF CoerceDecl, InBlock, CheckField
  <1>12. CASE RedactDecl
    BY <1>8, <1>12 DEF RedactDecl, InBlock
  <1> QED
    BY <1>9, <1>10, <1>11, <1>12

\* The end of a block.
LEMMA EndBlockStep ==
  ASSUME LoaderInv, EndBlock
  PROVE  LoaderInv'
  <1> USE DEF Fail
  <1>1. /\ UNCHANGED <<source, parts, compiled>>
        /\ phase = "stmt" /\ block <= Len(source)
    BY DEF EndBlock, InBlock, tokenVars
  <1>2. /\ source \in Seq(FormatBlock) /\ Len(source) \in Nat /\ block \in Nat \ {0}
        /\ formats \in Seq(Parsed) /\ Len(formats) = block - 1
        /\ draft \in Body /\ compiled = <<>>
    BY <1>1 DEF LoaderInv, LoaderTyped, FormatsOK, CompiledOK, Tree
  <1>3. CASE phase' = "err" /\ error' # "none" /\ UNCHANGED <<formats, block, stmt, draft>>
    <2>1. LoaderTyped'
      BY <1>1, <1>3 DEF LoaderInv, LoaderTyped
    <2>2. ScanOK'
      BY <1>3 DEF ScanOK
    <2>3. FormatsOK'
      BY <1>1, <1>3 DEF LoaderInv, FormatsOK
    <2>4. CompiledOK'
      BY <1>1, <1>3 DEF LoaderInv, CompiledOK, CompiledAs
    <2> QED
      BY <2>1, <2>2, <2>3, <2>4 DEF LoaderInv
  <1>4. CASE /\ formats' = Append(formats, [name |-> Block.name, body |-> draft])
             /\ block' = block + 1 /\ stmt' = 1 /\ draft' = Empty
             /\ UNCHANGED <<phase, error>>
             /\ Block.name \notin Names
    <2> DEFINE x == [name |-> Block.name, body |-> draft]
    <2>1. Block.name \in Alphabet /\ Block = source[block]
      <3>1. block \in 1 .. Len(source)
        BY <1>1, <1>2
      <3>2. source[block] \in FormatBlock
        BY <1>2, <3>1
      <3> QED
        BY <3>2 DEF Block, FormatBlock
    <2>2. x \in Parsed /\ x.name = source[block].name /\ x.body = draft
      BY <1>2, <2>1 DEF Parsed
    <2>3. /\ formats' \in Seq(Parsed)
          /\ Len(formats') = Len(formats) + 1
          /\ \A k \in 1 .. Len(formats) : formats'[k] = formats[k]
          /\ formats'[Len(formats) + 1] = x
          /\ DOMAIN formats = 1 .. Len(formats)
      BY <1>2, <1>4, <2>2
    <2> HIDE DEF x
    <2>4. \A k \in 1 .. Len(formats) : formats[k].name # source[block].name
      BY <1>4, <2>1, <2>3 DEF Names
    <2>5. Empty \in Body /\ Distinct(Empty.coercions) /\ DOMAIN Empty.coercions = {}
      BY DEF Empty, Body, Distinct
    <2>6. LoaderTyped'
      BY <1>1, <1>2, <1>4, <2>3, <2>5 DEF LoaderInv, LoaderTyped
    <2>7. ScanOK'
      BY <1>1, <1>4 DEF ScanOK
    <2>8. FormatsOK'
      <3>1. Len(formats') = block' - 1 /\ block' <= Len(source') + 1
        BY <1>1, <1>2, <1>4, <2>3
      <3>2. \A f \in 1 .. Len(formats') : /\ formats'[f].name = source[f].name
                                          /\ Distinct(formats'[f].body.coercions)
        BY <1>2, <2>2, <2>3 DEF LoaderInv, FormatsOK
      <3>3. \A f, g \in 1 .. Len(formats') : formats'[f].name = formats'[g].name => f = g
        BY <1>2, <2>2, <2>3, <2>4 DEF LoaderInv, FormatsOK
      <3> QED
        BY <1>1, <1>4, <2>5, <3>1, <3>2, <3>3 DEF FormatsOK, Distinct
    <2>9. CompiledOK'
      BY <1>1, <1>2, <1>4, <2>3 DEF CompiledOK
    <2> QED
      BY <2>6, <2>7, <2>8, <2>9 DEF LoaderInv
  <1> QED
    BY <1>3, <1>4 DEF EndBlock

\* What CompileFormat makes of a format is what it should be.
LEMMA FormatCompiles ==
  ASSUME NEW f \in Parsed, NEW x,
         ~ \E k \in DOMAIN f.body.pattern : Unsupported(f.body.pattern[k]),
         x = [name |-> f.name,
              segs |-> [k \in DOMAIN f.body.pattern |-> CompileSegment(f.body.pattern[k])],
              coercions |-> f.body.coercions, redactions |-> f.body.redactions]
  PROVE  CompiledAs(f, x)
  <1> DEFINE ps == f.body.pattern
  <1>1. ps \in Seq(Part)
    BY DEF Parsed, Body
  <1>2. ASSUME NEW k \in DOMAIN ps
        PROVE  CompileSegment(ps[k]).ty \in Types
    <2>1. ps[k] \in Part
      BY <1>1, <1>2
    <2>2. CASE ps[k].kind = "lit"
      BY <2>2 DEF CompileSegment, Literal, Types
    <2>3. CASE ps[k].kind = "cap"
      <3>1. ps[k].text \in Seq(Alphabet) /\ ~UnknownType(ps[k].text)
        BY <2>1, <2>3 DEF Part
      <3>2. CaptureType(ParseCapture(ps[k].text)) \in Types \cup {"none"}
        BY <3>1, CaptureHasType
      <3>3. CaptureType(ParseCapture(ps[k].text)) # "none"
        BY <1>2, <2>3 DEF Unsupported
      <3>4. CompileSegment(ps[k]).ty = CaptureType(ParseCapture(ps[k].text))
        BY <2>3 DEF CompileSegment, Capture
      <3> QED
        BY <3>2, <3>3, <3>4
    <2> QED
      BY <2>1, <2>2, <2>3 DEF Part
  <1> DEFINE segs == [k \in DOMAIN ps |-> CompileSegment(ps[k])]
  <1>3. /\ x.name = f.name /\ x.coercions = f.body.coercions /\ x.segs = segs
    OBVIOUS
  <1>4. DOMAIN ps = 1 .. Len(ps) /\ Len(ps) \in Nat
    BY <1>1
  <1>5. Len(segs) = Len(ps)
    BY <1>4, FunctionIsSeq
  <1>6. DOMAIN segs = DOMAIN ps /\ \A k \in DOMAIN segs : segs[k].ty \in Types
    BY <1>2
  <1> HIDE DEF segs, ps
  <1> QED
    BY <1>3, <1>5, <1>6 DEF CompiledAs, ps

LEMMA CompileStep ==
  ASSUME LoaderInv, CompileFormat \/ Compiled
  PROVE  LoaderInv'
  <1> USE DEF Fail
  <1>1. /\ UNCHANGED <<source, block, stmt, draft, parts, formats>>
        /\ phase = "compile"
    BY DEF CompileFormat, Compiled, tokenVars
  <1>2. ASSUME phase' \in {"compile", "ok", "err"}, phase' = "err" => error' # "none"
        PROVE  LoaderTyped' /\ ScanOK' /\ FormatsOK'
    <2>1. LoaderTyped'
      BY <1>1, <1>2 DEF LoaderInv, LoaderTyped
    <2>2. ScanOK'
      BY <1>2 DEF ScanOK
    <2>3. FormatsOK'
      BY <1>1 DEF LoaderInv, FormatsOK
    <2> QED
      BY <2>1, <2>2, <2>3
  <1>3. CASE Compiled
    <2>1. phase' = "ok" /\ compiled' = compiled /\ Len(compiled) = Len(formats)
      BY <1>3 DEF Compiled
    <2>2. CompiledOK'
      BY <1>1, <2>1 DEF LoaderInv, CompiledOK, CompiledAs
    <2> QED
      BY <1>2, <2>1, <2>2 DEF LoaderInv
  <1>4. CASE CompileFormat
    <2> DEFINE f == formats[Len(compiled) + 1]
               x == [name |-> f.name,
                     segs |-> [k \in DOMAIN f.body.pattern |->
                                 CompileSegment(f.body.pattern[k])],
                     coercions |-> f.body.coercions, redactions |-> f.body.redactions]
    <2>1. CASE \E k \in DOMAIN f.body.pattern : Unsupported(f.body.pattern[k])
      <3>1. phase' = "err" /\ error' # "none" /\ compiled' = compiled
        BY <1>4, <2>1 DEF CompileFormat
      <3>2. CompiledOK'
        BY <1>1, <3>1 DEF LoaderInv, CompiledOK, CompiledAs
      <3> QED
        BY <1>2, <3>1, <3>2 DEF LoaderInv
    <2>2. CASE ~ \E k \in DOMAIN f.body.pattern : Unsupported(f.body.pattern[k])
      <3>1. /\ phase' = phase /\ error' = error /\ compiled' = Append(compiled, x)
            /\ Len(compiled) < Len(formats)
        BY <1>4, <2>2 DEF CompileFormat
      <3>2. PICK S : compiled \in Seq(S)
        BY DEF LoaderInv, CompiledOK
      <3>3. /\ formats \in Seq(Parsed)
            /\ Len(formats) \in Nat /\ Len(compiled) \in Nat
        BY <3>2 DEF LoaderInv, LoaderTyped
      <3>4. f \in Parsed
        <4>1. Len(compiled) + 1 \in 1 .. Len(formats)
          BY <3>1, <3>3
        <4> QED
          BY <3>3, <4>1
      <3>5. CompiledAs(f, x)
        BY <2>2, <3>4, FormatCompiles
      <3> HIDE DEF x
      <3>6. /\ compiled' \in Seq(S \cup {x})
            /\ Len(compiled') = Len(compiled) + 1
            /\ \A k \in 1 .. Len(compiled) : compiled'[k] = compiled[k]
            /\ compiled'[Len(compiled) + 1] = x
        <4>1. compiled \in Seq(S \cup {x}) /\ x \in S \cup {x}
          BY <3>2
        <4> QED
          BY <3>1, <4>1
      <3>7. \A k \in 1 .. Len(compiled') : CompiledAs(formats[k], compiled'[k])
        <4>1. \A k \in 1 .. Len(compiled) : CompiledAs(formats[k], compiled[k])
          BY DEF LoaderInv, CompiledOK
        <4> QED
          BY <3>3, <3>5, <3>6, <4>1
      <3>8. CompiledOK'
        <4>1. \E T : compiled' \in Seq(T)
          BY <3>6
        <4>2. Len(compiled') <= Len(formats')
          BY <1>1, <3>1, <3>3, <3>6
        <4>3. phase' = "compile" /\ block' = Len(source') + 1
          BY <1>1, <3>1 DEF LoaderInv, CompiledOK
        <4> QED
          BY <1>1, <3>7, <4>1, <4>2, <4>3 DEF CompiledOK, CompiledAs
      <3> QED
        BY <1>1, <1>2, <3>1, <3>8 DEF LoaderInv
    <2> QED
      BY <2>1, <2>2
  <1> QED
    BY <1>3, <1>4

\* Every step of the parser and the compiler keeps the invariant, and the text.
LEMMA LoadStep ==
  ASSUME LoaderInv, Load
  PROVE  LoaderInv' /\ source' = source
  <1>1. LoaderInv'
    BY CursorStep, PartStep, DraftStep, EndBlockStep, CompileStep DEF Load
  <1>2. source' = source
    BY DEF Load, ParseFile, PatternDecl, ExtractDecl, CoerceDecl, RedactDecl, EndBlock,
           EndFile, ScanLiteral, ScanCapture, Brace, Unbalanced, BraceClosed, ScanDone,
           CompileFormat, Compiled
  <1> QED
    BY <1>1, <1>2

-----------------------------------------------------------------------------
(* The program. *)

\* The replies and the attempts that came of them.
CliTyped ==
  /\ \E c \in Commands : argv = c.argv
  /\ cli \in {"args", "samples", "ask", "wait", "validate", "exited"}
  /\ replies \in Seq(Reply)
  /\ \E S : attempts \in Seq(S)

\* Each attempt that failed is about the reply of its number.
AttemptsOK ==
  \A k \in 1 .. Len(attempts) :
    /\ k <= Len(replies)
    /\ attempts[k].attempt = k - 1
    /\ attempts[k].text = StripCodeFences(replies[k])
    /\ attempts[k].error # "none"

\* How many of each there are, in every stage of the loop.
RoundsOK ==
  /\ cli # "exited" => exit = "none"
  /\ cli \in {"args", "samples"} => replies = <<>> /\ attempts = <<>>
  /\ cli \in {"ask", "wait"} => Len(replies) = Len(attempts) /\ Len(attempts) <= Retries(argv)
  /\ cli = "validate" => /\ Len(replies) = Len(attempts) + 1 /\ Len(attempts) <= Retries(argv)
                         /\ source = StripCodeFences(replies[Len(replies)])
  /\ cli = "wait" => prompt.feedback = attempts /\ prompt.samples = 2
  /\ cli = "exited" => Len(replies) <= Retries(argv) + 1

\* How the program ends.
EndsOK ==
  /\ cli = "exited" /\ exit = "ok" /\ replies # <<>> =>
       /\ phase = "ok" /\ printed = source
       /\ printed = StripCodeFences(replies[Len(replies)])
       /\ Len(attempts) = Len(replies) - 1
  /\ exit = "failed" => Len(attempts) = Retries(argv) + 1

ClientInv == LoaderInv /\ CliTyped /\ AttemptsOK /\ RoundsOK /\ EndsOK

LEMMA LenType ==
  ASSUME NEW S, NEW s \in Seq(S)
  PROVE  Len(s) \in Nat
  OBVIOUS

\* The invariant gives the properties.
LEMMA ClientProperties ==
  ASSUME ClientInv
  PROVE  FeedbackComplete /\ OkIsFirstValid
  <1>1. /\ replies \in Seq(Reply) /\ Len(replies) \in Nat /\ DOMAIN replies = 1 .. Len(replies)
        /\ Retries(argv) \in Nat
    BY RetriesType DEF ClientInv, CliTyped
  <1>2. PICK S : attempts \in Seq(S)
    BY DEF ClientInv, CliTyped
  <1>3. FeedbackComplete
    BY <1>1, <1>2 DEF FeedbackComplete, ClientInv, AttemptsOK, RoundsOK
  <1>4. ASSUME cli = "exited", replies # <<>>, exit = "ok"
        PROVE  /\ printed = StripCodeFences(replies[Len(replies)])
               /\ CompiledWhole(printed)
               /\ Len(attempts) = Len(replies) - 1
    BY <1>4, LoadedWhole DEF ClientInv, EndsOK
  <1>5. Len(replies) <= Retries(argv) + 1
    <2>1. CASE cli \in {"args", "samples"}
      <3>1. replies = <<>>
        BY <2>1 DEF ClientInv, RoundsOK
      <3> QED
        BY <1>1, <3>1
    <2>2. CASE cli \in {"ask", "wait", "validate"}
      <3>1. /\ Len(replies) = Len(attempts) \/ Len(replies) = Len(attempts) + 1
            /\ Len(attempts) <= Retries(argv)
        BY <2>2 DEF ClientInv, RoundsOK
      <3>2. Len(attempts) \in Nat
        BY <1>2, LenType, Zenon
      <3> DEFINE n == Len(attempts)  m == Len(replies)  r == Retries(argv)
      <3> HIDE DEF n, m, r
      <3>3. n \in Nat /\ r \in Nat /\ (m = n \/ m = n + 1) /\ n <= r
        BY <1>1, <3>1, <3>2, Zenon DEF n, m, r
      <3>4. m <= r + 1
        BY <3>3
      <3> QED
        BY <3>4 DEF m, r
    <2>3. CASE cli = "exited"
      BY <2>3 DEF ClientInv, RoundsOK
    <2> QED
      BY <2>1, <2>2, <2>3 DEF ClientInv, CliTyped
  <1>6. exit = "failed" => Len(attempts) = Retries(argv) + 1
    BY DEF ClientInv, EndsOK
  <1> QED
    BY <1>3, <1>4, <1>5, <1>6 DEF OkIsFirstValid

\* The words of the program's own texts.
LEMMA OwnWords ==
  /\ "prose" \in Alphabet /\ "other" \in Alphabet /\ "none" \in Alphabet
  /\ "Sample" \in Alphabet /\ "pattern" \in Alphabet /\ "%" \in Alphabet
  /\ "{" \in Alphabet /\ "}" \in Alphabet /\ ":" \in Alphabet /\ " " \in Alphabet
  /\ "level" \in Alphabet /\ "message" \in Alphabet /\ "string" \in Alphabet
  BY AlphabetAssumption

LEMMA MakeStatement ==
  ASSUME NEW k \in Alphabet, NEW f \in Seq(Alphabet), NEW t \in Alphabet,
         NEW x \in Seq(Alphabet)
  PROVE  [kind |-> k, field |-> f, to |-> t, text |-> x] \in Statement
  BY DEF Statement

LEMMA MakeBlock ==
  ASSUME NEW n \in Alphabet, NEW st \in Statement
  PROVE  [name |-> n, stmts |-> <<st>>] \in FormatBlock
  BY DEF FormatBlock

\* What is validated is a tree.
LEMMA StripType ==
  ASSUME NEW r \in Reply
  PROVE  StripCodeFences(r) \in Tree
  <1>1. r.file \in Tree /\ r.line \in Nat
        /\ r.fence \in {"none", "bare", "tagged", "split", "open"}
    BY DEF Reply
  <1>2. Prose \in Tree
    <2>1. [kind |-> "other", field |-> <<>>, to |-> "none", text |-> <<>>] \in Statement
      <3>1. <<>> \in Seq(Alphabet)
        OBVIOUS
      <3> QED
        BY <3>1, OwnWords, MakeStatement
    <2>3. [name |-> "prose",
           stmts |-> <<[kind |-> "other", field |-> <<>>, to |-> "none", text |-> <<>>]>>]
            \in FormatBlock
      BY <2>1, OwnWords, MakeBlock
    <2> QED
      BY <2>3 DEF Prose, Tree
  <1>3. SubSeq(r.file, r.line + 1, Len(r.file)) \in Tree
    BY <1>1 DEF Tree
  <1> QED
    BY <1>1, <1>2, <1>3 DEF StripCodeFences

LEMMA MakeText ==
  ASSUME NEW a \in Alphabet, NEW b \in Alphabet, NEW c \in Alphabet, NEW d \in Alphabet,
         NEW e \in Alphabet, NEW f \in Alphabet, NEW g \in Alphabet, NEW h \in Alphabet
  PROVE  <<a, b, c, d, e, f, d, g, a, b, h, d, e, f>> \in Seq(Alphabet)
  OBVIOUS

LEMMA MockType == [fence |-> "none", line |-> 0, file |-> MockSchema] \in Reply
  <1> DEFINE text == <<"%", "{", "level", ":", "string", "}", ":", " ",
                       "%", "{", "message", ":", "string", "}">>
             st == [kind |-> "pattern", field |-> <<>>, to |-> "none", text |-> text]
             b == [name |-> "Sample", stmts |-> <<st>>]
  <1>1. text \in Seq(Alphabet)
    BY OwnWords, MakeText, ZenonT(60)
  <1> HIDE DEF text
  <1>a. <<>> \in Seq(Alphabet)
    OBVIOUS
  <1>2. st \in Statement
    BY <1>1, <1>a, OwnWords, MakeStatement
  <1> HIDE DEF st
  <1>3. b \in FormatBlock
    BY <1>2, OwnWords, MakeBlock
  <1> HIDE DEF b
  <1>4. <<b>> \in Tree
    BY <1>3 DEF Tree
  <1>5. MockSchema = <<b>>
    BY DEF MockSchema, b, st, text
  <1> QED
    BY <1>4, <1>5 DEF Reply

LEMMA ClientInit == InferenceInit => ClientInv
  <1> SUFFICES ASSUME InferenceInit PROVE ClientInv
    OBVIOUS
  <1>1. /\ source = <<>> /\ phase = "idle" /\ block = 1 /\ stmt = 1 /\ draft = Empty
        /\ parts = <<>> /\ formats = <<>> /\ compiled = <<>>
    BY DEF InferenceInit, Fresh
  <1>2. /\ cli = "args" /\ replies = <<>> /\ attempts = <<>> /\ exit = "none"
        /\ \E c \in Commands : argv = c.argv
    BY DEF InferenceInit
  <1>3. LoaderInv
    <2>1. Empty \in Body /\ Distinct(Empty.coercions) /\ DOMAIN Empty.coercions = {}
      BY DEF Empty, Body, Distinct
    <2>2. LoaderTyped
      BY <1>1, <2>1 DEF LoaderTyped, Tree
    <2>3. FormatsOK
      BY <1>1, <2>1 DEF FormatsOK
    <2>4. CompiledOK
      BY <1>1 DEF CompiledOK
    <2> QED
      BY <1>1, <2>2, <2>3, <2>4 DEF LoaderInv, ScanOK
  <1>4. CliTyped
    BY <1>2 DEF CliTyped
  <1>5. AttemptsOK
    BY <1>2 DEF AttemptsOK
  <1>6. RoundsOK /\ EndsOK
    BY <1>2 DEF RoundsOK, EndsOK
  <1> QED
    BY <1>3, <1>4, <1>5, <1>6 DEF ClientInv

\* What the loader's variables have to do with the rest.
LEMMA LoaderKeeps ==
  ASSUME LoaderInv, UNCHANGED vars
  PROVE  LoaderInv' /\ UNCHANGED <<source, phase>>
  <1>1. UNCHANGED <<source, phase, block, stmt, draft, i, lit, j, parts, formats,
                    compiled, error>>
    BY DEF vars, tokenVars
  <1>2. LoaderTyped'
    BY <1>1 DEF LoaderInv, LoaderTyped
  <1>3. ScanOK'
    BY <1>1 DEF LoaderInv, ScanOK, Block, Stmt, Text
  <1>4. FormatsOK'
    BY <1>1 DEF LoaderInv, FormatsOK
  <1>5. CompiledOK'
    BY <1>1 DEF LoaderInv, CompiledOK, CompiledAs
  <1> QED
    BY <1>1, <1>2, <1>3, <1>4, <1>5 DEF LoaderInv

\* Steps that neither load nor ask.
LEMMA QuietStep ==
  ASSUME ClientInv, UNCHANGED <<vars, argv, replies, attempts>>,
         cli' \in {"args", "samples", "ask", "wait", "validate", "exited"},
         RoundsOK', EndsOK'
  PROVE  ClientInv'
  <1>1. LoaderInv'
    BY LoaderKeeps DEF ClientInv
  <1>2. CliTyped'
    BY DEF ClientInv, CliTyped
  <1>3. AttemptsOK'
    BY DEF ClientInv, AttemptsOK
  <1> QED
    BY <1>1, <1>2, <1>3 DEF ClientInv

\* The numbers the rounds are counted with.
LEMMA CountTypes ==
  ASSUME ClientInv
  PROVE  Len(replies) \in Nat /\ Len(attempts) \in Nat /\ Retries(argv) \in Nat
  <1>1. PICK c \in Commands : argv = c.argv
    BY DEF ClientInv, CliTyped
  <1>2. PICK S : attempts \in Seq(S)
    BY DEF ClientInv, CliTyped
  <1>3. replies \in Seq(Reply)
    BY DEF ClientInv, CliTyped
  <1>4. Retries(argv) \in Nat
    BY <1>1, RetriesType
  <1> QED
    BY <1>2, <1>3, <1>4

\* The program ends without having printed anything.
LEMMA ExitStep ==
  ASSUME ClientInv, NEW how \in {"ok", "usage", "error"}, Exit(how),
         cli \in {"args", "samples", "ask", "wait"},
         how = "ok" => cli = "args"
  PROVE  ClientInv'
  <1>1. /\ cli' = "exited" /\ exit' = how
        /\ UNCHANGED <<vars, argv, replies, attempts>>
    BY DEF Exit
  <1>2. Len(replies) <= Retries(argv) + 1
    BY ClientProperties DEF OkIsFirstValid
  <1>3. how = "ok" => replies = <<>>
    BY DEF ClientInv, RoundsOK
  <1>4. RoundsOK'
    BY <1>1, <1>2 DEF RoundsOK
  <1>5. EndsOK'
    BY <1>1, <1>3 DEF EndsOK
  <1> QED
    BY <1>1, <1>4, <1>5, QuietStep

\* A reply is taken up and its validation begins.
LEMMA ReplyStep ==
  ASSUME ClientInv, cli \in {"ask", "wait"}, NEW r \in Reply,
         replies' = Append(replies, r), Restart(StripCodeFences(r), "file"),
         cli' = "validate", UNCHANGED <<argv, attempts, exit>>
  PROVE  ClientInv'
  <1>1. LoaderInv' /\ source' = StripCodeFences(r)
    BY StripType, RestartStep DEF Restart
  <1>2. /\ replies \in Seq(Reply) /\ replies' \in Seq(Reply)
        /\ Len(replies') = Len(replies) + 1
        /\ replies'[Len(replies')] = r
        /\ \A k \in 1 .. Len(replies) : replies'[k] = replies[k]
    BY DEF ClientInv, CliTyped
  <1>3. /\ Len(replies) = Len(attempts) /\ Len(attempts) <= Retries(argv) /\ exit = "none"
        /\ Len(attempts) \in Nat
    BY CountTypes DEF ClientInv, RoundsOK
  <1>4. CliTyped'
    BY <1>2 DEF ClientInv, CliTyped
  <1>5. AttemptsOK'
    <2>1. \A k \in 1 .. Len(attempts) :
            /\ attempts[k].attempt = k - 1
            /\ attempts[k].text = StripCodeFences(replies[k])
            /\ attempts[k].error # "none"
      BY DEF ClientInv, AttemptsOK
    <2>2. \A k \in 1 .. Len(attempts) : k <= Len(replies') /\ replies'[k] = replies[k]
      BY <1>2, <1>3
    <2> QED
      BY <2>1, <2>2 DEF AttemptsOK
  <1>6. RoundsOK'
    BY <1>1, <1>2, <1>3 DEF RoundsOK
  <1>7. EndsOK'
    BY <1>3 DEF EndsOK
  <1> QED
    BY <1>1, <1>4, <1>5, <1>6, <1>7 DEF ClientInv

\* A reply that does not compile joins the attempts.
LEMMA RejectedStep ==
  ASSUME ClientInv, Rejected
  PROVE  ClientInv'
  <1> DEFINE x == [attempt |-> Len(attempts), error |-> error, text |-> source]
  <1>1. /\ cli = "validate" /\ phase = "err" /\ Restart(<<>>, "idle")
        /\ attempts' = Append(attempts, x)
        /\ UNCHANGED <<argv, replies>>
    BY DEF Rejected
  <1>2. /\ x.attempt = Len(attempts) /\ x.error = error /\ x.text = source
    OBVIOUS
  <1> HIDE DEF x
  <1>3. LoaderInv'
    <2>1. <<>> \in Tree
      BY DEF Tree
    <2> QED
      BY <1>1, <2>1, RestartStep
  <1>4. /\ error # "none" /\ source = StripCodeFences(replies[Len(replies)])
        /\ Len(replies) = Len(attempts) + 1 /\ Len(attempts) <= Retries(argv)
        /\ exit = "none"
    BY <1>1 DEF ClientInv, LoaderInv, LoaderTyped, RoundsOK
  <1>5. PICK S : attempts \in Seq(S)
    BY DEF ClientInv, CliTyped
  <1>6. /\ attempts' \in Seq(S \cup {x}) /\ Len(attempts) \in Nat
        /\ Len(attempts') = Len(attempts) + 1
        /\ attempts'[Len(attempts) + 1] = x
        /\ \A k \in 1 .. Len(attempts) : attempts'[k] = attempts[k]
    <2>1. attempts \in Seq(S \cup {x}) /\ x \in S \cup {x}
      BY <1>5
    <2> QED
      BY <1>1, <2>1
  <1>7. \/ cli' = "ask" /\ exit' = exit /\ Len(attempts) < Retries(argv)
        \/ cli' = "exited" /\ exit' = "failed" /\ ~(Len(attempts) < Retries(argv))
    BY DEF Rejected
  <1>8. CliTyped'
    BY <1>1, <1>6, <1>7 DEF ClientInv, CliTyped
  <1>9. AttemptsOK'
    <2>1. \A k \in 1 .. Len(attempts) :
            /\ k <= Len(replies)
            /\ attempts[k].attempt = k - 1
            /\ attempts[k].text = StripCodeFences(replies[k])
            /\ attempts[k].error # "none"
      BY DEF ClientInv, AttemptsOK
    <2> QED
      BY <1>1, <1>2, <1>4, <1>6, <2>1 DEF AttemptsOK
  <1>10. Retries(argv) \in Nat
    BY CountTypes
  <1>11. RoundsOK'
    BY <1>1, <1>4, <1>6, <1>7, <1>10 DEF RoundsOK
  <1>12. EndsOK'
    BY <1>1, <1>4, <1>6, <1>7, <1>10 DEF EndsOK
  <1> QED
    BY <1>3, <1>8, <1>9, <1>11, <1>12 DEF ClientInv

LEMMA ClientStep ==
  ASSUME ClientInv, [InferenceNext]_allVars
  PROVE  ClientInv'
  <1>1. CASE ReadArgs
    <2>1. ASSUME Goto("samples") PROVE ClientInv'
      <3>1. cli' = "samples" /\ UNCHANGED <<vars, argv, replies, attempts, exit>>
        BY <2>1 DEF Goto
      <3>2. RoundsOK' /\ EndsOK'
        BY <1>1, <3>1 DEF ReadArgs, ClientInv, RoundsOK, EndsOK
      <3> QED
        BY <3>1, <3>2, QuietStep
    <2>2. cli = "args"
      BY <1>1 DEF ReadArgs
    <2>3. Exit("ok") \/ Exit("usage") \/ Goto("samples")
      BY <1>1 DEF ReadArgs
    <2> QED
      BY <2>1, <2>2, <2>3, ExitStep
  <1>2. CASE ReadSamples
    <2>1. ASSUME Goto("ask") PROVE ClientInv'
      <3>1. cli' = "ask" /\ UNCHANGED <<vars, argv, replies, attempts, exit>>
        BY <2>1 DEF Goto
      <3>2. replies = <<>> /\ attempts = <<>> /\ exit = "none" /\ Retries(argv) \in Nat
        BY <1>2, CountTypes DEF ReadSamples, ClientInv, RoundsOK
      <3>3. RoundsOK' /\ EndsOK'
        BY <3>1, <3>2 DEF RoundsOK, EndsOK
      <3> QED
        BY <3>1, <3>3, QuietStep
    <2> QED
      BY <1>2, <2>1, ExitStep DEF ReadSamples
  <1>3. CASE NoApiKey
    BY <1>3, ExitStep DEF NoApiKey
  <1>4. CASE AnswerFails
    BY <1>4, ExitStep DEF AnswerFails
  <1>5. CASE Ask
    <2>1. /\ cli = "ask" /\ cli' = "wait"
          /\ UNCHANGED <<vars, argv, replies, attempts, exit>>
      BY <1>5 DEF Ask
    <2>2. prompt'.feedback = attempts /\ prompt'.samples = 2
      BY <1>5 DEF Ask, UserMessage, WithFeedback
    <2>3. RoundsOK' /\ EndsOK'
      BY <2>1, <2>2 DEF ClientInv, RoundsOK, EndsOK
    <2> QED
      BY <2>1, <2>3, QuietStep
  <1>6. CASE AskMock
    <2> DEFINE r == [fence |-> "none", line |-> 0, file |-> MockSchema]
    <2>1. r \in Reply /\ StripCodeFences(r) = MockSchema
      BY MockType DEF StripCodeFences
    <2>2. /\ cli = "ask" /\ replies' = Append(replies, r) /\ Restart(MockSchema, "file")
          /\ cli' = "validate" /\ UNCHANGED <<argv, attempts, exit>>
      BY <1>6 DEF AskMock
    <2> HIDE DEF r
    <2> QED
      BY <2>1, <2>2, ReplyStep
  <1>7. CASE Answer
    <2>1. PICK r \in Replies(Retries(argv)) :
            replies' = Append(replies, r) /\ Restart(StripCodeFences(r), "file")
      BY <1>7 DEF Answer
    <2>2. r \in Reply
      <3>1. Retries(argv) \in Numbers
        BY RetriesType DEF ClientInv, CliTyped
      <3> QED
        BY <2>1, <3>1, RepliesAssumption
    <2>3. cli = "wait" /\ cli' = "validate" /\ UNCHANGED <<argv, attempts, exit>>
      BY <1>7 DEF Answer
    <2> QED
      BY <2>1, <2>2, <2>3, ReplyStep
  <1>8. CASE Validate
    <2>1. LoaderInv' /\ source' = source
      BY <1>8, LoadStep DEF Validate, ClientInv
    <2>2. cli = "validate" /\ UNCHANGED <<cli, argv, prompt, replies, attempts, printed, exit>>
      BY <1>8 DEF Validate, cliVars
    <2>3. CliTyped' /\ AttemptsOK'
      BY <2>2 DEF ClientInv, CliTyped, AttemptsOK
    <2>4. RoundsOK' /\ EndsOK'
      BY <2>1, <2>2 DEF ClientInv, RoundsOK, EndsOK
    <2> QED
      BY <2>1, <2>3, <2>4 DEF ClientInv
  <1>9. CASE Accepted
    <2>1. /\ cli = "validate" /\ phase = "ok" /\ printed' = source
          /\ cli' = "exited" /\ exit' = "ok"
          /\ UNCHANGED <<vars, argv, replies, attempts>>
      BY <1>9 DEF Accepted
    <2>2. /\ source = StripCodeFences(replies[Len(replies)])
          /\ Len(replies) = Len(attempts) + 1 /\ Len(attempts) <= Retries(argv)
      BY <2>1 DEF ClientInv, RoundsOK
    <2>3. UNCHANGED <<source, phase>>
      BY <2>1, LoaderKeeps DEF ClientInv
    <2>4. Len(replies) <= Retries(argv) + 1
      BY ClientProperties DEF OkIsFirstValid
    <2>5. Len(attempts) = Len(replies) - 1
      <3> DEFINE n == Len(attempts)  m == Len(replies)
      <3>1. n \in Nat /\ m = n + 1
        BY <2>2, CountTypes
      <3> HIDE DEF n, m
      <3>2. n = m - 1
        BY <3>1
      <3> QED
        BY <3>2 DEF n, m
    <2>6. RoundsOK'
      BY <2>1, <2>4 DEF RoundsOK
    <2>7. EndsOK'
      BY <2>1, <2>2, <2>3, <2>5 DEF EndsOK
    <2> QED
      BY <2>1, <2>6, <2>7, QuietStep
  <1>10. CASE Rejected
    BY <1>10, RejectedStep
  <1>11. CASE UNCHANGED allVars
    <2>1. UNCHANGED <<vars, cli, argv, prompt, replies, attempts, printed, exit>>
      BY <1>11 DEF allVars, cliVars
    <2>2. UNCHANGED <<source, phase>>
      BY <2>1, LoaderKeeps DEF ClientInv
    <2>3. RoundsOK' /\ EndsOK'
      BY <2>1, <2>2 DEF ClientInv, RoundsOK, EndsOK
    <2>4. cli' \in {"args", "samples", "ask", "wait", "validate", "exited"}
      BY <2>1 DEF ClientInv, CliTyped
    <2> QED
      BY <2>1, <2>3, <2>4, QuietStep
  <1> QED
    BY <1>1, <1>2, <1>3, <1>4, <1>5, <1>6, <1>7, <1>8, <1>9, <1>10, <1>11
    DEF InferenceNext, Own, Provided, Done

-----------------------------------------------------------------------------
(* FlattenSeq, one sequence at a time *)

\* f puts the first sequences of s together, each behind the ones before it.
Joins(f, s, n) ==
  f = [k \in 1 .. n |-> IF k = 1 THEN s[k] ELSE f[k - 1] \o s[k]]

\* Every sequence of sequences can be put together.
LEMMA JoinsExists ==
  ASSUME NEW S, NEW s \in Seq(Seq(S))
  PROVE  \A n \in 0 .. Len(s) : \E f \in [1 .. n -> Seq(S)] : Joins(f, s, n)
<1> DEFINE Bad == {n \in Nat : n <= Len(s) /\ ~\E f \in [1 .. n -> Seq(S)] : Joins(f, s, n)}
<1>1. SUFFICES ASSUME Bad # {} PROVE FALSE
  OBVIOUS
<1>2. PICK n \in Bad : \A y \in Bad : ~(<<y, n>> \in OpToRel(<, Nat))
  BY <1>1, WFMin, NatLessThanWellFounded
<1>3. n \in Nat /\ n <= Len(s) /\ Len(s) \in Nat
  OBVIOUS
<1>4. ~\E f \in [1 .. n -> Seq(S)] : Joins(f, s, n)
  OBVIOUS
<1>5. \A y \in Bad : ~(y < n)
  BY <1>2, <1>3 DEF OpToRel
<1>6. CASE n = 0
  <2> DEFINE f == [k \in 1 .. 0 |-> s[k]]
  <2>1. f \in [1 .. 0 -> Seq(S)] /\ f = [k \in 1 .. 0 |-> IF k = 1 THEN s[k] ELSE f[k - 1] \o s[k]]
    OBVIOUS
  <2> HIDE DEF f
  <2> QED  BY <1>4, <1>6, <2>1, Zenon DEF Joins
<1>7. CASE n # 0
  <2>1. n - 1 \in Nat /\ n - 1 <= Len(s) /\ n - 1 < n
    BY <1>3, <1>7
  <2>2. n - 1 \notin Bad
    BY <1>5, <2>1
  <2>3. PICK g \in [1 .. n - 1 -> Seq(S)] : Joins(g, s, n - 1)
    BY <2>1, <2>2
  <2>4. g = [k \in 1 .. n - 1 |-> IF k = 1 THEN s[k] ELSE g[k - 1] \o s[k]]
    BY <2>3, Zenon DEF Joins
  <2> DEFINE x == IF n = 1 THEN s[n] ELSE g[n - 1] \o s[n]
             f == [k \in 1 .. n |-> IF k = n THEN x ELSE g[k]]
  <2>5. n \in 1 .. Len(s) /\ s[n] \in Seq(S)
    BY <1>3, <1>7
  <2>6. x \in Seq(S)
    <3>1. CASE n = 1
      BY <2>5, <3>1
    <3>2. CASE n # 1
      <4>1. n - 1 \in 1 .. n - 1
        BY <1>3, <1>7, <3>2
      <4>2. g[n - 1] \in Seq(S)
        BY <4>1
      <4> QED  BY <2>5, <3>2, <4>2
    <3> QED  BY <3>1, <3>2
  <2> HIDE DEF x
  <2>7. f \in [1 .. n -> Seq(S)]
    BY <1>3, <2>6
  <2>8. f[n] = x /\ \A k \in 1 .. n - 1 : f[k] = g[k]
    BY <1>3, <1>7
  <2>9. \A k \in 1 .. n - 1 : g[k] = IF k = 1 THEN s[k] ELSE g[k - 1] \o s[k]
    BY <2>4
  <2> HIDE DEF f
  <2>10. ASSUME NEW k \in 1 .. n PROVE f[k] = IF k = 1 THEN s[k] ELSE f[k - 1] \o s[k]
    <3>1. CASE k = n
      <4>1. n # 1 => f[n - 1] = g[n - 1]
        BY <1>3, <1>7, <2>8
      <4> QED  BY <2>8, <3>1, <4>1 DEF x
    <3>2. CASE k # n
      <4>1. k \in 1 .. n - 1 /\ (k # 1 => k - 1 \in 1 .. n - 1)
        BY <1>3, <3>2
      <4> QED  BY <2>8, <2>9, <4>1
    <3> QED  BY <3>1, <3>2
  <2>11. f = [k \in 1 .. n |-> IF k = 1 THEN s[k] ELSE f[k - 1] \o s[k]]
    BY <2>7, <2>10
  <2> QED  BY <1>4, <2>7, <2>11, Zenon DEF Joins
<1> QED  BY <1>6, <1>7

\* What FlattenSeq chooses is such a function.
LEMMA FlattenJoins ==
  ASSUME NEW S, NEW s \in Seq(Seq(S)), Len(s) # 0
  PROVE  \E f : Joins(f, s, Len(s)) /\ FlattenSeq(s) = f[Len(s)]
<1> DEFINE f == CHOOSE f : f = [k \in 1 .. Len(s) |-> IF k = 1 THEN s[k] ELSE f[k - 1] \o s[k]]
<1>1. \E g : g = [k \in 1 .. Len(s) |-> IF k = 1 THEN s[k] ELSE g[k - 1] \o s[k]]
  <2>1. Len(s) \in 0 .. Len(s)
    OBVIOUS
  <2>2. PICK g \in [1 .. Len(s) -> Seq(S)] : Joins(g, s, Len(s))
    BY <2>1, JoinsExists
  <2> QED  BY <2>2, Zenon DEF Joins
<1>2. f = [k \in 1 .. Len(s) |-> IF k = 1 THEN s[k] ELSE f[k - 1] \o s[k]]
  BY <1>1, Zenon
<1>3. FlattenSeq(s) = f[Len(s)]
  BY DEF FlattenSeq
<1> HIDE DEF f
<1> QED  BY <1>2, <1>3, Zenon DEF Joins

LEMMA JoinsSame ==
  ASSUME NEW f, NEW g, NEW s, NEW t, NEW n \in Nat, NEW m \in Nat, n <= m,
         Joins(f, s, n), Joins(g, t, m), \A k \in 1 .. n : s[k] = t[k]
  PROVE  \A k \in 1 .. n : f[k] = g[k]
<1> DEFINE Bad == {k \in Nat : k \in 1 .. n /\ f[k] # g[k]}
<1>1. SUFFICES ASSUME Bad # {} PROVE FALSE
  OBVIOUS
<1>2. PICK k \in Bad : \A y \in Bad : ~(<<y, k>> \in OpToRel(<, Nat))
  BY <1>1, WFMin, NatLessThanWellFounded
<1>3. k \in Nat /\ k \in 1 .. n /\ k \in 1 .. m /\ f[k] # g[k]
  OBVIOUS
<1>4. \A y \in Bad : ~(y < k)
  BY <1>2, <1>3 DEF OpToRel
<1>5. f[k] = IF k = 1 THEN s[k] ELSE f[k - 1] \o s[k]
  <2>1. f = [i0 \in 1 .. n |-> IF i0 = 1 THEN s[i0] ELSE f[i0 - 1] \o s[i0]]
    BY Zenon DEF Joins
  <2> HIDE DEF Bad
  <2> QED  BY <1>3, <2>1
<1>6. g[k] = IF k = 1 THEN t[k] ELSE g[k - 1] \o t[k]
  <2>1. g = [i0 \in 1 .. m |-> IF i0 = 1 THEN t[i0] ELSE g[i0 - 1] \o t[i0]]
    BY Zenon DEF Joins
  <2> HIDE DEF Bad
  <2> QED  BY <1>3, <2>1
<1>7. s[k] = t[k]
  BY <1>3
<1>8. k # 1 => f[k - 1] = g[k - 1]
  <2>1. k # 1 => k - 1 \in Nat /\ k - 1 \in 1 .. n /\ k - 1 < k
    BY <1>3
  <2> QED  BY <1>4, <2>1
<1> QED  BY <1>3, <1>5, <1>6, <1>7, <1>8

LEMMA FlattenType ==
  ASSUME NEW S, NEW s \in Seq(Seq(S))
  PROVE  FlattenSeq(s) \in Seq(S)
<1>1. CASE Len(s) = 0
  <2>1. FlattenSeq(s) = s /\ s = <<>>
    BY <1>1 DEF FlattenSeq
  <2> QED  BY <2>1
<1>2. CASE Len(s) # 0
  <2>1. PICK f : Joins(f, s, Len(s)) /\ FlattenSeq(s) = f[Len(s)]
    BY <1>2, FlattenJoins
  <2>2. Len(s) \in Nat /\ Len(s) \in 0 .. Len(s) /\ Len(s) \in 1 .. Len(s)
    BY <1>2
  <2>3. PICK g \in [1 .. Len(s) -> Seq(S)] : Joins(g, s, Len(s))
    BY <2>2, JoinsExists
  <2>4. f[Len(s)] = g[Len(s)]
    BY <2>1, <2>2, <2>3, JoinsSame
  <2>5. g[Len(s)] \in Seq(S)
    BY <2>2
  <2> QED  BY <2>1, <2>4, <2>5
<1> QED  BY <1>1, <1>2

LEMMA FlattenAppend ==
  ASSUME NEW S, NEW s \in Seq(Seq(S)), NEW x \in Seq(S)
  PROVE  FlattenSeq(Append(s, x)) = FlattenSeq(s) \o x
<1> DEFINE t == Append(s, x)
           n == Len(s)
<1>1. /\ t \in Seq(Seq(S)) /\ Len(t) = n + 1 /\ n \in Nat /\ t[n + 1] = x
      /\ \A k \in 1 .. n : t[k] = s[k]
  OBVIOUS
<1> HIDE DEF t
<1>2. PICK g : Joins(g, t, n + 1) /\ FlattenSeq(t) = g[n + 1]
  <2>1. Len(t) # 0
    BY <1>1
  <2> QED  BY <1>1, <2>1, FlattenJoins
<1>3. g[n + 1] = IF n + 1 = 1 THEN t[n + 1] ELSE g[(n + 1) - 1] \o t[n + 1]
  <2>1. g = [k \in 1 .. n + 1 |-> IF k = 1 THEN t[k] ELSE g[k - 1] \o t[k]]
    BY <1>2, Zenon DEF Joins
  <2>2. n + 1 \in 1 .. n + 1
    BY <1>1
  <2> HIDE DEF n
  <2> QED  BY <2>1, <2>2
<1>4. CASE n = 0
  <2>1. FlattenSeq(s) = s /\ s = <<>>
    BY <1>4 DEF FlattenSeq
  <2>2. FlattenSeq(t) = x
    BY <1>1, <1>2, <1>3, <1>4
  <2> QED  BY <2>1, <2>2 DEF t
<1>5. CASE n # 0
  <2>1. PICK f : Joins(f, s, n) /\ FlattenSeq(s) = f[n]
    BY <1>5, FlattenJoins
  <2>2. n \in 1 .. n /\ n <= n + 1 /\ n + 1 \in Nat /\ (n + 1) - 1 = n /\ n + 1 # 1
    BY <1>1, <1>5
  <2> HIDE DEF n
  <2>3. \A k \in 1 .. n : s[k] = t[k]
    BY <1>1
  <2>4. f[n] = g[n]
    BY <1>1, <1>2, <2>1, <2>2, <2>3, JoinsSame
  <2>5. g[n + 1] = g[n] \o x
    BY <1>1, <1>3, <2>2
  <2> QED  BY <1>2, <2>1, <2>4, <2>5 DEF t
<1> QED  BY <1>4, <1>5

LEMMA FlattenNone == FlattenSeq(<<>>) = <<>>
  BY DEF FlattenSeq

-----------------------------------------------------------------------------
(* Parts put back together *)

\* The symbols of a capture, by name.
PC == "%"
LB == "{"
RB == "}"

Glued(ps) == FlattenSeq([k \in DOMAIN ps |-> Spelled(ps[k])])

WholePart(p) ==
  IF p.kind = "lit" THEN \A m \in DOMAIN p.text : ~Opens(p.text, m)
  ELSE /\ \A m \in DOMAIN p.text : Braces(p.text, m, LB) >= Braces(p.text, m, RB)
       /\ Braces(p.text, Len(p.text), LB) = Braces(p.text, Len(p.text), RB)

\* The parts are the text, cut into literals and whole captures.
IsCut(ps, text) == Glued(ps) = text /\ \A k \in DOMAIN ps : WholePart(ps[k])

LEMMA SymbolsIn == PC \in Alphabet /\ LB \in Alphabet /\ RB \in Alphabet /\ LB # RB
<1>1. "%" \in Alphabet /\ "{" \in Alphabet /\ "}" \in Alphabet
  BY AlphabetAssumption, Zenon
<1>2. "{" # "}"
  BY Zenon
<1> QED  BY <1>1, <1>2, Zenon DEF PC, LB, RB

LEMMA SpelledIs ==
  \A p : Spelled(p) = IF p.kind = "lit" THEN p.text ELSE <<PC, LB>> \o p.text \o <<RB>>
  BY Zenon DEF Spelled, PC, LB, RB

LEMMA SpelledType ==
  ASSUME NEW p \in Part
  PROVE  Spelled(p) \in Seq(Alphabet)
<1>1. p.text \in Seq(Alphabet)
  BY DEF Part
<1>2. <<PC, LB>> \in Seq(Alphabet) /\ <<RB>> \in Seq(Alphabet)
  <2>1. PC \in Alphabet /\ LB \in Alphabet /\ RB \in Alphabet
    BY SymbolsIn
  <2> QED  BY <2>1
<1>3. <<PC, LB>> \o p.text \o <<RB>> \in Seq(Alphabet)
  BY <1>1, <1>2
<1> QED  BY <1>1, <1>3, SpelledIs

LEMMA SpelledSeq ==
  ASSUME NEW ps \in Seq(Part)
  PROVE  [k \in DOMAIN ps |-> Spelled(ps[k])] \in Seq(Seq(Alphabet))
<1>1. DOMAIN ps = 1 .. Len(ps) /\ Len(ps) \in Nat /\ \A k \in 1 .. Len(ps) : ps[k] \in Part
  OBVIOUS
<1>2. \A k \in 1 .. Len(ps) : Spelled(ps[k]) \in Seq(Alphabet)
  BY <1>1, SpelledType
<1> DEFINE n == Len(ps)
           s == [k \in 1 .. n |-> Spelled(ps[k])]
           T == Seq(Alphabet)
<1>3. s \in [1 .. n -> T] /\ n \in Nat
  BY <1>1, <1>2
<1>4. [k \in DOMAIN ps |-> Spelled(ps[k])] = s
  BY <1>1
<1> HIDE DEF s, n, T
<1>5. s \in Seq(T)
  BY <1>3
<1> QED  BY <1>4, <1>5 DEF T

LEMMA GluedType ==
  ASSUME NEW ps \in Seq(Part)
  PROVE  Glued(ps) \in Seq(Alphabet)
  BY SpelledSeq, FlattenType DEF Glued

LEMMA GluedNone == Glued(<<>>) = <<>>
<1>1. [k \in DOMAIN <<>> |-> Spelled(<<>>[k])] = <<>>
  OBVIOUS
<1> QED  BY <1>1, FlattenNone DEF Glued

LEMMA GluedAppend ==
  ASSUME NEW ps \in Seq(Part), NEW p \in Part
  PROVE  Glued(Append(ps, p)) = Glued(ps) \o Spelled(p)
<1> DEFINE s == [k \in DOMAIN ps |-> Spelled(ps[k])]
           qs == Append(ps, p)
           t == [k \in DOMAIN qs |-> Spelled(qs[k])]
           x == Spelled(p)
           n == Len(ps)
<1>1. s \in Seq(Seq(Alphabet)) /\ x \in Seq(Alphabet)
  BY SpelledSeq, SpelledType
<1>2. n \in Nat /\ DOMAIN s = 1 .. n /\ Len(s) = n /\ \A k \in 1 .. n : s[k] = Spelled(ps[k])
  OBVIOUS
<1>3. DOMAIN qs = 1 .. n + 1 /\ qs[n + 1] = p /\ \A k \in 1 .. n : qs[k] = ps[k]
  OBVIOUS
<1>4. t = Append(s, x)
  <2>1. t = [k \in 1 .. n + 1 |-> Spelled(qs[k])]
    BY <1>3
  <2> DEFINE u == Append(s, x)
  <2>2. /\ u = [k \in 1 .. n + 1 |-> u[k]]
        /\ u[n + 1] = x /\ \A k \in 1 .. n : u[k] = s[k]
    <3> DEFINE T == Seq(Alphabet)
    <3>1. s \in Seq(T) /\ x \in T /\ Len(s) = n /\ n \in Nat
      BY <1>1, <1>2
    <3> HIDE DEF s, x, n, T
    <3>2. u \in Seq(T) /\ Len(u) = n + 1 /\ u[n + 1] = x /\ \A k \in 1 .. n : u[k] = s[k]
      BY <3>1
    <3> HIDE DEF u
    <3>3. u = [k \in 1 .. Len(u) |-> u[k]]
      BY <3>2
    <3> QED  BY <3>2, <3>3
  <2> HIDE DEF u, s, qs
  <2>3. ASSUME NEW k \in 1 .. n + 1 PROVE Spelled(qs[k]) = u[k]
    <3>1. CASE k = n + 1
      BY <1>3, <2>2, <3>1
    <3>2. CASE k # n + 1
      <4>1. k \in 1 .. n
        BY <1>2, <3>2
      <4> QED  BY <1>2, <1>3, <2>2, <4>1
    <3> QED  BY <3>1, <3>2
  <2>4. t = u
    BY <2>1, <2>2, <2>3
  <2> QED  BY <2>4 DEF u
<1> HIDE DEF s, t, x
<1>5. FlattenSeq(t) = FlattenSeq(s) \o x
  BY <1>1, <1>4, FlattenAppend
<1> QED  BY <1>5 DEF Glued, s, t, x

\* One part more.
LEMMA WholeAppend ==
  ASSUME NEW ps \in Seq(Part), NEW p \in Part, WholePart(p),
         \A k \in DOMAIN ps : WholePart(ps[k])
  PROVE  \A k \in DOMAIN Append(ps, p) : WholePart(Append(ps, p)[k])
<1> TAKE k \in DOMAIN Append(ps, p)
<1>1. CASE k = Len(ps) + 1
  <2>1. Append(ps, p)[k] = p
    BY <1>1
  <2> QED  BY <2>1
<1>2. CASE k # Len(ps) + 1
  <2>1. k \in DOMAIN ps /\ Append(ps, p)[k] = ps[k]
    BY <1>2
  <2> QED  BY <2>1
<1> QED  BY <1>1, <1>2

\* Counting braces one symbol at a time.
LEMMA BracesType ==
  ASSUME NEW s, NEW k \in Nat, NEW c
  PROVE  Braces(s, k, c) \in Nat /\ IsFiniteSet({m \in 1 .. k : s[m] = c})
<1>1. IsFiniteSet(1 .. k)
  BY FS_Interval
<1>2. {m \in 1 .. k : s[m] = c} \subseteq 1 .. k
  OBVIOUS
<1> QED  BY <1>1, <1>2, FS_Subset, FS_CardinalityType DEF Braces

LEMMA BracesNext ==
  ASSUME NEW s, NEW k \in Nat, NEW c
  PROVE  Braces(s, k + 1, c) = Braces(s, k, c) + (IF s[k + 1] = c THEN 1 ELSE 0)
<1> DEFINE A == {m \in 1 .. k : s[m] = c}
           B == {m \in 1 .. k + 1 : s[m] = c}
<1>1. IsFiniteSet(A) /\ Cardinality(A) \in Nat
  <2>1. IsFiniteSet(A)
    BY BracesType
  <2> HIDE DEF A
  <2> QED  BY <2>1, FS_CardinalityType
<1>2. CASE s[k + 1] = c
  <2>1. B = A \cup {k + 1} /\ k + 1 \notin A
    BY <1>2
  <2> HIDE DEF A, B
  <2>2. Cardinality(B) = Cardinality(A) + 1
    BY <1>1, <2>1, FS_AddElement
  <2> QED  BY <1>2, <2>2 DEF Braces, A, B
<1>3. CASE s[k + 1] # c
  <2>1. B = A
    BY <1>3
  <2> QED  BY <1>1, <1>3, <2>1 DEF Braces
<1> QED  BY <1>2, <1>3

LEMMA BracesSame ==
  ASSUME NEW s, NEW t, NEW k, NEW c, \A m \in 1 .. k : s[m] = t[m]
  PROVE  Braces(s, k, c) = Braces(t, k, c)
<1>1. {m \in 1 .. k : s[m] = c} = {m \in 1 .. k : t[m] = c}
  OBVIOUS
<1> QED  BY <1>1 DEF Braces

LEMMA BracesNone ==
  ASSUME NEW s, NEW c
  PROVE  Braces(s, 0, c) = 0
<1>1. {m \in 1 .. 0 : s[m] = c} = {}
  OBVIOUS
<1> QED  BY <1>1, FS_EmptySet DEF Braces

\* t is the text behind an opening that is still d braces deep.
Nested(t, d) ==
  /\ d \in Nat
  /\ \A m \in 0 .. Len(t) - 1 : Braces(t, m, LB) >= Braces(t, m, RB)
  /\ d + Braces(t, Len(t), RB) = 1 + Braces(t, Len(t), LB)
  /\ d = 0 => Len(t) > 0 /\ t[Len(t)] = RB

\* The loop over a capture's braces counts them.
LEMMA NestedNext ==
  ASSUME NEW t \in Seq(Alphabet), NEW u \in Seq(Alphabet), NEW d \in Nat \ {0}, NEW e,
         Nested(t, d), Len(u) = Len(t) + 1, \A m \in 1 .. Len(t) : u[m] = t[m],
         e = IF u[Len(u)] = LB THEN d + 1 ELSE IF u[Len(u)] = RB THEN d - 1 ELSE d
  PROVE  Nested(u, e)
<1> DEFINE n == Len(t)
           x == u[n + 1]
<1>1. n \in Nat /\ Len(u) = n + 1
  OBVIOUS
<1>2. /\ \A m \in 0 .. n - 1 : Braces(t, m, LB) >= Braces(t, m, RB)
      /\ d + Braces(t, n, RB) = 1 + Braces(t, n, LB)
  BY Zenon DEF Nested
<1>3. \A m \in 0 .. n, c \in {LB, RB} : Braces(u, m, c) = Braces(t, m, c)
  <2> TAKE m \in 0 .. n, c \in {LB, RB}
  <2>1. \A k \in 1 .. m : u[k] = t[k]
    BY <1>1
  <2> QED  BY <2>1, BracesSame
<1>4. /\ Braces(u, n + 1, LB) = Braces(u, n, LB) + (IF x = LB THEN 1 ELSE 0)
      /\ Braces(u, n + 1, RB) = Braces(u, n, RB) + (IF x = RB THEN 1 ELSE 0)
  BY <1>1, BracesNext
<1>5. e = IF x = LB THEN d + 1 ELSE IF x = RB THEN d - 1 ELSE d
  BY <1>1
<1>6. n \in 0 .. n /\ LB \in {LB, RB} /\ RB \in {LB, RB}
  BY <1>1
<1> HIDE DEF n, x
<1>7. /\ Braces(u, n, LB) = Braces(t, n, LB) /\ Braces(u, n, RB) = Braces(t, n, RB)
      /\ Braces(t, n, LB) \in Nat /\ Braces(t, n, RB) \in Nat
  BY <1>1, <1>3, <1>6, BracesType
<1> DEFINE o == Braces(t, n, LB)
           c == Braces(t, n, RB)
           p == Braces(u, n + 1, LB)
           q == Braces(u, n + 1, RB)
<1>8. /\ o \in Nat /\ c \in Nat /\ d + c = 1 + o
      /\ p = o + (IF x = LB THEN 1 ELSE 0) /\ q = c + (IF x = RB THEN 1 ELSE 0)
  BY <1>2, <1>4, <1>7
<1>9. \A m \in 0 .. (n + 1) - 1 : Braces(u, m, LB) >= Braces(u, m, RB)
  <2> TAKE m \in 0 .. (n + 1) - 1
  <2>1. CASE m = n
    BY <1>7, <1>8, <2>1
  <2>2. CASE m # n
    <3>1. m \in 0 .. n - 1 /\ m \in 0 .. n
      BY <1>1, <2>2
    <3>2. Braces(u, m, LB) = Braces(t, m, LB) /\ Braces(u, m, RB) = Braces(t, m, RB)
      BY <1>3, <1>6, <3>1
    <3> QED  BY <1>2, <3>1, <3>2
  <2> QED  BY <2>1, <2>2
<1> HIDE DEF o, c, p, q
<1>10. e \in Nat /\ e + q = 1 + p
  <2>1. CASE x = LB
    BY <1>5, <1>8, <2>1, SymbolsIn
  <2>2. CASE x = RB
    BY <1>5, <1>8, <2>2, SymbolsIn
  <2>3. CASE x # LB /\ x # RB
    BY <1>5, <1>8, <2>3
  <2> QED  BY <2>1, <2>2, <2>3
<1>11. e = 0 => x = RB
  BY <1>5
<1> QED  BY <1>1, <1>9, <1>10, <1>11 DEF Nested, x, p, q

\* A capture that closes is whole.
LEMMA NestedCloses ==
  ASSUME NEW t \in Seq(Alphabet), NEW u \in Seq(Alphabet), Nested(t, 0),
         Len(u) = Len(t) - 1, \A m \in 1 .. Len(u) : u[m] = t[m]
  PROVE  WholePart([kind |-> "cap", text |-> u]) /\ t[Len(t)] = RB
<1> DEFINE n == Len(u)
<1>1. n \in Nat /\ Len(t) = n + 1 /\ t[n + 1] = RB
  BY DEF Nested
<1>2. \A m \in 0 .. n, c \in {LB, RB} : Braces(u, m, c) = Braces(t, m, c)
  <2> TAKE m \in 0 .. n, c \in {LB, RB}
  <2>1. \A k \in 1 .. m : u[k] = t[k]
    BY <1>1
  <2> QED  BY <2>1, BracesSame
<1>3. /\ Braces(t, n + 1, LB) = Braces(t, n, LB) + (IF t[n + 1] = LB THEN 1 ELSE 0)
      /\ Braces(t, n + 1, RB) = Braces(t, n, RB) + (IF t[n + 1] = RB THEN 1 ELSE 0)
  BY <1>1, BracesNext
<1>4. /\ \A m \in 0 .. (n + 1) - 1 : Braces(t, m, LB) >= Braces(t, m, RB)
      /\ 0 + Braces(t, n + 1, RB) = 1 + Braces(t, n + 1, LB)
  <2> HIDE DEF n
  <2> QED  BY <1>1, Zenon DEF Nested
<1>5. n \in 0 .. n /\ DOMAIN u = 1 .. n /\ \A m \in 1 .. n : m \in 0 .. n /\ m \in 0 .. (n + 1) - 1
  BY <1>1
<1> HIDE DEF n
<1>6. Braces(t, n, LB) \in Nat /\ Braces(t, n, RB) \in Nat
  BY <1>1, BracesType
<1>7. Braces(t, n, LB) = Braces(t, n, RB)
  BY <1>1, <1>3, <1>4, <1>6
<1>8. Braces(u, n, LB) = Braces(u, n, RB)
  BY <1>2, <1>5, <1>7
<1>9. \A m \in 1 .. n : Braces(u, m, LB) >= Braces(u, m, RB)
  BY <1>2, <1>4, <1>5
<1> QED  BY <1>1, <1>5, <1>8, <1>9 DEF WholePart, n

-----------------------------------------------------------------------------
(* The text of a pattern *)

LEMMA OpensIs ==
  \A s, k : Opens(s, k) <=> k + 1 <= Len(s) /\ s[k] = PC /\ s[k + 1] = LB
  BY Zenon DEF Opens, PC, LB

LEMMA SubSeqIs ==
  ASSUME NEW S, NEW t \in Seq(S), NEW a \in 1 .. Len(t) + 1, NEW b \in a .. Len(t) + 1
  PROVE  /\ SubSeq(t, a, b - 1) \in Seq(S) /\ Len(SubSeq(t, a, b - 1)) = b - a
         /\ \A m \in 1 .. b - a : SubSeq(t, a, b - 1)[m] = t[a + m - 1]
  OBVIOUS

LEMMA SubSeqInner ==
  ASSUME NEW S, NEW t \in Seq(S), NEW a \in 1 .. Len(t), NEW b \in a + 3 .. Len(t) + 1
  PROVE  /\ SubSeq(t, a + 2, b - 2) \in Seq(S) /\ Len(SubSeq(t, a + 2, b - 2)) = b - a - 3
         /\ \A m \in 1 .. b - a - 3 : SubSeq(t, a + 2, b - 2)[m] = t[a + m + 1]
<1> DEFINE c == a + 2
           d == b - 1
           u == SubSeq(t, c, d - 1)
<1>1. /\ c \in 1 .. Len(t) + 1 /\ d \in c .. Len(t) + 1 /\ d - 1 = b - 2 /\ d - c = b - a - 3
      /\ \A m \in 1 .. b - a - 3 : c + m - 1 = a + m + 1
  OBVIOUS
<1> HIDE DEF c, d
<1>2. u \in Seq(S) /\ Len(u) = d - c /\ \A m \in 1 .. d - c : u[m] = t[c + m - 1]
  BY <1>1, SubSeqIs
<1> HIDE DEF u
<1>3. u \in Seq(S) /\ Len(u) = b - a - 3 /\ \A m \in 1 .. b - a - 3 : u[m] = t[a + m + 1]
  BY <1>1, <1>2
<1>4. u = SubSeq(t, a + 2, b - 2)
  BY <1>1 DEF u, c
<1> QED  BY <1>3, <1>4

LEMMA SameSeq ==
  ASSUME NEW S, NEW s \in Seq(S), NEW t \in Seq(S), Len(s) = Len(t),
         \A m \in 1 .. Len(s) : s[m] = t[m]
  PROVE  s = t
  OBVIOUS

LEMMA ConcatIs ==
  ASSUME NEW S, NEW s \in Seq(S), NEW t \in Seq(S)
  PROVE  /\ s \o t \in Seq(S) /\ Len(s \o t) = Len(s) + Len(t)
         /\ \A m \in 1 .. Len(s) + Len(t) :
              (s \o t)[m] = IF m <= Len(s) THEN s[m] ELSE t[m - Len(s)]
  OBVIOUS

\* Two neighbouring pieces of a text are one.
LEMMA SubSeqJoin ==
  ASSUME NEW S, NEW t \in Seq(S), NEW a \in 1 .. Len(t) + 1, NEW b \in a .. Len(t) + 1
  PROVE  SubSeq(t, 1, a - 1) \o SubSeq(t, a, b - 1) = SubSeq(t, 1, b - 1)
<1> DEFINE u == SubSeq(t, 1, a - 1)
           v == SubSeq(t, a, b - 1)
           w == SubSeq(t, 1, b - 1)
           n == Len(t)
<1>1. n \in Nat /\ a \in Nat /\ b \in Nat /\ 1 <= a /\ a <= b /\ b <= n + 1
  OBVIOUS
<1>2. u \in Seq(S) /\ Len(u) = a - 1 /\ \A m \in 1 .. a - 1 : u[m] = t[m]
  OBVIOUS
<1>3. v \in Seq(S) /\ Len(v) = b - a /\ \A m \in 1 .. b - a : v[m] = t[a + m - 1]
  BY SubSeqIs
<1>4. w \in Seq(S) /\ Len(w) = b - 1 /\ \A m \in 1 .. b - 1 : w[m] = t[m]
  OBVIOUS
<1> HIDE DEF u, v, w, n
<1>5. /\ u \o v \in Seq(S) /\ Len(u \o v) = Len(u) + Len(v)
      /\ \A m \in 1 .. Len(u) + Len(v) :
           (u \o v)[m] = IF m <= Len(u) THEN u[m] ELSE v[m - Len(u)]
  BY <1>2, <1>3, ConcatIs
<1>6. Len(u \o v) = b - 1
  BY <1>1, <1>2, <1>3, <1>5
<1>7. ASSUME NEW m \in 1 .. b - 1 PROVE (u \o v)[m] = w[m]
  <2>1. (u \o v)[m] = IF m <= a - 1 THEN u[m] ELSE v[m - (a - 1)]
    BY <1>1, <1>2, <1>3, <1>5
  <2>2. CASE m <= a - 1
    BY <1>1, <1>2, <1>4, <2>1, <2>2
  <2>3. CASE ~(m <= a - 1)
    <3>1. m - (a - 1) \in 1 .. b - a /\ a + (m - (a - 1)) - 1 = m
      BY <1>1, <2>3
    <3>2. v[m - (a - 1)] = t[a + (m - (a - 1)) - 1]
      BY <1>3, <3>1
    <3> QED  BY <1>4, <2>1, <2>3, <3>1, <3>2
  <2> QED  BY <2>2, <2>3
<1>8. u \o v = w
  BY <1>4, <1>5, <1>6, <1>7, SameSeq
<1> QED  BY <1>8 DEF u, v, w

LEMMA AppendIs ==
  ASSUME NEW S, NEW s \in Seq(S), NEW x \in S
  PROVE  s \o <<x>> = Append(s, x)
  OBVIOUS

\* A literal is flushed: all of the text before to is in the parts.
LEMMA LiteralCut ==
  ASSUME Text \in Seq(Alphabet), NEW ps \in Seq(Part),
         NEW from \in 1 .. Len(Text) + 1, NEW to \in from .. Len(Text) + 1,
         Glued(ps) = SubSeq(Text, 1, from - 1),
         \A k \in DOMAIN ps : WholePart(ps[k]),
         \A m \in from .. to - 1 : ~Opens(Text, m)
  PROVE  IsCut(ps \o LiteralPart(from, to), SubSeq(Text, 1, to - 1))
<1>1. CASE from = to
  <2>1. ~(from < to)
    BY <1>1
  <2>2. LiteralPart(from, to) = <<>>
    BY <2>1, Zenon DEF LiteralPart
  <2>3. ps \o LiteralPart(from, to) = ps
    BY <2>2
  <2> QED  BY <1>1, <2>3 DEF IsCut
<1>2. CASE from < to
  <2> DEFINE x == SubSeq(Text, from, to - 1)
             p == [kind |-> "lit", text |-> x]
  <2>1. /\ x \in Seq(Alphabet) /\ Len(x) = to - from
        /\ \A m \in 1 .. to - from : x[m] = Text[from + m - 1]
    BY SubSeqIs
  <2>2. LiteralPart(from, to) = <<p>>
    BY <1>2, Zenon DEF LiteralPart
  <2> HIDE DEF x
  <2>3. p \in Part /\ p.kind = "lit" /\ p.text = x
    BY <2>1 DEF Part
  <2>4. WholePart(p)
    <3>1. ASSUME NEW m \in DOMAIN x, Opens(x, m) PROVE FALSE
      <4>1. m \in 1 .. to - from
        BY <2>1
      <4>2. m + 1 <= to - from /\ x[m] = PC /\ x[m + 1] = LB
        BY <2>1, <3>1, OpensIs
      <4>3. m + 1 \in 1 .. to - from /\ from + (m + 1) - 1 = (from + m - 1) + 1
        BY <4>1, <4>2
      <4>4. Text[from + m - 1] = PC /\ Text[(from + m - 1) + 1] = LB
        <5>1. x[m] = Text[from + m - 1]
          BY <2>1, <4>1
        <5>2. x[m + 1] = Text[from + (m + 1) - 1]
          BY <2>1, <4>3
        <5> QED  BY <4>2, <4>3, <5>1, <5>2
      <4>5. from + m - 1 \in from .. to - 1 /\ (from + m - 1) + 1 <= Len(Text)
        BY <4>1, <4>2
      <4> QED  BY <4>4, <4>5, OpensIs
    <3> QED  BY <2>3, <3>1, Zenon DEF WholePart
  <2> HIDE DEF p
  <2>5. ps \o LiteralPart(from, to) = Append(ps, p)
    BY <2>2, <2>3, AppendIs
  <2>6. Glued(Append(ps, p)) = Glued(ps) \o Spelled(p)
    BY <2>3, GluedAppend
  <2>7. Spelled(p) = x
    BY <2>3, SpelledIs
  <2>8. SubSeq(Text, 1, from - 1) \o x = SubSeq(Text, 1, to - 1)
    BY SubSeqJoin DEF x
  <2>9. Glued(Append(ps, p)) = SubSeq(Text, 1, to - 1)
    BY <2>6, <2>7, <2>8
  <2>10. \A k \in DOMAIN Append(ps, p) : WholePart(Append(ps, p)[k])
    BY <2>3, <2>4, WholeAppend
  <2> QED  BY <2>5, <2>9, <2>10 DEF IsCut
<1> QED  BY <1>1, <1>2

\* What stands between the braces, and the braces.
LEMMA CaptureText ==
  ASSUME NEW t \in Seq(Alphabet), NEW a \in 1 .. Len(t), NEW b \in a + 3 .. Len(t) + 1,
         t[a] = PC, t[a + 1] = LB, t[b - 1] = RB
  PROVE  <<PC, LB>> \o SubSeq(t, a + 2, b - 2) \o <<RB>> = SubSeq(t, a, b - 1)
<1> DEFINE o == <<PC, LB>>
           v == SubSeq(t, a + 2, b - 2)
           c == <<RB>>
           w == SubSeq(t, a, b - 1)
           n == Len(t)
<1>1. n \in Nat /\ a \in Nat /\ b \in Nat /\ 1 <= a /\ a + 3 <= b /\ b <= n + 1
  OBVIOUS
<1>2. o \in Seq(Alphabet) /\ c \in Seq(Alphabet)
  <2>1. PC \in Alphabet /\ LB \in Alphabet /\ RB \in Alphabet
    BY SymbolsIn
  <2> QED  BY <2>1
<1>3. Len(o) = 2 /\ o[1] = PC /\ o[2] = LB /\ Len(c) = 1 /\ c[1] = RB
  OBVIOUS
<1>4. v \in Seq(Alphabet) /\ Len(v) = b - a - 3 /\ \A m \in 1 .. b - a - 3 : v[m] = t[a + m + 1]
  BY SubSeqInner
<1>5. w \in Seq(Alphabet) /\ Len(w) = b - a /\ \A m \in 1 .. b - a : w[m] = t[a + m - 1]
  OBVIOUS
<1> HIDE DEF o, v, c, w, n
<1> DEFINE ov == o \o v
<1>6. /\ ov \in Seq(Alphabet) /\ Len(ov) = b - a - 1
      /\ \A m \in 1 .. b - a - 1 : ov[m] = IF m <= 2 THEN o[m] ELSE v[m - 2]
  <2>1. /\ ov \in Seq(Alphabet) /\ Len(ov) = Len(o) + Len(v)
        /\ \A m \in 1 .. Len(o) + Len(v) : ov[m] = IF m <= Len(o) THEN o[m] ELSE v[m - Len(o)]
    BY <1>2, <1>4, ConcatIs
  <2>2. Len(o) + Len(v) = b - a - 1
    BY <1>1, <1>3, <1>4
  <2> HIDE DEF ov
  <2> QED  BY <1>3, <2>1, <2>2
<1> HIDE DEF ov
<1> DEFINE ovc == ov \o c
<1>7. /\ ovc \in Seq(Alphabet) /\ Len(ovc) = b - a
      /\ \A m \in 1 .. b - a : ovc[m] = IF m <= b - a - 1 THEN ov[m] ELSE c[m - (b - a - 1)]
  <2>1. /\ ovc \in Seq(Alphabet) /\ Len(ovc) = Len(ov) + Len(c)
        /\ \A m \in 1 .. Len(ov) + Len(c) : ovc[m] = IF m <= Len(ov) THEN ov[m] ELSE c[m - Len(ov)]
    BY <1>2, <1>6, ConcatIs
  <2>2. Len(ov) + Len(c) = b - a /\ Len(ov) = b - a - 1
    BY <1>1, <1>3, <1>6
  <2> HIDE DEF ovc
  <2> QED  BY <2>1, <2>2
<1> HIDE DEF ovc
<1>8. ASSUME NEW m \in 1 .. b - a PROVE ovc[m] = t[a + m - 1]
  <2>1. CASE m = 1
    BY <1>1, <1>3, <1>6, <1>7, <2>1
  <2>2. CASE m = 2
    <3>1. ovc[2] = LB
      BY <1>1, <1>3, <1>6, <1>7, <2>2
    <3>2. a + m - 1 = a + 1
      BY <1>1, <2>2
    <3> QED  BY <2>2, <3>1, <3>2
  <2>3. CASE m = b - a
    <3>1. c[m - (b - a - 1)] = RB /\ ~(m <= b - a - 1) /\ a + m - 1 = b - 1
      BY <1>1, <1>3, <2>3, SMTT(30)
    <3> QED  BY <1>7, <3>1
  <2>4. CASE m \notin {1, 2, b - a}
    <3>1. /\ m - 2 \in 1 .. b - a - 3 /\ a + (m - 2) + 1 = a + m - 1
          /\ m \in 1 .. b - a - 1 /\ m <= b - a - 1 /\ ~(m <= 2)
      BY <1>1, <2>4
    <3>2. ovc[m] = ov[m]
      BY <1>7, <3>1
    <3>3. ov[m] = v[m - 2]
      BY <1>6, <3>1
    <3>4. v[m - 2] = t[a + m - 1]
      BY <1>4, <3>1
    <3> QED  BY <3>2, <3>3, <3>4
  <2> QED  BY <2>1, <2>2, <2>3, <2>4
<1>9. ovc = w
  <2>1. Len(ovc) = Len(w) /\ \A m \in 1 .. Len(ovc) : ovc[m] = w[m]
    BY <1>5, <1>7, <1>8
  <2> QED  BY <1>5, <1>7, <2>1, SameSeq
<1> QED  BY <1>9 DEF ovc, ov, o, v, c, w

\* A capture is closed: all of the text up to its brace is in the parts.
LEMMA CaptureCut ==
  ASSUME NEW t \in Seq(Alphabet), NEW ps \in Seq(Part), NEW a \in 1 .. Len(t),
         NEW b \in a + 2 .. Len(t) + 1, NEW p \in Part,
         p = [kind |-> "cap", text |-> SubSeq(t, a + 2, b - 2)],
         Glued(ps) = SubSeq(t, 1, a - 1), \A k \in DOMAIN ps : WholePart(ps[k]),
         Opens(t, a), Nested(SubSeq(t, a + 2, b - 1), 0)
  PROVE  IsCut(Append(ps, p), SubSeq(t, 1, b - 1))
<1> DEFINE n == Len(t)
           s == SubSeq(t, a + 2, b - 1)
           u == SubSeq(t, a + 2, b - 2)
<1>1. n \in Nat /\ a \in Nat /\ b \in Nat /\ 1 <= a /\ a + 2 <= b /\ b <= n + 1
  OBVIOUS
<1>2. a + 1 <= n /\ t[a] = PC /\ t[a + 1] = LB
  BY OpensIs
<1>3. s \in Seq(Alphabet) /\ Len(s) = b - a - 2 /\ \A m \in 1 .. b - a - 2 : s[m] = t[a + m + 1]
  OBVIOUS
<1>4. Len(s) > 0
  BY Zenon DEF Nested
<1>5. a + 3 <= b
  <2> HIDE DEF s
  <2> QED  BY <1>1, <1>3, <1>4
<1>6. u \in Seq(Alphabet) /\ Len(u) = b - a - 3 /\ \A m \in 1 .. b - a - 3 : u[m] = t[a + m + 1]
  <2>1. b \in a + 3 .. Len(t) + 1
    BY <1>5
  <2> QED  BY <2>1, SubSeqInner
<1>7. WholePart([kind |-> "cap", text |-> u]) /\ s[Len(s)] = RB
  <2> HIDE DEF s, u, n
  <2>1. Len(u) = Len(s) - 1 /\ \A m \in 1 .. Len(u) : u[m] = s[m]
    BY <1>1, <1>3, <1>5, <1>6, SMTT(30)
  <2>2. Nested(s, 0)
    BY DEF s
  <2> QED  BY <1>3, <1>6, <2>1, <2>2, NestedCloses
<1>8. t[b - 1] = RB
  <2> HIDE DEF s
  <2>1. Len(s) = b - a - 2 /\ Len(s) \in 1 .. b - a - 2 /\ a + Len(s) + 1 = b - 1
    BY <1>1, <1>3, <1>5
  <2> QED  BY <1>3, <1>7, <2>1
<1>9. <<PC, LB>> \o u \o <<RB>> = SubSeq(t, a, b - 1)
  <2>1. b \in a + 3 .. Len(t) + 1
    BY <1>5
  <2> QED  BY <1>2, <1>8, <2>1, CaptureText
<1>10. Spelled(p) = SubSeq(t, a, b - 1)
  <2>1. p.kind # "lit" /\ p.text = u
    OBVIOUS
  <2> HIDE DEF u
  <2> QED  BY <1>9, <2>1, SpelledIs
<1>11. Glued(Append(ps, p)) = SubSeq(t, 1, a - 1) \o SubSeq(t, a, b - 1)
  BY <1>10, GluedAppend
<1>12. SubSeq(t, 1, a - 1) \o SubSeq(t, a, b - 1) = SubSeq(t, 1, b - 1)
  <2>1. a \in 1 .. Len(t) + 1 /\ b \in a .. Len(t) + 1
    OBVIOUS
  <2> QED  BY <2>1, SubSeqJoin
<1>13. \A k \in DOMAIN Append(ps, p) : WholePart(Append(ps, p)[k])
  <2>1. WholePart(p)
    BY <1>7
  <2> QED  BY <2>1, WholeAppend
<1> QED  BY <1>11, <1>12, <1>13 DEF IsCut

-----------------------------------------------------------------------------
(* The tokens of the Grok engine *)

\* The set has a first number.
LEMMA FirstIn ==
  ASSUME NEW T \in SUBSET Nat, T # {}
  PROVE  First(T) \in T /\ \A y \in T : First(T) <= y
<1>1. PICK x \in T : \A y \in T : ~(<<y, x>> \in OpToRel(<, Nat))
  BY WFMin, NatLessThanWellFounded
<1>2. \A y \in T : ~(y < x)
  BY <1>1 DEF OpToRel
<1>3. \A y \in T : x <= y
  BY <1>2
<1> QED  BY <1>3, Zenon DEF First

LEMMA FirstIs ==
  ASSUME NEW T \in SUBSET Nat, NEW x \in T, \A y \in T : x <= y
  PROVE  First(T) = x
<1>1. First(T) \in T /\ \A y \in T : First(T) <= y
  BY FirstIn
<1>2. First(T) <= x /\ x <= First(T) /\ First(T) \in Nat /\ x \in Nat
  BY <1>1
<1> QED  BY <1>2

\* What tokenize pushes behind a literal, from the capture that opens at o.
Rest(f, s, o) ==
  LET closing == ClosingBraces(s, o) IN
  IF closing = {}
  THEN <<[kind |-> "UnbalancedBrace", text |-> s, words |-> <<>>]>>
  ELSE LET t == CaptureToken(SubSeq(s, o + 2, First(closing) - 1)) IN
       IF t.kind = "cap" THEN <<t>> \o f[First(closing) + 1] ELSE <<t>>

Openings(s, k) == {o \in k .. Len(s) : Opens(s, o)}

TokenStep(f, s, k) ==
  IF Openings(s, k) = {} THEN LiteralToken(SubSeq(s, k, Len(s)))
  ELSE LiteralToken(SubSeq(s, k, First(Openings(s, k)) - 1))
         \o Rest(f, s, First(Openings(s, k)))

\* f is the tokens from every place of s on.
Tokenizes(f, s) == f = [k \in 1 .. Len(s) + 1 |-> TokenStep(f, s, k)]

LEMMA OpeningsType ==
  ASSUME NEW s \in Seq(Alphabet), NEW k \in Nat, Openings(s, k) # {}
  PROVE  First(Openings(s, k)) \in k .. Len(s)
<1>1. Openings(s, k) \in SUBSET Nat
  BY DEF Openings
<1>2. First(Openings(s, k)) \in Openings(s, k)
  BY <1>1, FirstIn
<1> QED  BY <1>2 DEF Openings

LEMMA ClosingType ==
  ASSUME NEW s \in Seq(Alphabet), NEW o \in Nat, ClosingBraces(s, o) # {}
  PROVE  First(ClosingBraces(s, o)) \in o + 2 .. Len(s)
<1>0. ClosingBraces(s, o) \subseteq o + 2 .. Len(s)
  BY Zenon DEF ClosingBraces
<1>1. ClosingBraces(s, o) \in SUBSET Nat
  BY <1>0
<1>2. First(ClosingBraces(s, o)) \in ClosingBraces(s, o)
  BY <1>1, FirstIn
<1> QED  BY <1>0, <1>2

\* A step looks only further on.
LEMMA TokenStepSame ==
  ASSUME NEW s \in Seq(Alphabet), NEW k \in 1 .. Len(s) + 1, NEW f, NEW g,
         \A m \in k + 1 .. Len(s) + 1 : f[m] = g[m]
  PROVE  TokenStep(f, s, k) = TokenStep(g, s, k)
<1>1. CASE Openings(s, k) = {}
  BY <1>1, Zenon DEF TokenStep
<1>2. CASE Openings(s, k) # {}
  <2> DEFINE o == First(Openings(s, k))
  <2>1. o \in k .. Len(s) /\ o \in Nat
    BY <1>2, OpeningsType
  <2> HIDE DEF o
  <2>2. Rest(f, s, o) = Rest(g, s, o)
    <3>1. CASE ClosingBraces(s, o) = {}
      BY <3>1, Zenon DEF Rest
    <3>2. CASE ClosingBraces(s, o) # {}
      <4> DEFINE c == First(ClosingBraces(s, o))
      <4>1. c \in o + 2 .. Len(s)
        BY <2>1, <3>2, ClosingType
      <4>2. f[c + 1] = g[c + 1]
        <5> HIDE DEF c
        <5> QED  BY <2>1, <4>1
      <4> QED  BY <3>2, <4>2, Zenon DEF Rest
    <3> QED  BY <3>1, <3>2
  <2> QED  BY <1>2, <2>2, Zenon DEF TokenStep, o
<1> QED  BY <1>1, <1>2

LEMMA TokenizesExists ==
  ASSUME NEW s \in Seq(Alphabet)
  PROVE  \E f : Tokenizes(f, s)
<1> DEFINE N == Len(s) + 1
           Good(n) == \E f : f = [k \in N + 1 - n .. N |-> TokenStep(f, s, k)]
           Bad == {n \in Nat : n <= N /\ ~Good(n)}
<1>0. N \in Nat /\ N > 0
  OBVIOUS
<1> HIDE DEF N
<1>1. ASSUME Bad # {} PROVE FALSE
  <2>2. PICK n \in Bad : \A y \in Bad : ~(<<y, n>> \in OpToRel(<, Nat))
    <3> HIDE DEF Good
    <3> QED  BY <1>1, WFMin, NatLessThanWellFounded
  <2>3. n \in Nat /\ n <= N /\ ~Good(n)
    <3> HIDE DEF Good
    <3> QED  OBVIOUS
  <2>4. \A y \in Bad : ~(y < n)
    <3> HIDE DEF Good
    <3> QED  BY <2>2, <2>3 DEF OpToRel
  <2>5. CASE n = 0
    <3> DEFINE f == [k \in N + 1 - 0 .. N |-> {}]
    <3>1. f = [k \in N + 1 - 0 .. N |-> TokenStep(f, s, k)]
      <4>1. N + 1 - 0 .. N = {}
        BY <1>0
      <4> QED  BY <4>1
    <3> HIDE DEF f
    <3>2. Good(0)
      BY <3>1, Zenon
    <3> HIDE DEF Good
    <3> QED  BY <2>3, <2>5, <3>2
  <2>6. CASE n # 0
    <3>1. n - 1 \in Nat /\ n - 1 <= N /\ n - 1 < n
      BY <1>0, <2>3, <2>6
    <3>2. Good(n - 1)
      <4>1. n - 1 \notin Bad
        <5> HIDE DEF Good
        <5> QED  BY <2>4, <3>1
      <4> HIDE DEF Good
      <4> QED  BY <3>1, <4>1
    <3> DEFINE a == N + 1 - n
    <3>3. a \in 1 .. N /\ N + 1 - (n - 1) = a + 1 /\ a \in Nat
      BY <1>0, <2>3, <2>6
    <3>4. PICK g : g = [k \in a + 1 .. N |-> TokenStep(g, s, k)]
      <4>1. PICK g : g = [k \in N + 1 - (n - 1) .. N |-> TokenStep(g, s, k)]
        BY <3>2, Zenon
      <4> HIDE DEF a
      <4>2. g = [k \in a + 1 .. N |-> TokenStep(g, s, k)]
        BY <3>3, <4>1
      <4> QED  BY <4>2
    <3> DEFINE f == [k \in a .. N |-> IF k = a THEN TokenStep(g, s, a) ELSE g[k]]
    <3>5. f[a] = TokenStep(g, s, a) /\ \A k \in a + 1 .. N : f[k] = g[k] /\ g[k] = TokenStep(g, s, k)
      <4>1. f[a] = TokenStep(g, s, a)
        <5> HIDE DEF a
        <5> QED  BY <1>0, <3>3
      <4>2. \A k \in a + 1 .. N : f[k] = g[k]
        <5> HIDE DEF a
        <5> QED  BY <1>0, <3>3
      <4>3. \A k \in a + 1 .. N : g[k] = TokenStep(g, s, k)
        BY <3>4
      <4> QED  BY <4>1, <4>2, <4>3
    <3>a. f = [k \in a .. N |-> f[k]]
      OBVIOUS
    <3> HIDE DEF f
    <3>6. ASSUME NEW k \in a .. N PROVE f[k] = TokenStep(f, s, k)
      <4>1. TokenStep(f, s, k) = TokenStep(g, s, k)
        <5>1. \A m \in k + 1 .. N : m \in a + 1 .. N
          BY <1>0, <3>3
        <5>2. k \in 1 .. N
          BY <1>0, <3>3
        <5>3. \A m \in k + 1 .. N : f[m] = g[m]
          BY <3>5, <5>1
        <5>4. k \in 1 .. Len(s) + 1 /\ \A m \in k + 1 .. Len(s) + 1 : f[m] = g[m]
          BY <5>2, <5>3 DEF N
        <5> HIDE DEF a
        <5> QED  BY <5>4, TokenStepSame
      <4>2. k = a \/ k \in a + 1 .. N
        BY <1>0, <3>3
      <4> HIDE DEF a
      <4> QED  BY <3>5, <4>1, <4>2
    <3>7. f = [k \in a .. N |-> TokenStep(f, s, k)]
      <4> HIDE DEF a
      <4> QED  BY <3>6, <3>a
    <3>8. Good(n)
      BY <3>7, Zenon
    <3> HIDE DEF Good
    <3> QED  BY <2>3, <3>8
  <2> QED  BY <2>5, <2>6
<1>2. Good(N)
  <2> HIDE DEF Good
  <2> QED  BY <1>0, <1>1
<1>3. N + 1 - N = 1
  BY <1>0
<1>4. PICK f : f = [k \in N + 1 - N .. N |-> TokenStep(f, s, k)]
  BY <1>2, Zenon
<1>5. f = [k \in 1 .. N |-> TokenStep(f, s, k)]
  BY <1>3, <1>4
<1> QED  BY <1>5, Zenon DEF Tokenizes, N

\* What Tokens chooses is such a function.
LEMMA TokensIs ==
  ASSUME NEW s \in Seq(Alphabet)
  PROVE  \E f : Tokenizes(f, s) /\ Tokens(s) = f[1]
<1> DEFINE f == CHOOSE f : f = [k \in 1 .. Len(s) + 1 |-> TokenStep(f, s, k)]
<1>1. \E g : g = [k \in 1 .. Len(s) + 1 |-> TokenStep(g, s, k)]
  BY TokenizesExists, Zenon DEF Tokenizes
<1>2. f = [k \in 1 .. Len(s) + 1 |-> TokenStep(f, s, k)]
  BY <1>1, Zenon
<1>3. Tokens(s) = f[1]
  BY Zenon DEF Tokens, TokenStep, Rest, Openings
<1> HIDE DEF f
<1> QED  BY <1>2, <1>3, Zenon DEF Tokenizes

Tok ==
  [kind : {"lit", "cap", "BadCapture", "UnbalancedBrace"}, text : Seq(Alphabet),
   words : {<<>>} \cup {Split(x) : x \in Seq(Alphabet)}]

LEMMA CaptureTokenType ==
  ASSUME NEW x \in Seq(Alphabet)
  PROVE  /\ CaptureToken(x) \in Tok /\ CaptureToken(x).text = x
         /\ CaptureToken(x).words = Split(x)
         /\ CaptureToken(x).kind = IF Len(Split(x)) <= 3 THEN "cap" ELSE "BadCapture"
<1> DEFINE w == Split(x)
<1>1. w \in {<<>>} \cup {Split(y) : y \in Seq(Alphabet)}
  OBVIOUS
<1> HIDE DEF w
<1>2. CaptureToken(x) = [kind |-> IF Len(w) <= 3 THEN "cap" ELSE "BadCapture", text |-> x, words |-> w]
  BY DEF CaptureToken, w
<1>3. CaptureToken(x) \in Tok
  BY <1>1, <1>2 DEF Tok
<1> QED  BY <1>2, <1>3 DEF w

LEMMA LiteralTokenType ==
  ASSUME NEW x \in Seq(Alphabet)
  PROVE  LiteralToken(x) \in Seq(Tok)
<1>1. [kind |-> "lit", text |-> x, words |-> <<>>] \in Tok
  BY DEF Tok
<1> QED  BY <1>1 DEF LiteralToken

LEMMA RestType ==
  ASSUME NEW s \in Seq(Alphabet), NEW o \in 1 .. Len(s), NEW f,
         \A m \in o + 1 .. Len(s) + 1 : f[m] \in Seq(Tok)
  PROVE  Rest(f, s, o) \in Seq(Tok)
<1>1. CASE ClosingBraces(s, o) = {}
  <2>1. [kind |-> "UnbalancedBrace", text |-> s, words |-> <<>>] \in Tok
    BY DEF Tok
  <2> QED  BY <1>1, <2>1 DEF Rest
<1>2. CASE ClosingBraces(s, o) # {}
  <2> DEFINE c == First(ClosingBraces(s, o))
             t == CaptureToken(SubSeq(s, o + 2, c - 1))
  <2>1. c \in o + 2 .. Len(s)
    BY <1>2, ClosingType
  <2>2. Rest(f, s, o) = IF t.kind = "cap" THEN <<t>> \o f[c + 1] ELSE <<t>>
    BY <1>2, Zenon DEF Rest
  <2> HIDE DEF c
  <2>3. SubSeq(s, o + 2, c - 1) \in Seq(Alphabet) /\ f[c + 1] \in Seq(Tok)
    BY <2>1
  <2>4. t \in Tok
    BY <2>3, CaptureTokenType
  <2> HIDE DEF t
  <2>5. <<t>> \in Seq(Tok)
    BY <2>4
  <2>6. <<t>> \o f[c + 1] \in Seq(Tok)
    BY <2>3, <2>5
  <2> QED  BY <2>2, <2>5, <2>6
<1> QED  BY <1>1, <1>2

LEMMA TokensTyped ==
  ASSUME NEW s \in Seq(Alphabet), NEW f, Tokenizes(f, s)
  PROVE  \A k \in 1 .. Len(s) + 1 : f[k] \in Seq(Tok)
<1> DEFINE N == Len(s) + 1
           Bad == {n \in Nat : n < N /\ f[N - n] \notin Seq(Tok)}
<1>0. N \in Nat /\ N > 0
  OBVIOUS
<1>a. \A k \in 1 .. N : f[k] = TokenStep(f, s, k)
  <2>1. f = [k \in 1 .. N |-> TokenStep(f, s, k)]
    BY Zenon DEF Tokenizes
  <2> HIDE DEF N
  <2> QED  BY <2>1
<1>1. ASSUME Bad # {} PROVE FALSE
  <2>1. PICK n \in Bad : \A y \in Bad : ~(<<y, n>> \in OpToRel(<, Nat))
    BY <1>1, WFMin, NatLessThanWellFounded
  <2>2. n \in Nat /\ n < N /\ f[N - n] \notin Seq(Tok)
    OBVIOUS
  <2>3. \A y \in Bad : ~(y < n)
    BY <2>1, <2>2 DEF OpToRel
  <2> DEFINE k == N - n
  <2>4. k \in 1 .. N
    BY <1>0, <2>2
  <2>5. \A m \in k + 1 .. N : f[m] \in Seq(Tok)
    <3> TAKE m \in k + 1 .. N
    <3>1. N - m \in Nat /\ N - m < n /\ N - m < N /\ N - (N - m) = m
      BY <1>0, <2>2
    <3>2. N - m \notin Bad
      BY <2>3, <3>1
    <3> HIDE DEF N, k
    <3> QED  BY <3>1, <3>2
  <2> HIDE DEF Bad, k
  <2>6. TokenStep(f, s, k) \in Seq(Tok)
    <3>1. CASE Openings(s, k) = {}
      <4>1. SubSeq(s, k, Len(s)) \in Seq(Alphabet)
        BY <2>4
      <4> QED  BY <3>1, <4>1, LiteralTokenType DEF TokenStep
    <3>2. CASE Openings(s, k) # {}
      <4> DEFINE o == First(Openings(s, k))
      <4>1. o \in k .. Len(s)
        BY <2>4, <3>2, OpeningsType
      <4>2. TokenStep(f, s, k) = LiteralToken(SubSeq(s, k, o - 1)) \o Rest(f, s, o)
        BY <3>2, Zenon DEF TokenStep
      <4> HIDE DEF o
      <4>3. SubSeq(s, k, o - 1) \in Seq(Alphabet)
        BY <2>4, <4>1
      <4>4. o \in 1 .. Len(s) /\ \A m \in o + 1 .. Len(s) + 1 : m \in k + 1 .. N
        BY <2>4, <4>1
      <4>5. Rest(f, s, o) \in Seq(Tok)
        BY <2>5, <4>4, RestType
      <4>6. LiteralToken(SubSeq(s, k, o - 1)) \in Seq(Tok)
        BY <4>3, LiteralTokenType
      <4> QED  BY <4>2, <4>5, <4>6
    <3> QED  BY <3>1, <3>2
  <2> QED  BY <1>a, <2>2, <2>4, <2>6 DEF k
<1>2. ASSUME NEW k \in 1 .. N PROVE f[k] \in Seq(Tok)
  <2>1. N - k \in Nat /\ N - k < N /\ N - (N - k) = k
    BY <1>0
  <2>2. N - k \notin Bad
    BY <1>1
  <2> HIDE DEF N
  <2> QED  BY <2>1, <2>2
<1> QED  BY <1>2

\* The tokens from a place on, up to the capture that opens next.
LEMMA TokensOpen ==
  ASSUME NEW s \in Seq(Alphabet), NEW f, Tokenizes(f, s), NEW k \in 1 .. Len(s),
         NEW o \in k .. Len(s), Opens(s, o), \A m \in k .. o - 1 : ~Opens(s, m)
  PROVE  f[k] = LiteralToken(SubSeq(s, k, o - 1)) \o Rest(f, s, o)
<1>1. f[k] = TokenStep(f, s, k)
  <2>1. f = [m \in 1 .. Len(s) + 1 |-> TokenStep(f, s, m)]
    BY Zenon DEF Tokenizes
  <2>2. k \in 1 .. Len(s) + 1
    OBVIOUS
  <2> QED  BY <2>1, <2>2
<1>2. Openings(s, k) \in SUBSET Nat /\ o \in Openings(s, k)
  BY DEF Openings
<1>3. \A y \in Openings(s, k) : o <= y
  <2> TAKE y \in Openings(s, k)
  <2>1. y \in k .. Len(s) /\ Opens(s, y)
    BY DEF Openings
  <2>2. y \notin k .. o - 1
    BY <2>1
  <2> QED  BY <2>1, <2>2
<1>4. First(Openings(s, k)) = o
  BY <1>2, <1>3, FirstIs
<1> QED  BY <1>1, <1>2, <1>4 DEF TokenStep

\* The tokens from a place on, when nothing opens any more.
LEMMA TokensEnd ==
  ASSUME NEW s \in Seq(Alphabet), NEW f, Tokenizes(f, s), NEW k \in 1 .. Len(s) + 1,
         \A m \in k .. Len(s) : ~Opens(s, m)
  PROVE  f[k] = LiteralToken(SubSeq(s, k, Len(s)))
<1>1. f[k] = TokenStep(f, s, k)
  <2>1. f = [m \in 1 .. Len(s) + 1 |-> TokenStep(f, s, m)]
    BY Zenon DEF Tokenizes
  <2> QED  BY <2>1
<1>2. Openings(s, k) = {}
  BY DEF Openings
<1> QED  BY <1>1, <1>2 DEF TokenStep

\* Braces of a text and of a piece of it.
LEMMA CountShift ==
  ASSUME NEW s, NEW t, NEW a \in Nat, NEW k \in Nat, NEW c,
         \A m \in 1 .. k : t[m] = s[a + m]
  PROVE  Count(s, a + 1, a + k, c) = Braces(t, k, c)
<1> DEFINE A == {m \in 1 .. k : t[m] = c}
           B == {m \in a + 1 .. a + k : s[m] = c}
           F == [m \in A |-> a + m]
<1>1. IsFiniteSet(A)
  BY BracesType, SMTT(30)
<1>2. A \subseteq 1 .. k
  OBVIOUS
<1>3. \A x \in A : a + x \in B
  OBVIOUS
<1>4. \A y \in B : y - a \in A /\ a + (y - a) = y
  <2> TAKE y \in B
  <2>1. y \in a + 1 .. a + k /\ s[y] = c
    OBVIOUS
  <2>2. y - a \in 1 .. k /\ a + (y - a) = y
    BY <2>1
  <2>3. t[y - a] = s[a + (y - a)]
    BY <2>2
  <2> QED  BY <2>1, <2>2, <2>3
<1> HIDE DEF A, B
<1>5. F \in Bijection(A, B)
  <2>1. F \in [A -> B]
    BY <1>3
  <2>2. \A x, y \in A : F[x] = F[y] => x = y
    BY <1>2
  <2>3. \A y \in B : \E x \in A : F[x] = y
    BY <1>4
  <2> HIDE DEF F
  <2> QED  BY <2>1, <2>2, <2>3 DEF Bijection, Injection, Surjection, IsInjective
<1>6. ExistsBijection(A, B)
  BY <1>5 DEF ExistsBijection
<1>7. Cardinality(B) = Cardinality(A)
  BY <1>1, <1>6, FS_Bijection
<1> QED  BY <1>7 DEF Count, Braces, A, B

LEMMA ClosingIs ==
  \A s, k : ClosingBraces(s, k) =
    {j0 \in k + 2 .. Len(s) : Count(s, k + 2, j0, RB) = Count(s, k + 2, j0, LB) + 1}
  BY Zenon DEF ClosingBraces, LB, RB

\* What the brace loop has seen of a capture, counted the other way.
LEMMA NestedCounts ==
  ASSUME NEW s \in Seq(Alphabet), NEW o \in 1 .. Len(s), NEW b \in o + 2 .. Len(s) + 1, NEW d,
         Nested(SubSeq(s, o + 2, b - 1), d)
  PROVE  /\ \A m \in o + 2 .. b - 2 : Count(s, o + 2, m, RB) <= Count(s, o + 2, m, LB)
         /\ d = 0 => b > o + 2
         /\ b > o + 2 => d + Count(s, o + 2, b - 1, RB) = 1 + Count(s, o + 2, b - 1, LB)
         /\ \A m \in o + 2 .. Len(s) : Count(s, o + 2, m, RB) \in Nat /\ Count(s, o + 2, m, LB) \in Nat
<1> DEFINE t == SubSeq(s, o + 2, b - 1)
           n == b - (o + 2)
           a == o + 1
<1>1. o + 2 \in 1 .. Len(s) + 1 /\ n \in Nat /\ a \in Nat
  OBVIOUS
<1>2. t \in Seq(Alphabet) /\ Len(t) = n /\ \A m \in 1 .. n : t[m] = s[o + 2 + m - 1]
  BY <1>1, SubSeqIs
<1>3. \A m \in 1 .. n : t[m] = s[a + m]
  <2> HIDE DEF t, n
  <2>1. \A m \in 1 .. n : o + 2 + m - 1 = a + m
    BY <1>1
  <2> QED  BY <1>2, <2>1
<1> HIDE DEF t
<1>4. /\ \A m \in 0 .. n - 1 : Braces(t, m, LB) >= Braces(t, m, RB)
      /\ d + Braces(t, n, RB) = 1 + Braces(t, n, LB)
      /\ d = 0 => n > 0
  <2>1. Nested(t, d)
    BY DEF t
  <2> HIDE DEF n
  <2> QED  BY <1>2, <2>1, Zenon DEF Nested
<1>5. ASSUME NEW k \in 0 .. n, NEW c PROVE Count(s, a + 1, a + k, c) = Braces(t, k, c)
  <2>1. \A m \in 1 .. k : t[m] = s[a + m]
    BY <1>1, <1>3
  <2> HIDE DEF n, a
  <2> QED  BY <1>1, <2>1, CountShift
<1>6. a + 1 = o + 2
  OBVIOUS
<1>7. ASSUME NEW m \in o + 2 .. b - 2 PROVE Count(s, o + 2, m, RB) <= Count(s, o + 2, m, LB)
  <2> DEFINE k == m - a
  <2>1. k \in 0 .. n - 1 /\ k \in 0 .. n /\ a + k = m /\ k \in Nat
    OBVIOUS
  <2> HIDE DEF k, n, a
  <2>2. Count(s, o + 2, m, RB) = Braces(t, k, RB) /\ Count(s, o + 2, m, LB) = Braces(t, k, LB)
    BY <1>5, <1>6, <2>1
  <2>3. Braces(t, k, RB) \in Nat /\ Braces(t, k, LB) \in Nat
    BY <2>1, BracesType
  <2> QED  BY <1>4, <2>1, <2>2, <2>3
<1>8. d = 0 => b > o + 2
  BY <1>4
<1>9. b > o + 2 => d + Count(s, o + 2, b - 1, RB) = 1 + Count(s, o + 2, b - 1, LB)
  <2>1. n \in 0 .. n /\ a + n = b - 1
    OBVIOUS
  <2> HIDE DEF n, a
  <2>2. Count(s, o + 2, b - 1, RB) = Braces(t, n, RB) /\ Count(s, o + 2, b - 1, LB) = Braces(t, n, LB)
    BY <1>5, <1>6, <2>1
  <2> QED  BY <1>4, <2>2
<1>10. ASSUME NEW m \in o + 2 .. Len(s), NEW c PROVE Count(s, o + 2, m, c) \in Nat
  <2>1. IsFiniteSet(o + 2 .. m)
    BY FS_Interval
  <2>2. {x \in o + 2 .. m : s[x] = c} \subseteq o + 2 .. m
    OBVIOUS
  <2> QED  BY <2>1, <2>2, FS_Subset, FS_CardinalityType DEF Count
<1> QED  BY <1>7, <1>8, <1>9, <1>10

\* A capture that the brace loop closes is closed there, and one that it does
\* not close is not.
LEMMA ClosesAt ==
  ASSUME NEW s \in Seq(Alphabet), NEW o \in 1 .. Len(s), NEW b \in o + 2 .. Len(s) + 1,
         Nested(SubSeq(s, o + 2, b - 1), 0)
  PROVE  ClosingBraces(s, o) # {} /\ First(ClosingBraces(s, o)) = b - 1
<1> DEFINE C == {j0 \in o + 2 .. Len(s) : Count(s, o + 2, j0, RB) = Count(s, o + 2, j0, LB) + 1}
<1>1. ClosingBraces(s, o) = C
  BY ClosingIs, Zenon
<1>2. /\ \A m \in o + 2 .. b - 2 : Count(s, o + 2, m, RB) <= Count(s, o + 2, m, LB)
      /\ b > o + 2
      /\ 0 + Count(s, o + 2, b - 1, RB) = 1 + Count(s, o + 2, b - 1, LB)
      /\ \A m \in o + 2 .. Len(s) : Count(s, o + 2, m, RB) \in Nat /\ Count(s, o + 2, m, LB) \in Nat
  BY NestedCounts
<1>3. b - 1 \in C
  <2>1. b - 1 \in o + 2 .. Len(s)
    BY <1>2
  <2> QED  BY <1>2, <2>1
<1>4. \A y \in C : b - 1 <= y
  <2> TAKE y \in C
  <2>1. y \in o + 2 .. Len(s) /\ Count(s, o + 2, y, RB) = Count(s, o + 2, y, LB) + 1
    OBVIOUS
  <2>2. y \notin o + 2 .. b - 2
    BY <1>2, <2>1
  <2> QED  BY <2>1, <2>2
<1>5. C \in SUBSET Nat
  OBVIOUS
<1> HIDE DEF C
<1>6. First(C) = b - 1
  BY <1>3, <1>4, <1>5, FirstIs
<1> QED  BY <1>1, <1>3, <1>6

LEMMA ClosesNowhere ==
  ASSUME NEW s \in Seq(Alphabet), NEW o \in 1 .. Len(s), o + 2 <= Len(s) + 1,
         NEW d \in Nat \ {0}, Nested(SubSeq(s, o + 2, (Len(s) + 1) - 1), d)
  PROVE  ClosingBraces(s, o) = {}
<1> DEFINE b == Len(s) + 1
<1>1. ClosingBraces(s, o) =
        {j0 \in o + 2 .. Len(s) : Count(s, o + 2, j0, RB) = Count(s, o + 2, j0, LB) + 1}
  BY ClosingIs, Zenon
<1>2. b \in o + 2 .. Len(s) + 1 /\ b - 1 = Len(s)
  OBVIOUS
<1> HIDE DEF b
<1>3. /\ \A m \in o + 2 .. b - 2 : Count(s, o + 2, m, RB) <= Count(s, o + 2, m, LB)
      /\ b > o + 2 => d + Count(s, o + 2, b - 1, RB) = 1 + Count(s, o + 2, b - 1, LB)
      /\ \A m \in o + 2 .. Len(s) : Count(s, o + 2, m, RB) \in Nat /\ Count(s, o + 2, m, LB) \in Nat
  <2>1. Nested(SubSeq(s, o + 2, b - 1), d)
    BY DEF b
  <2> QED  BY <1>2, <2>1, NestedCounts
<1>4. ASSUME NEW y \in o + 2 .. Len(s), Count(s, o + 2, y, RB) = Count(s, o + 2, y, LB) + 1
      PROVE  FALSE
  <2>1. CASE y = b - 1
    <3>1. b > o + 2 /\ d \in Nat /\ d >= 1
      BY <1>2, <2>1
    <3> QED  BY <1>3, <1>4, <2>1, <3>1
  <2>2. CASE y # b - 1
    <3>1. y \in o + 2 .. b - 2
      BY <1>2, <2>2
    <3> QED  BY <1>3, <1>4, <3>1
  <2> QED  BY <2>1, <2>2
<1> QED  BY <1>1, <1>4

-----------------------------------------------------------------------------
(* The parts of the schema parser as tokens *)

Token(p) ==
  IF p.kind = "lit" THEN [kind |-> "lit", text |-> p.text, words |-> <<>>]
  ELSE CaptureToken(p.text)

AsTokens(ps) == [k \in DOMAIN ps |-> Token(ps[k])]

HasWide(ps) == \E k \in DOMAIN ps : Wide(ps[k])

\* The tokens end with an error.
EndsWith(ts, e) ==
  /\ ts \in Seq(Tok) /\ Len(ts) > 0 /\ ts[Len(ts)].kind = e
  /\ \A k \in 1 .. Len(ts) - 1 : ts[k].kind \in {"lit", "cap"}

\* The Grok engine's tokens are the parts and the rest, unless a part is too
\* wide for it.
Follows(ps, ts, rest) ==
  IF HasWide(ps) THEN EndsWith(ts, "BadCapture") ELSE ts = AsTokens(ps) \o rest

LEMMA TokenType ==
  ASSUME NEW p \in Part
  PROVE  /\ Token(p) \in Tok /\ Token(p).text = p.text
         /\ ~Wide(p) => Token(p).kind = p.kind
         /\ Wide(p) => Token(p).kind = "BadCapture"
         /\ p.kind = "cap" => Token(p).words = Split(p.text)
<1>1. p.kind \in {"lit", "cap"} /\ p.text \in Seq(Alphabet)
  BY DEF Part
<1>2. CASE p.kind = "lit"
  <2> DEFINE t == [kind |-> "lit", text |-> p.text, words |-> <<>>]
  <2>1. t \in Tok /\ t.text = p.text /\ t.kind = "lit"
    BY <1>1 DEF Tok
  <2>2. Token(p) = t /\ ~Wide(p) /\ p.kind # "cap"
    BY <1>2 DEF Token, Wide
  <2> QED  BY <1>2, <2>1, <2>2
<1>3. CASE p.kind = "cap"
  <2>1. Token(p) = CaptureToken(p.text)
    BY <1>3 DEF Token
  <2>2. Wide(p) <=> ~(Len(Split(p.text)) <= 3)
    <3>1. Len(Split(p.text)) \in Nat
      BY <1>1, SplitLength
    <3> QED  BY <1>3, <3>1 DEF Wide
  <2> QED  BY <1>1, <1>3, <2>1, <2>2, CaptureTokenType
<1> QED  BY <1>1, <1>2, <1>3

LEMMA AsTokensType ==
  ASSUME NEW ps \in Seq(Part)
  PROVE  /\ AsTokens(ps) \in Seq(Tok) /\ Len(AsTokens(ps)) = Len(ps)
         /\ \A k \in 1 .. Len(ps) : AsTokens(ps)[k] = Token(ps[k])
<1> DEFINE n == Len(ps)
           g == [k \in 1 .. n |-> Token(ps[k])]
<1>1. n \in Nat /\ DOMAIN ps = 1 .. n /\ \A k \in 1 .. n : ps[k] \in Part
  OBVIOUS
<1>2. \A k \in 1 .. n : Token(ps[k]) \in Tok
  BY <1>1, TokenType
<1>3. AsTokens(ps) = g
  BY <1>1 DEF AsTokens
<1> HIDE DEF n
<1>4. g \in Seq(Tok) /\ Len(g) = n /\ \A k \in 1 .. n : g[k] = Token(ps[k])
  BY <1>1, <1>2
<1> QED  BY <1>3, <1>4 DEF n

LEMMA AsTokensAppend ==
  ASSUME NEW ps \in Seq(Part), NEW p \in Part
  PROVE  AsTokens(Append(ps, p)) = AsTokens(ps) \o <<Token(p)>>
<1> DEFINE qs == Append(ps, p)
           n == Len(ps)
           a == AsTokens(ps)
           b == AsTokens(qs)
           c == <<Token(p)>>
<1>1. qs \in Seq(Part) /\ Len(qs) = n + 1 /\ n \in Nat /\ qs[n + 1] = p /\ \A k \in 1 .. n : qs[k] = ps[k]
  OBVIOUS
<1>2. a \in Seq(Tok) /\ Len(a) = n /\ \A k \in 1 .. n : a[k] = Token(ps[k])
  BY AsTokensType
<1> HIDE DEF qs
<1>3. b \in Seq(Tok) /\ Len(b) = n + 1 /\ \A k \in 1 .. n + 1 : b[k] = Token(qs[k])
  BY <1>1, AsTokensType
<1>4. c \in Seq(Tok) /\ Len(c) = 1 /\ c[1] = Token(p)
  BY TokenType
<1> HIDE DEF a, b, c, n
<1>5. /\ a \o c \in Seq(Tok) /\ Len(a \o c) = n + 1
      /\ \A k \in 1 .. n + 1 : (a \o c)[k] = IF k <= n THEN a[k] ELSE c[k - n]
  <2>1. /\ a \o c \in Seq(Tok) /\ Len(a \o c) = Len(a) + Len(c)
        /\ \A k \in 1 .. Len(a) + Len(c) :
             (a \o c)[k] = IF k <= Len(a) THEN a[k] ELSE c[k - Len(a)]
    BY <1>1, <1>2, <1>4, ConcatIs, Zenon
  <2> QED  BY <1>1, <1>2, <1>4, <2>1
<1>6. ASSUME NEW k \in 1 .. n + 1 PROVE b[k] = (a \o c)[k]
  <2>1. CASE k = n + 1
    <3>1. ~(k <= n) /\ k - n = 1
      BY <1>1, <2>1
    <3> QED  BY <1>1, <1>3, <1>4, <1>5, <2>1, <3>1
  <2>2. CASE k # n + 1
    <3>1. k \in 1 .. n /\ k <= n
      BY <1>1, <2>2
    <3> QED  BY <1>1, <1>2, <1>3, <1>5, <3>1
  <2> QED  BY <2>1, <2>2
<1>7. b = a \o c
  BY <1>3, <1>5, <1>6, SameSeq
<1> QED  BY <1>7 DEF a, b, c, qs

LEMMA WideAppend ==
  ASSUME NEW ps \in Seq(Part), NEW p \in Part
  PROVE  HasWide(Append(ps, p)) <=> HasWide(ps) \/ Wide(p)
<1> DEFINE qs == Append(ps, p)
           n == Len(ps)
<1>1. /\ DOMAIN qs = 1 .. n + 1 /\ DOMAIN ps = 1 .. n /\ n \in Nat
      /\ qs[n + 1] = p /\ \A k \in 1 .. n : qs[k] = ps[k]
  OBVIOUS
<1> HIDE DEF qs, n
<1>2. \A k \in 1 .. n + 1 : k = n + 1 \/ k \in 1 .. n
  BY <1>1
<1>3. n + 1 \in 1 .. n + 1 /\ \A k \in 1 .. n : k \in 1 .. n + 1
  BY <1>1
<1>4. HasWide(qs) <=> HasWide(ps) \/ Wide(p)
  BY <1>1, <1>2, <1>3, Zenon DEF HasWide
<1> QED  BY <1>4 DEF qs

LEMMA ConcatAssoc ==
  ASSUME NEW S, NEW a \in Seq(S), NEW b \in Seq(S), NEW c \in Seq(S)
  PROVE  (a \o b) \o c = a \o (b \o c)
  OBVIOUS

LEMMA TokAssoc == \A a, b, c \in Seq(Tok) : (a \o b) \o c = a \o (b \o c)
<1> TAKE a, b, c \in Seq(Tok)
<1> QED  BY ConcatAssoc

LEMMA ConcatNone ==
  ASSUME NEW S, NEW a \in Seq(S)
  PROVE  a \o <<>> = a /\ <<>> \o a = a
  OBVIOUS

\* The same literal is flushed.
LEMMA FlushFollows ==
  ASSUME Text \in Seq(Alphabet), NEW ps \in Seq(Part),
         NEW from \in 1 .. Len(Text) + 1, NEW to \in from .. Len(Text) + 1,
         NEW ts, NEW rest \in Seq(Tok),
         Follows(ps, ts, LiteralToken(SubSeq(Text, from, to - 1)) \o rest)
  PROVE  Follows(ps \o LiteralPart(from, to), ts, rest)
<1> DEFINE x == SubSeq(Text, from, to - 1)
<1>1. x \in Seq(Alphabet) /\ Len(x) = to - from
  BY SubSeqIs
<1>2. CASE from = to
  <2>1. x = <<>>
    BY <1>1, <1>2
  <2> HIDE DEF x
  <2>2. LiteralToken(x) = <<>>
    BY <2>1 DEF LiteralToken
  <2>3. LiteralToken(x) \o rest = rest
    BY <2>2
  <2>4. ~(from < to)
    BY <1>2
  <2>5. LiteralPart(from, to) = <<>>
    BY <2>4, Zenon DEF LiteralPart
  <2>6. ps \o LiteralPart(from, to) = ps
    BY <2>5
  <2>7. Follows(ps, ts, LiteralToken(x) \o rest)
    BY DEF x
  <2> QED  BY <2>3, <2>6, <2>7
<1>3. CASE from # to
  <2> DEFINE p == [kind |-> "lit", text |-> x]
  <2>1. from < to /\ x # <<>>
    BY <1>1, <1>3
  <2>2. LiteralPart(from, to) = <<p>>
    BY <2>1, Zenon DEF LiteralPart
  <2>3. Follows(ps, ts, LiteralToken(x) \o rest)
    OBVIOUS
  <2> HIDE DEF x
  <2>4. p \in Part /\ ~Wide(p)
    BY <1>1 DEF Part, Wide
  <2>5. LiteralToken(x) = <<Token(p)>>
    BY <2>1 DEF LiteralToken, Token
  <2> HIDE DEF p
  <2>6. ps \o LiteralPart(from, to) = Append(ps, p)
    BY <2>2, <2>4, AppendIs
  <2>7. HasWide(Append(ps, p)) <=> HasWide(ps)
    BY <2>4, WideAppend
  <2>8. AsTokens(Append(ps, p)) \o rest = AsTokens(ps) \o (<<Token(p)>> \o rest)
    <3>1. AsTokens(Append(ps, p)) = AsTokens(ps) \o <<Token(p)>>
      BY <2>4, AsTokensAppend
    <3>2. AsTokens(ps) \in Seq(Tok) /\ <<Token(p)>> \in Seq(Tok)
      BY <2>4, AsTokensType, TokenType
    <3>3. (AsTokens(ps) \o <<Token(p)>>) \o rest = AsTokens(ps) \o (<<Token(p)>> \o rest)
      BY <3>2, ConcatAssoc
    <3> QED  BY <3>1, <3>3
  <2> QED  BY <2>3, <2>5, <2>6, <2>7, <2>8, Zenon DEF Follows
<1> QED  BY <1>2, <1>3

\* Parts that are not too wide, and an error behind them.
LEMMA ErrorBehind ==
  ASSUME NEW ps \in Seq(Part), ~HasWide(ps), NEW t \in Tok, NEW e, t.kind = e
  PROVE  EndsWith(AsTokens(ps) \o <<t>>, e)
<1> DEFINE a == AsTokens(ps)
           c == <<t>>
           n == Len(ps)
<1>1. a \in Seq(Tok) /\ Len(a) = n /\ n \in Nat /\ \A k \in 1 .. n : a[k] = Token(ps[k])
  BY AsTokensType
<1>2. c \in Seq(Tok) /\ Len(c) = 1 /\ c[1] = t
  OBVIOUS
<1>3. \A k \in 1 .. n : ps[k] \in Part /\ ~Wide(ps[k])
  BY DEF HasWide
<1>4. \A k \in 1 .. n : a[k].kind \in {"lit", "cap"}
  <2> TAKE k \in 1 .. n
  <2>1. ps[k] \in Part /\ ~Wide(ps[k]) /\ a[k] = Token(ps[k])
    BY <1>1, <1>3
  <2> HIDE DEF a, n
  <2>2. Token(ps[k]).kind = ps[k].kind
    BY <2>1, TokenType
  <2> QED  BY <2>1, <2>2 DEF Part
<1> HIDE DEF a, c, n
<1>5. /\ a \o c \in Seq(Tok) /\ Len(a \o c) = n + 1
      /\ \A k \in 1 .. n + 1 : (a \o c)[k] = IF k <= n THEN a[k] ELSE c[k - n]
  <2>1. /\ a \o c \in Seq(Tok) /\ Len(a \o c) = Len(a) + Len(c)
        /\ \A k \in 1 .. Len(a) + Len(c) :
             (a \o c)[k] = IF k <= Len(a) THEN a[k] ELSE c[k - Len(a)]
    BY <1>1, <1>2, ConcatIs, Zenon
  <2> QED  BY <1>1, <1>2, <2>1
<1>6. (a \o c)[n + 1] = t
  <2>1. n + 1 \in 1 .. n + 1 /\ ~(n + 1 <= n) /\ (n + 1) - n = 1
    BY <1>1
  <2> QED  BY <1>2, <1>5, <2>1
<1>7. \A k \in 1 .. (n + 1) - 1 : (a \o c)[k].kind \in {"lit", "cap"}
  <2> TAKE k \in 1 .. (n + 1) - 1
  <2>1. k \in 1 .. n /\ k \in 1 .. n + 1 /\ k <= n
    BY <1>1
  <2> QED  BY <1>4, <1>5, <2>1
<1>8. n + 1 > 0
  BY <1>1
<1> QED  BY <1>5, <1>6, <1>7, <1>8 DEF EndsWith, a, c

\* The same capture is closed.
LEMMA CaptureFollows ==
  ASSUME NEW s \in Seq(Alphabet), NEW ps \in Seq(Part), NEW o \in 1 .. Len(s),
         NEW b \in o + 2 .. Len(s) + 1, NEW p \in Part,
         p = [kind |-> "cap", text |-> SubSeq(s, o + 2, b - 2)],
         Nested(SubSeq(s, o + 2, b - 1), 0),
         NEW f, Tokenizes(f, s), NEW ts, Follows(ps, ts, Rest(f, s, o))
  PROVE  Follows(Append(ps, p), ts, f[b])
<1> DEFINE t == Token(p)
<1>1. ClosingBraces(s, o) # {} /\ First(ClosingBraces(s, o)) = b - 1
  BY ClosesAt
<1>2. (b - 1) - 1 = b - 2 /\ (b - 1) + 1 = b /\ b \in 1 .. Len(s) + 1
  OBVIOUS
<1>3. t = CaptureToken(SubSeq(s, o + 2, b - 2)) /\ p.kind = "cap"
  BY DEF Token
<1>4. Rest(f, s, o) = IF t.kind = "cap" THEN <<t>> \o f[b] ELSE <<t>>
  BY <1>1, <1>2, <1>3 DEF Rest
<1>5. t \in Tok /\ (~Wide(p) => t.kind = "cap") /\ (Wide(p) => t.kind = "BadCapture")
  BY <1>3, TokenType
<1>6. f[b] \in Seq(Tok)
  BY <1>2, TokensTyped
<1>7. HasWide(Append(ps, p)) <=> HasWide(ps) \/ Wide(p)
  BY WideAppend
<1>8. AsTokens(Append(ps, p)) = AsTokens(ps) \o <<t>> /\ AsTokens(ps) \in Seq(Tok)
  BY AsTokensAppend, AsTokensType
<1> HIDE DEF t
<1>9. CASE HasWide(ps)
  BY <1>7, <1>9, Zenon DEF Follows
<1>10. CASE ~HasWide(ps) /\ Wide(p)
  <2>1. ts = AsTokens(ps) \o <<t>>
    BY <1>4, <1>5, <1>10 DEF Follows
  <2>2. EndsWith(ts, "BadCapture")
    BY <1>5, <1>10, <2>1, ErrorBehind
  <2> QED  BY <1>7, <1>10, <2>2, Zenon DEF Follows
<1>11. CASE ~HasWide(ps) /\ ~Wide(p)
  <2>1. ts = AsTokens(ps) \o (<<t>> \o f[b])
    BY <1>4, <1>5, <1>11 DEF Follows
  <2>2. <<t>> \in Seq(Tok)
    BY <1>5
  <2>3. (AsTokens(ps) \o <<t>>) \o f[b] = AsTokens(ps) \o (<<t>> \o f[b])
    <3> DEFINE a == AsTokens(ps)
               c == <<t>>
               d == f[b]
    <3>1. a \in Seq(Tok) /\ c \in Seq(Tok) /\ d \in Seq(Tok)
      BY <1>6, <1>8, <2>2
    <3> HIDE DEF a, c, d
    <3>2. (a \o c) \o d = a \o (c \o d)
      BY <3>1, TokAssoc, Zenon
    <3> QED  BY <3>2 DEF a, c, d
  <2>4. ts = AsTokens(Append(ps, p)) \o f[b]
    BY <1>8, <2>1, <2>3
  <2> QED  BY <1>7, <1>11, <2>4, Zenon DEF Follows
<1> QED  BY <1>9, <1>10, <1>11

\* The error of tokens that end with one, and of tokens without.
LEMMA ErrorIs ==
  ASSUME NEW s, NEW e \in {"BadCapture", "UnbalancedBrace"}, EndsWith(Tokens(s), e)
  PROVE  TokenError(s) = e
<1> DEFINE ts == Tokens(s)
           n == Len(ts)
           errs == {k \in DOMAIN ts : ts[k].kind \notin {"lit", "cap"}}
<1>1. /\ ts \in Seq(Tok) /\ n > 0 /\ ts[n].kind = e /\ n \in Nat
      /\ \A k \in 1 .. n - 1 : ts[k].kind \in {"lit", "cap"}
  BY DEF EndsWith
<1>2. TokenError(s) = IF errs = {} THEN "none" ELSE ts[First(errs)].kind
  BY Zenon DEF TokenError
<1> HIDE DEF ts
<1>3. n \in errs
  <2>1. n \in DOMAIN ts /\ e \notin {"lit", "cap"}
    BY <1>1
  <2> QED  BY <1>1, <2>1
<1>4. errs = {n}
  <2>1. ASSUME NEW k \in errs PROVE k = n
    <3>1. k \in 1 .. n /\ k \notin 1 .. n - 1
      BY <1>1
    <3> QED  BY <1>1, <3>1
  <2> QED  BY <1>3, <2>1
<1> HIDE DEF errs, n
<1>5. First(errs) = n
  <2>1. errs \in SUBSET Nat /\ n \in errs /\ \A y \in errs : n <= y
    BY <1>1, <1>4
  <2> QED  BY <2>1, FirstIs
<1> QED  BY <1>1, <1>2, <1>3, <1>5

LEMMA NoErrorIs ==
  ASSUME NEW s, NEW ps \in Seq(Part), Tokens(s) = AsTokens(ps), ~HasWide(ps)
  PROVE  TokenError(s) = "none"
<1>1. \A k \in DOMAIN Tokens(s) : Tokens(s)[k].kind \in {"lit", "cap"}
  <2> TAKE k \in DOMAIN Tokens(s)
  <2>1. k \in 1 .. Len(ps) /\ Tokens(s)[k] = Token(ps[k])
    BY AsTokensType
  <2>2. ps[k] \in Part /\ ~Wide(ps[k])
    BY <2>1 DEF HasWide
  <2>3. Token(ps[k]).kind = ps[k].kind
    BY <2>2, TokenType
  <2> QED  BY <2>1, <2>2, <2>3 DEF Part
<1>2. {k \in DOMAIN Tokens(s) : Tokens(s)[k].kind \notin {"lit", "cap"}} = {}
  BY <1>1
<1> QED  BY <1>2, Zenon DEF TokenError

\* The tokens are the parts so far, and what begins at k or opens at o; or,
\* behind a part that is too wide, an error.
ScanToks(ps, s, k) == \A f : Tokenizes(f, s) => Follows(ps, f[1], f[k])
OpenToks(ps, s, o) == \A f : Tokenizes(f, s) => Follows(ps, f[1], Rest(f, s, o))
SameToks(ps, s) == Follows(ps, Tokens(s), <<>>)

LEMMA ToksStart ==
  ASSUME NEW s \in Seq(Alphabet)
  PROVE  ScanToks(<<>>, s, 1)
<1> SUFFICES ASSUME NEW f, Tokenizes(f, s) PROVE Follows(<<>>, f[1], f[1])
  BY Zenon DEF ScanToks
<1>1. f[1] \in Seq(Tok)
  <2>1. 1 \in 1 .. Len(s) + 1
    OBVIOUS
  <2> QED  BY <2>1, TokensTyped
<1>2. ~HasWide(<<>>) /\ AsTokens(<<>>) = <<>>
  BY DEF HasWide, AsTokens
<1>3. <<>> \o f[1] = f[1]
  BY <1>1, ConcatNone
<1> QED  BY <1>2, <1>3, Zenon DEF Follows

LEMMA ToksOpen ==
  ASSUME Text \in Seq(Alphabet), NEW ps \in Seq(Part), NEW o \in 1 .. Len(Text),
         NEW from \in 1 .. o, ScanToks(ps, Text, from), Opens(Text, o),
         \A m \in from .. o - 1 : ~Opens(Text, m)
  PROVE  OpenToks(ps \o LiteralPart(from, o), Text, o)
<1> SUFFICES ASSUME NEW f, Tokenizes(f, Text)
             PROVE  Follows(ps \o LiteralPart(from, o), f[1], Rest(f, Text, o))
  BY Zenon DEF OpenToks
<1>1. from \in 1 .. Len(Text) /\ o \in from .. Len(Text) /\ from \in 1 .. Len(Text) + 1
      /\ o \in from .. Len(Text) + 1
  OBVIOUS
<1>2. f[from] = LiteralToken(SubSeq(Text, from, o - 1)) \o Rest(f, Text, o)
  BY <1>1, TokensOpen
<1>3. Rest(f, Text, o) \in Seq(Tok)
  <2>1. \A m \in o + 1 .. Len(Text) + 1 : m \in 1 .. Len(Text) + 1
    OBVIOUS
  <2>2. \A m \in o + 1 .. Len(Text) + 1 : f[m] \in Seq(Tok)
    BY <2>1, TokensTyped
  <2> QED  BY <2>2, RestType
<1>4. Follows(ps, f[1], f[from])
  BY Zenon DEF ScanToks
<1>5. Follows(ps, f[1], LiteralToken(SubSeq(Text, from, o - 1)) \o Rest(f, Text, o))
  BY <1>2, <1>4
<1> QED  BY <1>1, <1>3, <1>5, FlushFollows

LEMMA ToksClose ==
  ASSUME NEW s \in Seq(Alphabet), NEW ps \in Seq(Part), NEW o \in 1 .. Len(s),
         NEW b \in o + 2 .. Len(s) + 1, NEW p \in Part,
         p = [kind |-> "cap", text |-> SubSeq(s, o + 2, b - 2)],
         Nested(SubSeq(s, o + 2, b - 1), 0), OpenToks(ps, s, o)
  PROVE  ScanToks(Append(ps, p), s, b)
<1> SUFFICES ASSUME NEW f, Tokenizes(f, s) PROVE Follows(Append(ps, p), f[1], f[b])
  BY Zenon DEF ScanToks
<1>1. Follows(ps, f[1], Rest(f, s, o))
  BY Zenon DEF OpenToks
<1> QED  BY <1>1, CaptureFollows

LEMMA ToksDone ==
  ASSUME Text \in Seq(Alphabet), NEW ps \in Seq(Part), NEW from \in 1 .. Len(Text) + 1,
         ScanToks(ps, Text, from), \A m \in from .. Len(Text) : ~Opens(Text, m)
  PROVE  SameToks(ps \o LiteralPart(from, Len(Text) + 1), Text)
<1>1. PICK f : Tokenizes(f, Text) /\ Tokens(Text) = f[1]
  BY TokensIs
<1> DEFINE to == Len(Text) + 1
           x == SubSeq(Text, from, to - 1)
<1>2. to \in from .. Len(Text) + 1 /\ to - 1 = Len(Text)
  OBVIOUS
<1>3. f[from] = LiteralToken(SubSeq(Text, from, Len(Text)))
  BY <1>1, TokensEnd
<1>4. x \in Seq(Alphabet)
  BY <1>2, SubSeqIs
<1>5. f[from] = LiteralToken(x)
  <2> HIDE DEF to
  <2> QED  BY <1>2, <1>3
<1> HIDE DEF x
<1>6. LiteralToken(x) \in Seq(Tok)
  BY <1>4, LiteralTokenType
<1>7. LiteralToken(x) \o <<>> = LiteralToken(x)
  BY <1>6, ConcatNone
<1>8. Follows(ps, f[1], LiteralToken(x) \o <<>>)
  BY <1>1, <1>5, <1>7 DEF ScanToks
<1>9. <<>> \in Seq(Tok)
  OBVIOUS
<1>10. Follows(ps \o LiteralPart(from, to), f[1], <<>>)
  <2>1. Follows(ps, f[1], LiteralToken(SubSeq(Text, from, to - 1)) \o <<>>)
    BY <1>8 DEF x
  <2> HIDE DEF to
  <2> QED  BY <1>2, <1>9, <2>1, FlushFollows
<1> QED  BY <1>1, <1>10, Zenon DEF SameToks

\* A pattern whose braces do not close is refused by both.
LEMMA ToksRefused ==
  ASSUME NEW s \in Seq(Alphabet), NEW ps \in Seq(Part), NEW o \in 1 .. Len(s),
         o + 2 <= Len(s) + 1, NEW d \in Nat \ {0},
         Nested(SubSeq(s, o + 2, (Len(s) + 1) - 1), d), OpenToks(ps, s, o)
  PROVE  TokenError(s) \in {"UnbalancedBrace", "BadCapture"}
<1>1. PICK f : Tokenizes(f, s) /\ Tokens(s) = f[1]
  BY TokensIs
<1>2. Follows(ps, Tokens(s), Rest(f, s, o))
  BY <1>1, Zenon DEF OpenToks
<1> DEFINE t == [kind |-> "UnbalancedBrace", text |-> s, words |-> <<>>]
<1>3. Rest(f, s, o) = <<t>>
  BY ClosesNowhere DEF Rest
<1>4. t \in Tok /\ t.kind = "UnbalancedBrace"
  BY DEF Tok
<1> HIDE DEF t
<1>5. CASE HasWide(ps)
  <2>1. EndsWith(Tokens(s), "BadCapture")
    BY <1>2, <1>5, Zenon DEF Follows
  <2> QED  BY <2>1, ErrorIs
<1>6. CASE ~HasWide(ps)
  <2>1. Tokens(s) = AsTokens(ps) \o <<t>>
    BY <1>2, <1>3, <1>6 DEF Follows
  <2>2. EndsWith(Tokens(s), "UnbalancedBrace")
    BY <1>4, <1>6, <2>1, ErrorBehind
  <2> QED  BY <2>2, ErrorIs
<1> QED  BY <1>5, <1>6

-----------------------------------------------------------------------------
(* The tokenizer *)

\* The parts are the text, and so are the tokens.
Taken(ps, text) == IsCut(ps, text) /\ SameToks(ps, text)

\* The pattern statements of the block that have been read, and their last.
DraftCut ==
  draft.found =>
    \E s \in Patterns(block) :
      /\ s < stmt /\ \A t \in Patterns(block) : t < stmt => t <= s
      /\ Taken(draft.pattern, source[block].stmts[s].text)

\* Outside a capture the parts are the text up to the literal that is open.
ScanCut ==
  phase = "scan" =>
    /\ Stmt.kind = "pattern"
    /\ IsCut(parts, SubSeq(Text, 1, lit - 1))
    /\ \A m \in lit .. i - 1 : ~Opens(Text, m)
    /\ ScanToks(parts, Text, lit)

\* Inside a capture they are the text up to where it opens.
BraceCut ==
  phase = "brace" =>
    /\ Stmt.kind = "pattern"
    /\ IsCut(parts, SubSeq(Text, 1, i - 1))
    /\ Opens(Text, i) /\ Nested(SubSeq(Text, i + 2, j - 1), depth)
    /\ OpenToks(parts, Text, i)

FormatsCut == \A f \in DOMAIN formats : Taken(formats[f].body.pattern, LastPattern(f))

CutInv == DraftCut /\ ScanCut /\ BraceCut /\ FormatsCut

LEMMA CutIs == FormatsCut => PatternCut
  BY Zenon DEF FormatsCut, PatternCut, Taken, IsCut, Glued, WholePart, LB, RB

LEMMA NoCut == IsCut(<<>>, <<>>)
  BY GluedNone DEF IsCut

\* Formats are left alone.
LEMMA FormatsKept ==
  ASSUME FormatsCut, UNCHANGED <<source, formats>>
  PROVE  FormatsCut'
<1>1. \A f : LastPattern(f)' = LastPattern(f)
  BY DEF LastPattern, Patterns
<1> QED  BY <1>1 DEF FormatsCut

LEMMA PatternsType ==
  ASSUME LoaderTyped, NEW b \in 1 .. Len(source)
  PROVE  Patterns(b) \subseteq 1 .. Len(source[b].stmts)
<1>1. source[b] \in FormatBlock
  BY DEF LoaderTyped, Tree
<1>2. source[b].stmts \in Seq(Statement)
  BY <1>1 DEF FormatBlock
<1> QED  BY <1>2 DEF Patterns

\* The draft keeps its pattern; the cursor passes no pattern statement.
LEMMA DraftKept ==
  ASSUME DraftCut, UNCHANGED <<source, block>>,
         draft'.found = draft.found, draft'.pattern = draft.pattern,
         \/ stmt' = stmt
         \/ stmt' = stmt + 1 /\ block <= Len(source) /\ stmt \notin Patterns(block),
         LoaderTyped
  PROVE  DraftCut'
<1>1. Patterns(block)' = Patterns(block)
  BY DEF Patterns
<1> SUFFICES ASSUME draft.found PROVE DraftCut'
  BY DEF DraftCut
<1>2. PICK s \in Patterns(block) :
        /\ s < stmt /\ \A t \in Patterns(block) : t < stmt => t <= s
        /\ Taken(draft.pattern, source[block].stmts[s].text)
  BY DEF DraftCut
<1>3. CASE stmt' = stmt
  BY <1>1, <1>2, <1>3 DEF DraftCut
<1>4. CASE stmt' = stmt + 1 /\ block <= Len(source) /\ stmt \notin Patterns(block)
  <2>1. \A t \in Patterns(block) : t # stmt
    BY <1>4
  <2>2. Patterns(block) \subseteq Int
    <3>1. block \in 1 .. Len(source)
      BY <1>4 DEF LoaderTyped, Tree
    <3> QED  BY <3>1, PatternsType
  <2>a. stmt \in Int
    BY DEF LoaderTyped
  <2>3. s < stmt'
    BY <1>2, <1>4, <2>2, <2>a
  <2>4. \A t \in Patterns(block) : t < stmt' => t <= s
    BY <1>2, <1>4, <2>1, <2>2, <2>a
  <2> QED  BY <1>1, <1>2, <2>3, <2>4 DEF DraftCut
<1> QED  BY <1>3, <1>4

\* Steps that leave the patterns alone and are in none.
LEMMA QuietLoadStep ==
  ASSUME LoaderInv, CutInv, UNCHANGED <<source, block, formats>>,
         phase' \notin {"scan", "brace"},
         draft'.found = draft.found, draft'.pattern = draft.pattern,
         \/ stmt' = stmt
         \/ stmt' = stmt + 1 /\ block <= Len(source) /\ stmt \notin Patterns(block)
  PROVE  CutInv'
<1>1. DraftCut'
  BY DraftKept DEF CutInv, LoaderInv
<1>2. FormatsCut'
  BY FormatsKept DEF CutInv
<1>3. ScanCut' /\ BraceCut'
  BY DEF ScanCut, BraceCut
<1> QED  BY <1>1, <1>2, <1>3 DEF CutInv

\* The statements that are no patterns.
LEMMA DeclCut ==
  ASSUME LoaderInv, CutInv, ExtractDecl \/ CoerceDecl \/ RedactDecl
  PROVE  CutInv'
<1> USE DEF Fail
<1>1. /\ UNCHANGED <<source, block, formats>> /\ phase = "stmt"
      /\ block <= Len(source) /\ stmt <= Len(Block.stmts)
      /\ Stmt.kind \in {"extract", "coerce", "redact"}
  BY DEF ExtractDecl, CoerceDecl, RedactDecl, InBlock
<1>2. draft \in Body
  BY DEF LoaderInv, LoaderTyped
<1>3. phase' \in {"stmt", "err"}
  BY <1>1 DEF ExtractDecl, CoerceDecl, RedactDecl
<1>4. stmt' \in {stmt, stmt + 1}
  BY DEF ExtractDecl, CoerceDecl, RedactDecl
<1>5. draft'.found = draft.found /\ draft'.pattern = draft.pattern
  <2>1. \/ draft' = draft
        \/ draft' = [draft EXCEPT !.extracts = Append(@, Stmt), !.seen = @ \cup {Stmt.field}]
        \/ draft' = [draft EXCEPT !.coercions = Append(@, Stmt), !.seen = @ \cup {Stmt.field}]
        \/ draft' = [draft EXCEPT !.redactions = Append(@, Stmt)]
    BY DEF ExtractDecl, CoerceDecl, RedactDecl
  <2> QED  BY <1>2, <2>1 DEF Body
<1>6. stmt \notin Patterns(block)
  <2>1. Stmt.kind # "pattern"
    BY <1>1
  <2> QED  BY <2>1 DEF Patterns, Stmt, Block
<1> QED  BY <1>1, <1>3, <1>4, <1>5, <1>6, QuietLoadStep

\* The steps that end a pattern with an error, and the ones outside a block.
LEMMA OuterCut ==
  ASSUME LoaderInv, CutInv,
         ParseFile \/ EndFile \/ Unbalanced \/ CompileFormat \/ Compiled
  PROVE  CutInv'
<1>1. UNCHANGED <<source, block, stmt, draft, formats>>
  BY DEF ParseFile, EndFile, Unbalanced, CompileFormat, Compiled
<1>2. phase' \notin {"scan", "brace"}
  BY DEF ParseFile, EndFile, Unbalanced, CompileFormat, Compiled, Fail
<1> QED  BY <1>1, <1>2, QuietLoadStep

\* The text is the one under the cursor.
LEMMA TextKept ==
  ASSUME UNCHANGED <<source, block, stmt>>
  PROVE  UNCHANGED <<Text, Stmt, Block>>
  BY DEF Text, Stmt, Block

LEMMA PatternDeclCut ==
  ASSUME LoaderInv, CutInv, PatternDecl
  PROVE  CutInv'
<1>1. /\ UNCHANGED <<source, block, stmt, draft, formats>> /\ Stmt.kind = "pattern"
      /\ block <= Len(source) /\ stmt <= Len(Block.stmts)
      /\ i' = 1 /\ lit' = 1 /\ parts' = <<>> /\ phase' = "scan"
  BY DEF PatternDecl, InBlock
<1>2. UNCHANGED <<Text, Stmt, Block>> /\ Text \in Seq(Alphabet)
  BY <1>1, TextKept, StmtType DEF LoaderInv
<1>3. DraftCut'
  BY <1>1, DraftKept DEF CutInv, LoaderInv
<1>4. FormatsCut'
  BY <1>1, FormatsKept DEF CutInv
<1>5. ScanCut'
  <2>1. SubSeq(Text, 1, 1 - 1) = <<>>
    BY <1>2
  <2>2. IsCut(parts', SubSeq(Text', 1, lit' - 1))
    BY <1>1, <1>2, <2>1, NoCut
  <2>3. \A m \in lit' .. i' - 1 : ~Opens(Text', m)
    BY <1>1
  <2>4. ScanToks(parts', Text', lit')
    BY <1>1, <1>2, ToksStart
  <2> QED  BY <1>1, <1>2, <2>2, <2>3, <2>4 DEF ScanCut
<1>6. BraceCut'
  BY <1>1 DEF BraceCut
<1> QED  BY <1>3, <1>4, <1>5, <1>6 DEF CutInv

\* Where the tokenizer is.
LEMMA InText ==
  ASSUME LoaderInv, phase \in {"scan", "brace"}
  PROVE  /\ Text \in Seq(Alphabet) /\ Len(Text) \in Nat
         /\ i \in 1 .. Len(Text) + 1 /\ lit \in 1 .. i
         /\ phase = "brace" => i + 1 <= Len(Text) /\ j \in i + 2 .. Len(Text) + 1
         /\ block \in 1 .. Len(source) /\ stmt \in 1 .. Len(Block.stmts)
         /\ parts \in Seq(Part)
<1>1. block <= Len(source) /\ stmt <= Len(Block.stmts)
  BY DEF LoaderInv, ScanOK
<1>2. Text \in Seq(Alphabet)
  BY <1>1, StmtType DEF LoaderInv
<1>3. block \in 1 .. Len(source)
  BY <1>1 DEF LoaderInv, LoaderTyped, Tree
<1>4. stmt \in 1 .. Len(Block.stmts)
  <2>1. Block \in FormatBlock
    BY <1>3 DEF LoaderInv, LoaderTyped, Tree, Block
  <2>2. Len(Block.stmts) \in Nat
    BY <2>1 DEF FormatBlock
  <2> QED  BY <1>1, <2>2 DEF LoaderInv, LoaderTyped
<1>5. Len(Text) \in Nat
  BY <1>2
<1>6. parts \in Seq(Part)
  BY DEF LoaderInv, LoaderTyped
<1>7. /\ i \in 1 .. Len(Text) + 1 /\ lit \in 1 .. i
      /\ phase = "brace" => i + 1 <= Len(Text) /\ j \in i + 2 .. Len(Text) + 1
  BY DEF LoaderInv, ScanOK
<1> QED  BY <1>2, <1>3, <1>4, <1>5, <1>6, <1>7

LEMMA ScanLiteralCut ==
  ASSUME LoaderInv, CutInv, ScanLiteral
  PROVE  CutInv'
<1>1. /\ UNCHANGED <<source, block, stmt, draft, formats, phase, lit, parts>>
      /\ phase = "scan" /\ i' = i + 1 /\ ~Opens(Text, i)
  BY DEF ScanLiteral
<1>2. UNCHANGED <<Text, Stmt>> /\ i \in Nat /\ lit \in Nat
  BY <1>1, TextKept, InText
<1>3. DraftCut'
  BY <1>1, DraftKept DEF CutInv, LoaderInv
<1>4. FormatsCut'
  BY <1>1, FormatsKept DEF CutInv
<1>5. ScanCut'
  <2>1. \A m \in lit .. i - 1 : ~Opens(Text, m)
    BY <1>1 DEF CutInv, ScanCut
  <2>2. \A m \in lit .. (i + 1) - 1 : m = i \/ m \in lit .. i - 1
    BY <1>2
  <2>3. \A m \in lit .. (i + 1) - 1 : ~Opens(Text, m)
    BY <1>1, <2>1, <2>2
  <2> QED  BY <1>1, <1>2, <2>3 DEF CutInv, ScanCut
<1>6. BraceCut'
  BY <1>1 DEF BraceCut
<1> QED  BY <1>3, <1>4, <1>5, <1>6 DEF CutInv

LEMMA ScanCaptureCut ==
  ASSUME LoaderInv, CutInv, ScanCapture
  PROVE  CutInv'
<1>1. /\ UNCHANGED <<source, block, stmt, draft, formats, i>>
      /\ phase = "scan" /\ Opens(Text, i) /\ i <= Len(Text)
      /\ parts' = parts \o LiteralPart(lit, i) /\ depth' = 1 /\ j' = i + 2
      /\ phase' = "brace"
  BY DEF ScanCapture
<1>2. UNCHANGED <<Text, Stmt>>
  BY <1>1, TextKept
<1>a. /\ Text \in Seq(Alphabet) /\ Len(Text) \in Nat /\ parts \in Seq(Part)
      /\ i \in 1 .. Len(Text) + 1 /\ lit \in 1 .. i
  BY <1>1, InText
<1>3. DraftCut'
  BY <1>1, DraftKept DEF CutInv, LoaderInv
<1>4. FormatsCut'
  BY <1>1, FormatsKept DEF CutInv
<1>5. ScanCut'
  BY <1>1 DEF ScanCut
<1>6. IsCut(parts \o LiteralPart(lit, i), SubSeq(Text, 1, i - 1))
  <2>1. lit \in 1 .. Len(Text) + 1 /\ i \in lit .. Len(Text) + 1
    BY <1>a
  <2>2. /\ Glued(parts) = SubSeq(Text, 1, lit - 1) /\ \A k \in DOMAIN parts : WholePart(parts[k])
        /\ \A m \in lit .. i - 1 : ~Opens(Text, m)
    BY <1>1 DEF CutInv, ScanCut, IsCut
  <2> QED  BY <1>a, <2>1, <2>2, LiteralCut
<1>7. Nested(<<>>, 1)
  <2>1. Braces(<<>>, 0, LB) = 0 /\ Braces(<<>>, 0, RB) = 0
    BY BracesNone
  <2> QED  BY <2>1 DEF Nested
<1>8. SubSeq(Text, i + 2, (i + 2) - 1) = <<>>
  BY <1>a
<1>9. BraceCut'
  <2>1. Nested(SubSeq(Text', i' + 2, j' - 1), depth')
    BY <1>1, <1>2, <1>7, <1>8
  <2>2. Stmt'.kind = "pattern"
    BY <1>1, <1>2 DEF CutInv, ScanCut
  <2>3. IsCut(parts', SubSeq(Text', 1, i' - 1)) /\ Opens(Text', i')
    BY <1>1, <1>2, <1>6
  <2>4. OpenToks(parts \o LiteralPart(lit, i), Text, i)
    <3>1. /\ ScanToks(parts, Text, lit) /\ \A m \in lit .. i - 1 : ~Opens(Text, m)
          /\ i \in 1 .. Len(Text)
      BY <1>1, <1>a DEF CutInv, ScanCut
    <3> QED  BY <1>1, <1>a, <3>1, ToksOpen
  <2>5. OpenToks(parts', Text', i')
    BY <1>1, <1>2, <2>4
  <2> QED  BY <2>1, <2>2, <2>3, <2>5 DEF BraceCut
<1> QED  BY <1>3, <1>4, <1>5, <1>9 DEF CutInv

\* The step of the brace loop, with the symbols by name.
LEMMA BraceIs ==
  ASSUME Brace
  PROVE  depth' = IF Text[j] = LB THEN depth + 1 ELSE IF Text[j] = RB THEN depth - 1 ELSE depth
  BY Zenon DEF Brace, LB, RB

LEMMA BraceStepCut ==
  ASSUME LoaderInv, CutInv, Brace
  PROVE  CutInv'
<1>1. /\ UNCHANGED <<source, block, stmt, draft, formats, phase, i, parts>>
      /\ phase = "brace" /\ j <= Len(Text) /\ depth > 0 /\ j' = j + 1
  BY Zenon DEF Brace
<1>2. UNCHANGED <<Text, Stmt>>
  BY <1>1, TextKept
<1>3. /\ Text \in Seq(Alphabet) /\ Len(Text) \in Nat
      /\ i \in 1 .. Len(Text) + 1 /\ j \in i + 2 .. Len(Text) + 1
  BY <1>1, InText
<1>4. DraftCut'
  BY <1>1, DraftKept DEF CutInv, LoaderInv
<1>5. FormatsCut'
  BY <1>1, FormatsKept DEF CutInv
<1>6. ScanCut'
  BY <1>1 DEF ScanCut
<1> DEFINE t == SubSeq(Text, i + 2, j - 1)
           u == SubSeq(Text, i + 2, (j + 1) - 1)
<1>7. Nested(t, depth) /\ depth \in Nat \ {0}
  <2>1. Nested(t, depth)
    BY <1>1 DEF CutInv, BraceCut
  <2>2. depth \in Nat
    BY <2>1, Zenon DEF Nested
  <2> QED  BY <1>1, <2>1, <2>2
<1>8. i + 2 \in 1 .. Len(Text) + 1 /\ j \in i + 2 .. Len(Text) + 1 /\ j + 1 \in i + 2 .. Len(Text) + 1
  BY <1>1, <1>3
<1>9. /\ t \in Seq(Alphabet) /\ Len(t) = j - (i + 2)
      /\ \A m \in 1 .. j - (i + 2) : t[m] = Text[(i + 2) + m - 1]
  BY <1>3, <1>8, SubSeqIs
<1>10. /\ u \in Seq(Alphabet) /\ Len(u) = (j + 1) - (i + 2)
       /\ \A m \in 1 .. (j + 1) - (i + 2) : u[m] = Text[(i + 2) + m - 1]
  BY <1>3, <1>8, SubSeqIs
<1> HIDE DEF t, u
<1>11. /\ Len(u) = Len(t) + 1 /\ Len(u) \in 1 .. (j + 1) - (i + 2) /\ (i + 2) + Len(u) - 1 = j
       /\ \A m \in 1 .. Len(t) : m \in 1 .. j - (i + 2) /\ m \in 1 .. (j + 1) - (i + 2)
  BY <1>3, <1>8, <1>9, <1>10
<1>12. u[Len(u)] = Text[j] /\ \A m \in 1 .. Len(t) : u[m] = t[m]
  <2>1. u[Len(u)] = Text[(i + 2) + Len(u) - 1]
    BY <1>10, <1>11
  <2> QED  BY <1>9, <1>10, <1>11, <2>1
<1>13. depth' = IF u[Len(u)] = LB THEN depth + 1 ELSE IF u[Len(u)] = RB THEN depth - 1 ELSE depth
  BY <1>12, BraceIs
<1>14. Nested(u, depth')
  <2> DEFINE e == depth'
  <2>1. e = IF u[Len(u)] = LB THEN depth + 1 ELSE IF u[Len(u)] = RB THEN depth - 1 ELSE depth
    BY <1>13
  <2> HIDE DEF e
  <2>2. Nested(u, e)
    BY <1>7, <1>9, <1>10, <1>11, <1>12, <2>1, NestedNext
  <2> QED  BY <2>2 DEF e
<1>15. BraceCut'
  <2>1. Nested(SubSeq(Text', i' + 2, j' - 1), depth')
    BY <1>1, <1>2, <1>14 DEF u
  <2> QED  BY <1>1, <1>2, <2>1 DEF CutInv, BraceCut
<1> QED  BY <1>4, <1>5, <1>6, <1>15 DEF CutInv

LEMMA BraceClosedCut ==
  ASSUME LoaderInv, CutInv, BraceClosed
  PROVE  CutInv'
<1>1. UNCHANGED <<source, block, stmt, draft, formats>> /\ phase = "brace" /\ depth = 0
  BY DEF BraceClosed
<1>2. UNCHANGED <<Text, Stmt>>
  BY <1>1, TextKept
<1>3. CASE UnknownType(Content)
  <2>1. phase' = "err"
    BY <1>3 DEF BraceClosed, Fail
  <2> QED  BY <1>1, <2>1, QuietLoadStep
<1>4. CASE ~UnknownType(Content)
  <2> DEFINE p == [kind |-> "cap", text |-> Content]
  <2>1. parts' = Append(parts, p) /\ i' = j /\ lit' = j /\ phase' = "scan"
    BY <1>4 DEF BraceClosed
  <2>2. /\ Text \in Seq(Alphabet) /\ Len(Text) \in Nat /\ parts \in Seq(Part)
        /\ i \in 1 .. Len(Text) /\ j \in i + 2 .. Len(Text) + 1
    BY <1>1, InText
  <2>3. p \in Part
    <3>1. Content \in Seq(Alphabet)
      BY <2>2 DEF Content
    <3> QED  BY <1>4, <3>1 DEF Part
  <2>4. p = [kind |-> "cap", text |-> SubSeq(Text, i + 2, j - 2)]
    BY DEF Content
  <2> HIDE DEF p
  <2>5. /\ Glued(parts) = SubSeq(Text, 1, i - 1) /\ \A k \in DOMAIN parts : WholePart(parts[k])
        /\ Opens(Text, i) /\ Nested(SubSeq(Text, i + 2, j - 1), 0) /\ Stmt.kind = "pattern"
    BY <1>1 DEF CutInv, BraceCut, IsCut
  <2>6. IsCut(Append(parts, p), SubSeq(Text, 1, j - 1))
    BY <2>2, <2>3, <2>4, <2>5, CaptureCut
  <2>7. ScanCut'
    <3>1. \A m \in lit' .. i' - 1 : ~Opens(Text', m)
      BY <2>1, <2>2
    <3>2. OpenToks(parts, Text, i)
      BY <1>1 DEF CutInv, BraceCut
    <3>3. ScanToks(Append(parts, p), Text, j)
      BY <2>2, <2>3, <2>4, <2>5, <3>2, ToksClose
    <3> QED  BY <1>2, <2>1, <2>5, <2>6, <3>1, <3>3 DEF ScanCut
  <2>8. BraceCut'
    BY <2>1 DEF BraceCut
  <2>9. DraftCut'
    BY <1>1, DraftKept DEF CutInv, LoaderInv
  <2>10. FormatsCut'
    BY <1>1, FormatsKept DEF CutInv
  <2> QED  BY <2>7, <2>8, <2>9, <2>10 DEF CutInv
<1> QED  BY <1>3, <1>4

LEMMA ScanDoneCut ==
  ASSUME LoaderInv, CutInv, ScanDone
  PROVE  CutInv'
<1> DEFINE ps == parts \o LiteralPart(lit, Len(Text) + 1)
<1>1. /\ UNCHANGED <<source, block, formats>> /\ phase = "scan" /\ phase' = "stmt"
      /\ i > Len(Text) /\ stmt' = stmt + 1
      /\ draft' = [draft EXCEPT !.found = TRUE, !.pattern = ps]
  BY DEF ScanDone
<1>2. /\ Text \in Seq(Alphabet) /\ Len(Text) \in Nat /\ parts \in Seq(Part)
      /\ i = Len(Text) + 1 /\ lit \in 1 .. i /\ block \in 1 .. Len(source)
      /\ stmt \in 1 .. Len(Block.stmts)
  BY <1>1, InText
<1>a. SameToks(ps, Text)
  <2>1. ScanToks(parts, Text, lit) /\ \A m \in lit .. Len(Text) : ~Opens(Text, m)
    BY <1>1, <1>2 DEF CutInv, ScanCut
  <2> QED  BY <1>2, <2>1, ToksDone
<1>3. IsCut(ps, Text)
  <2> DEFINE to == Len(Text) + 1
  <2>1. lit \in 1 .. Len(Text) + 1 /\ to \in lit .. Len(Text) + 1
    BY <1>2
  <2>2. /\ Glued(parts) = SubSeq(Text, 1, lit - 1) /\ \A k \in DOMAIN parts : WholePart(parts[k])
        /\ \A m \in lit .. to - 1 : ~Opens(Text, m)
    BY <1>1, <1>2 DEF CutInv, ScanCut, IsCut
  <2>3. IsCut(parts \o LiteralPart(lit, to), SubSeq(Text, 1, to - 1))
    <3> HIDE DEF to
    <3> QED  BY <1>2, <2>1, <2>2, LiteralCut
  <2>4. SubSeq(Text, 1, to - 1) = Text
    BY <1>2
  <2> HIDE DEF to
  <2>5. IsCut(parts \o LiteralPart(lit, to), Text)
    BY <2>3, <2>4
  <2> QED  BY <2>5 DEF to
<1>4. draft'.found /\ draft'.pattern = ps
  <2> HIDE DEF ps
  <2>1. draft \in Body
    BY DEF LoaderInv, LoaderTyped
  <2> QED  BY <1>1, <2>1 DEF Body
<1> HIDE DEF ps
<1>5. Patterns(block)' = Patterns(block) /\ Patterns(block) \subseteq Nat /\ stmt \in Patterns(block)
  <2>1. Patterns(block)' = Patterns(block)
    BY <1>1 DEF Patterns
  <2>2. Patterns(block) \subseteq Nat
    BY <1>2, PatternsType DEF LoaderInv
  <2>3. Stmt.kind = "pattern"
    BY <1>1 DEF CutInv, ScanCut
  <2>4. stmt \in DOMAIN Block.stmts
    <3>1. Block \in FormatBlock
      BY <1>2 DEF LoaderInv, LoaderTyped, Tree, Block
    <3> QED  BY <1>2, <3>1 DEF FormatBlock
  <2>5. stmt \in Patterns(block)
    BY <2>3, <2>4 DEF Patterns, Stmt, Block
  <2> QED  BY <2>1, <2>2, <2>5
<1>6. DraftCut'
  <2>1. stmt \in Nat /\ stmt < stmt' /\ \A t \in Patterns(block) : t < stmt' => t <= stmt
    BY <1>1, <1>5 DEF LoaderInv, LoaderTyped
  <2>2. Taken(draft'.pattern, source'[block'].stmts[stmt].text)
    BY <1>1, <1>3, <1>4, <1>a DEF Text, Stmt, Block, Taken
  <2> QED  BY <1>5, <2>1, <2>2 DEF DraftCut
<1>7. FormatsCut'
  BY <1>1, FormatsKept DEF CutInv
<1>8. ScanCut' /\ BraceCut'
  BY <1>1 DEF ScanCut, BraceCut
<1> QED  BY <1>6, <1>7, <1>8 DEF CutInv

\* The last of the pattern statements of a block.
LEMMA LastPatternIs ==
  ASSUME NEW b, NEW s \in Patterns(b), Patterns(b) \subseteq Nat,
         \A t \in Patterns(b) : t <= s
  PROVE  LastPattern(b) = source[b].stmts[s].text
<1> DEFINE x == CHOOSE x \in Patterns(b) : \A t \in Patterns(b) : t <= x
<1>1. x \in Patterns(b) /\ \A t \in Patterns(b) : t <= x
  BY Zenon
<1>2. LastPattern(b) = source[b].stmts[x].text
  BY Zenon DEF LastPattern
<1> HIDE DEF x
<1>3. x <= s /\ s <= x /\ x \in Nat /\ s \in Nat
  BY <1>1
<1>4. x = s
  BY <1>3
<1> QED  BY <1>2, <1>4

LEMMA EndBlockCut ==
  ASSUME LoaderInv, CutInv, EndBlock
  PROVE  CutInv'
<1>1. /\ UNCHANGED source /\ phase = "stmt" /\ block <= Len(source)
      /\ stmt > Len(Block.stmts)
  BY DEF EndBlock, InBlock
<1>2. CASE Block.name \in Names \/ ~draft.found
  <2>1. phase' = "err" /\ UNCHANGED <<formats, block, stmt, draft>>
    BY <1>2 DEF EndBlock, Fail
  <2> QED  BY <1>1, <2>1, QuietLoadStep
<1>3. CASE ~(Block.name \in Names \/ ~draft.found)
  <2> DEFINE x == [name |-> Block.name, body |-> draft]
  <2>1. /\ formats' = Append(formats, x) /\ block' = block + 1 /\ stmt' = 1
        /\ draft' = Empty /\ phase' = "stmt"
    BY <1>1, <1>3 DEF EndBlock
  <2>2. ScanCut' /\ BraceCut'
    BY <2>1 DEF ScanCut, BraceCut
  <2>3. DraftCut'
    BY <2>1 DEF DraftCut, Empty
  <2>4. /\ formats \in Seq(Parsed) /\ Len(formats) = block - 1 /\ block \in 1 .. Len(source)
        /\ Len(source) \in Nat
    BY <1>1 DEF LoaderInv, LoaderTyped, FormatsOK, Tree
  <2>5. x \in Parsed /\ x.body.pattern = draft.pattern
    <3>1. Block \in FormatBlock /\ draft \in Body
      BY <2>4 DEF LoaderInv, LoaderTyped, Tree, Block
    <3> QED  BY <3>1 DEF Parsed, FormatBlock
  <2> HIDE DEF x
  <2>6. Taken(draft.pattern, LastPattern(block))
    <3>1. PICK s \in Patterns(block) :
            /\ s < stmt /\ \A t \in Patterns(block) : t < stmt => t <= s
            /\ Taken(draft.pattern, source[block].stmts[s].text)
      BY <1>3 DEF CutInv, DraftCut
    <3>2. Patterns(block) \subseteq 1 .. Len(Block.stmts) /\ Patterns(block) \subseteq Nat
      BY <2>4, PatternsType DEF LoaderInv, Block
    <3>3. Len(Block.stmts) \in Nat /\ stmt \in Nat
      <4>1. Block \in FormatBlock
        BY <2>4 DEF LoaderInv, LoaderTyped, Tree, Block
      <4> QED  BY <4>1 DEF FormatBlock, LoaderInv, LoaderTyped
    <3>4. \A t \in Patterns(block) : t <= s
      <4> TAKE t \in Patterns(block)
      <4>1. t < stmt
        BY <1>1, <3>2, <3>3
      <4> QED  BY <3>1, <4>1
    <3>5. LastPattern(block) = source[block].stmts[s].text
      BY <3>2, <3>4, LastPatternIs
    <3> QED  BY <3>1, <3>5
  <2>7. /\ DOMAIN formats' = 1 .. block /\ formats'[block] = x
        /\ \A f \in 1 .. block - 1 : formats'[f] = formats[f] /\ f \in DOMAIN formats
    BY <2>1, <2>4, <2>5
  <2>8. \A f : LastPattern(f)' = LastPattern(f)
    BY <1>1 DEF LastPattern, Patterns
  <2>9. ASSUME NEW f \in 1 .. block PROVE Taken(formats'[f].body.pattern, LastPattern(f))
    <3>1. CASE f = block
      BY <2>5, <2>6, <2>7, <3>1
    <3>2. CASE f # block
      <4>1. f \in 1 .. block - 1
        BY <2>4, <3>2
      <4> QED  BY <2>7, <4>1 DEF CutInv, FormatsCut
    <3> QED  BY <3>1, <3>2
  <2>10. FormatsCut'
    BY <2>7, <2>8, <2>9 DEF FormatsCut
  <2> QED  BY <2>2, <2>3, <2>10 DEF CutInv
<1> QED  BY <1>2, <1>3

\* Before the first line of a text.
LEMMA FreshCut ==
  ASSUME phase \in {"idle", "file"}, draft = Empty, formats = <<>>
  PROVE  CutInv
<1>1. DraftCut
  BY DEF DraftCut, Empty
<1>2. ScanCut /\ BraceCut
  BY DEF ScanCut, BraceCut
<1>3. FormatsCut
  BY DEF FormatsCut
<1> QED  BY <1>1, <1>2, <1>3 DEF CutInv

LEMMA RestartCut ==
  ASSUME NEW text, NEW p \in {"idle", "file"}, Restart(text, p)
  PROVE  CutInv'
<1>1. phase' \in {"idle", "file"} /\ draft' = Empty /\ formats' = <<>>
  BY DEF Restart
<1>2. DraftCut'
  BY <1>1 DEF DraftCut, Empty
<1>3. ScanCut' /\ BraceCut'
  BY <1>1 DEF ScanCut, BraceCut
<1>4. FormatsCut'
  BY <1>1 DEF FormatsCut
<1> QED  BY <1>2, <1>3, <1>4 DEF CutInv

LEMMA CutKept ==
  ASSUME LoaderInv, CutInv, UNCHANGED vars
  PROVE  CutInv'
<1>1. UNCHANGED <<source, phase, block, stmt, draft, i, lit, j, depth, parts, formats>>
  BY DEF vars, tokenVars
<1>2. UNCHANGED <<Text, Stmt>>
  BY <1>1, TextKept
<1>3. DraftCut'
  BY <1>1, DraftKept DEF CutInv, LoaderInv
<1>4. FormatsCut'
  BY <1>1, FormatsKept DEF CutInv
<1>5. ScanCut' /\ BraceCut'
  BY <1>1, <1>2 DEF CutInv, ScanCut, BraceCut
<1> QED  BY <1>3, <1>4, <1>5 DEF CutInv

LEMMA LoadCut ==
  ASSUME LoaderInv, CutInv, Load
  PROVE  CutInv'
  BY DeclCut, OuterCut, PatternDeclCut, ScanLiteralCut, ScanCaptureCut, BraceStepCut,
     BraceClosedCut, ScanDoneCut, EndBlockCut, Zenon DEF Load

\* What the program does to the loader: nothing, a step, or a new text.
LEMMA LoaderSteps ==
  ASSUME [InferenceNext]_allVars
  PROVE  UNCHANGED vars \/ Load \/ \E text : \E p \in {"idle", "file"} : Restart(text, p)
<1>1. CASE ReadArgs \/ ReadSamples \/ NoApiKey \/ AnswerFails
  BY <1>1, Zenon DEF ReadArgs, ReadSamples, NoApiKey, AnswerFails, Exit, Goto
<1>2. CASE Ask \/ Accepted
  BY <1>2, Zenon DEF Ask, Accepted
<1>3. CASE AskMock
  BY <1>3, Zenon DEF AskMock
<1>4. CASE Answer
  BY <1>4, Zenon DEF Answer
<1>5. CASE Validate
  BY <1>5, Zenon DEF Validate
<1>6. CASE Rejected
  BY <1>6, Zenon DEF Rejected
<1>7. CASE UNCHANGED allVars
  BY <1>7, Zenon DEF allVars
<1> QED
  BY <1>1, <1>2, <1>3, <1>4, <1>5, <1>6, <1>7, Zenon
  DEF InferenceNext, Own, Provided, Done

LEMMA CutStep ==
  ASSUME ClientInv, CutInv, [InferenceNext]_allVars
  PROVE  CutInv'
<1>1. LoaderInv
  BY DEF ClientInv
<1> QED  BY <1>1, LoaderSteps, CutKept, LoadCut, RestartCut

-----------------------------------------------------------------------------
(* The two walks over the parsed formats *)

\* What both make of a format.
Built(f, seg(_)) ==
  [name |-> f.name, segs |-> [k \in DOMAIN f.body.pattern |-> seg(f.body.pattern[k])],
   coercions |-> f.body.coercions, redactions |-> f.body.redactions]

HasUnsupported(f) == \E k \in DOMAIN f.body.pattern : Unsupported(f.body.pattern[k])

\* What is compiled is built, and an unsupported name is the reason for its error.
BuiltInv ==
  /\ \A f \in DOMAIN compiled :
       compiled[f] = Built(formats[f], CompileSegment) /\ ~HasUnsupported(formats[f])
  /\ phase = "err" /\ error = "UnsupportedGrok" =>
       \E f \in DOMAIN formats : HasUnsupported(formats[f])

LEMMA SameType ==
  \A s : GeneratedType(ParseCapture(s)) = CaptureType(ParseCapture(s))
<1> TAKE s
<1> DEFINE c == ParseCapture(s)
<1>1. c.grok \in BOOLEAN
  BY DEF ParseCapture
<1> HIDE DEF c
<1>2. GeneratedType(c) = CaptureType(c)
  BY <1>1 DEF GeneratedType, CaptureType
<1> QED  BY <1>2 DEF c

LEMMA SameField ==
  \A s : (IF ParseCapture(s).grok THEN ParseCapture(s).field ELSE ParseCapture(s).name)
           = ParseCapture(s).field
  BY DEF ParseCapture

LEMMA SameSegment == \A part : GeneratedSegment(part) = CompileSegment(part)
<1> TAKE part
<1> DEFINE c == ParseCapture(part.text)
<1>1. GeneratedType(c) = CaptureType(c)
  BY SameType
<1>2. (IF c.grok THEN c.field ELSE c.name) = c.field
  BY SameField
<1> HIDE DEF c
<1>3. Capture(IF c.grok THEN c.field ELSE c.name, GeneratedType(c)) = Capture(c.field, CaptureType(c))
  BY <1>1, <1>2
<1> QED  BY <1>3, Zenon DEF GeneratedSegment, CompileSegment, c

\* generate_rust fails where compile fails.
LEMMA GenerateIs ==
  GenerateRust(formats) =
    IF \E f \in DOMAIN formats : HasUnsupported(formats[f])
    THEN [ok |-> FALSE, formats |-> <<>>]
    ELSE [ok |-> TRUE, formats |-> [f \in DOMAIN formats |-> Built(formats[f], GeneratedSegment)]]
<1>1. \A p : (p.kind = "cap" /\ GeneratedType(ParseCapture(p.text)) = "none") <=> Unsupported(p)
  BY SameType DEF Unsupported
<1>2. (\E f \in DOMAIN formats : \E k \in DOMAIN formats[f].body.pattern :
          /\ formats[f].body.pattern[k].kind = "cap"
          /\ GeneratedType(ParseCapture(formats[f].body.pattern[k].text)) = "none")
       <=> \E f \in DOMAIN formats : HasUnsupported(formats[f])
  BY <1>1 DEF HasUnsupported
<1> QED  BY <1>2, Zenon DEF GenerateRust, Built

LEMMA GeneratedAsBuilt ==
  ASSUME LoaderInv, BuiltInv
  PROVE  GeneratorAgrees
<1>1. ASSUME phase = "ok" PROVE GenerateRust(formats) = [ok |-> TRUE, formats |-> compiled]
  <2>1. PICK S : compiled \in Seq(S)
    BY DEF LoaderInv, CompiledOK
  <2>2. Len(compiled) = Len(formats) /\ formats \in Seq(Parsed)
    BY <1>1 DEF LoaderInv, CompiledOK, LoaderTyped
  <2>3. DOMAIN compiled = DOMAIN formats /\ compiled = [f \in DOMAIN compiled |-> compiled[f]]
    BY <2>1, <2>2
  <2>4. ~\E f \in DOMAIN formats : HasUnsupported(formats[f])
    BY <2>3 DEF BuiltInv
  <2>5. ASSUME NEW f \in DOMAIN formats PROVE Built(formats[f], GeneratedSegment) = compiled[f]
    <3>1. compiled[f] = Built(formats[f], CompileSegment)
      BY <2>3 DEF BuiltInv
    <3> DEFINE ps == formats[f].body.pattern
    <3>2. [k \in DOMAIN ps |-> GeneratedSegment(ps[k])] = [k \in DOMAIN ps |-> CompileSegment(ps[k])]
      <4> HIDE DEF ps
      <4> QED  BY SameSegment
    <3> QED  BY <3>1, <3>2, Zenon DEF Built
  <2>6. [f \in DOMAIN formats |-> Built(formats[f], GeneratedSegment)] = compiled
    BY <2>3, <2>5
  <2> QED  BY <2>4, <2>6, GenerateIs, Zenon
<1>2. ASSUME phase = "err", error = "UnsupportedGrok" PROVE ~GenerateRust(formats).ok
  <2>1. GenerateRust(formats) = [ok |-> FALSE, formats |-> <<>>]
    BY <1>2, GenerateIs, Zenon DEF BuiltInv
  <2> QED  BY <2>1
<1> QED  BY <1>1, <1>2 DEF GeneratorAgrees

\* Steps before compile.
LEMMA BuiltEarly ==
  ASSUME BuiltInv, compiled' = <<>>, error' # "UnsupportedGrok" \/ phase' # "err"
  PROVE  BuiltInv'
<1>1. DOMAIN compiled' = {}
  OBVIOUS
<1> QED  BY <1>1 DEF BuiltInv

LEMMA BuiltStep ==
  ASSUME LoaderInv, BuiltInv, Load
  PROVE  BuiltInv'
<1> USE DEF Fail
<1>1. CASE ParseFile \/ PatternDecl \/ ExtractDecl \/ CoerceDecl \/ RedactDecl \/ EndBlock
  <2>1. /\ phase \in {"file", "stmt"} /\ compiled' = compiled
        /\ phase' = "err" => error' \in {"Parse", "DuplicateField", "DuplicateFormat", "MissingPattern"}
    BY <1>1 DEF ParseFile, PatternDecl, ExtractDecl, CoerceDecl, RedactDecl, EndBlock, InBlock
  <2>2. compiled = <<>>
    BY <2>1 DEF LoaderInv, CompiledOK
  <2> QED  BY <2>1, <2>2, BuiltEarly
<1>2. CASE EndFile \/ ScanLiteral \/ ScanCapture \/ Unbalanced \/ BraceClosed \/ ScanDone
  <2>1. /\ phase \in {"stmt", "scan", "brace"} /\ compiled' = compiled
        /\ phase' = "err" => error' \in {"Parse", "UnknownType"}
    BY <1>2 DEF EndFile, ScanLiteral, ScanCapture, Unbalanced, BraceClosed, ScanDone
  <2>2. compiled = <<>>
    BY <2>1 DEF LoaderInv, CompiledOK
  <2> QED  BY <2>1, <2>2, BuiltEarly
<1>3. CASE Brace
  <2>1. phase = "brace" /\ phase' = phase /\ compiled' = compiled
    BY <1>3, Zenon DEF Brace
  <2>2. compiled = <<>>
    BY <2>1 DEF LoaderInv, CompiledOK
  <2> QED  BY <2>1, <2>2, BuiltEarly
<1>4. CASE Compiled
  <2>1. phase' = "ok" /\ UNCHANGED <<formats, compiled>>
    BY <1>4 DEF Compiled
  <2> QED  BY <2>1 DEF BuiltInv
<1>5. CASE CompileFormat
  <2> DEFINE n == Len(compiled)
             f == formats[n + 1]
             x == Built(f, CompileSegment)
  <2>1. /\ phase = "compile" /\ n < Len(formats) /\ formats' = formats
        /\ IF HasUnsupported(f)
           THEN phase' = "err" /\ error' = "UnsupportedGrok" /\ compiled' = compiled
           ELSE compiled' = Append(compiled, x) /\ phase' = phase
    BY <1>5 DEF CompileFormat, HasUnsupported, Built
  <2>2. PICK S : compiled \in Seq(S)
    BY DEF LoaderInv, CompiledOK
  <2>3. n \in Nat /\ n + 1 \in DOMAIN formats /\ DOMAIN compiled = 1 .. n
    BY <2>1, <2>2 DEF LoaderInv, LoaderTyped
  <2>4. CASE HasUnsupported(f)
    BY <2>1, <2>3, <2>4 DEF BuiltInv
  <2>5. CASE ~HasUnsupported(f)
    <3>1. compiled' = Append(compiled, x) /\ phase' = "compile"
      BY <2>1, <2>5
    <3>2. /\ DOMAIN compiled' = 1 .. n + 1 /\ compiled'[n + 1] = x
          /\ \A g \in 1 .. n : compiled'[g] = compiled[g]
      <4>1. compiled \in Seq(S \cup {x}) /\ x \in S \cup {x}
        BY <2>2
      <4> HIDE DEF x
      <4> QED  BY <3>1, <4>1
    <3>3. ASSUME NEW g \in 1 .. n + 1
          PROVE  compiled'[g] = Built(formats[g], CompileSegment) /\ ~HasUnsupported(formats[g])
      <4>1. CASE g = n + 1
        BY <2>5, <3>2, <4>1
      <4>2. CASE g # n + 1
        <5>1. g \in DOMAIN compiled
          BY <2>3, <4>2
        <5> QED  BY <2>3, <3>2, <5>1 DEF BuiltInv
      <4> QED  BY <4>1, <4>2
    <3>4. phase' # "err"
      BY <3>1
    <3> QED  BY <2>1, <3>2, <3>3, <3>4 DEF BuiltInv
  <2> QED  BY <2>4, <2>5
<1> QED  BY <1>1, <1>2, <1>3, <1>4, <1>5, Zenon DEF Load

LEMMA BuiltNext ==
  ASSUME ClientInv, BuiltInv, [InferenceNext]_allVars
  PROVE  BuiltInv'
<1>1. ASSUME UNCHANGED vars PROVE BuiltInv'
  <2>1. UNCHANGED <<phase, formats, compiled, error>>
    BY <1>1 DEF vars
  <2> QED  BY <2>1 DEF BuiltInv
<1>2. ASSUME NEW text, NEW p \in {"idle", "file"}, Restart(text, p) PROVE BuiltInv'
  <2>1. compiled' = <<>> /\ phase' # "err"
    BY <1>2 DEF Restart
  <2> QED  BY <2>1, BuiltEarly
<1> QED  BY <1>1, <1>2, LoaderSteps, BuiltStep DEF ClientInv

-----------------------------------------------------------------------------
(* The expansion of Grok names *)

Strings == STRING
Chains == Seq(Seq(Strings))

ExpandBody(f, chain) ==
  LET name == Last(chain) IN
  IF \E k \in 1 .. Len(chain) - 1 : chain[k] = name THEN "Cycle"
  ELSE IF Len(chain) > MaxDepth THEN "TooDeep"
  ELSE IF Lookup(name) = {} THEN "UnknownPattern"
  ELSE LET refs == CHOOSE r \in Lookup(name) : TRUE IN
       FirstError([k \in DOMAIN refs |-> f[Append(chain, refs[k])]])

LEMMA ComposedIs ==
  /\ DOMAIN Composed = {"NUMBER", "IP", "USER"}
  /\ Composed["NUMBER"] = <<<<"BASE10NUM">>>>
  /\ Composed["IP"] = <<<<"IPV6">>, <<"IPV4">>>>
  /\ Composed["USER"] = <<<<"USERNAME">>>>
  BY DEF Composed

\* The names of the library are words.
LEMMA NamesIn ==
  /\ \A w \in Plain : w \in Strings
  /\ \A w \in DOMAIN Composed : w \in Strings
  BY LibraryAssumption, Zenon DEF Strings

LEMMA PlainNames ==
  /\ "BASE10NUM" \in Plain /\ "IPV6" \in Plain /\ "IPV4" \in Plain /\ "USERNAME" \in Plain
  /\ \A w \in {"BASE10NUM", "IPV6", "IPV4", "USERNAME"} : w \notin DOMAIN Composed
  BY ComposedIs DEF Plain

LEMMA RefsType ==
  ASSUME NEW w \in DOMAIN Composed
  PROVE  /\ Composed[w] \in Chains
         /\ \A k \in DOMAIN Composed[w] :
              \E v \in Plain : v \notin DOMAIN Composed /\ Composed[w][k] = <<v>>
<1>1. \A v \in Plain : <<v>> \in Seq(Strings)
  BY NamesIn
<1>2. /\ <<"BASE10NUM">> \in Seq(Strings) /\ <<"IPV6">> \in Seq(Strings)
      /\ <<"IPV4">> \in Seq(Strings) /\ <<"USERNAME">> \in Seq(Strings)
  BY <1>1, PlainNames, Zenon
<1>3. CASE w = "NUMBER"
  <2>1. Composed[w] = <<<<"BASE10NUM">>>>
    BY <1>3, ComposedIs
  <2>2. Composed[w] \in Chains
    BY <1>2, <2>1 DEF Chains
  <2>3. \A k \in DOMAIN Composed[w] : Composed[w][k] = <<"BASE10NUM">>
    BY <2>1
  <2> QED  BY <2>2, <2>3, PlainNames
<1>4. CASE w = "USER"
  <2>1. Composed[w] = <<<<"USERNAME">>>>
    BY <1>4, ComposedIs
  <2>2. Composed[w] \in Chains
    BY <1>2, <2>1 DEF Chains
  <2>3. \A k \in DOMAIN Composed[w] : Composed[w][k] = <<"USERNAME">>
    BY <2>1
  <2> QED  BY <2>2, <2>3, PlainNames
<1>5. CASE w = "IP"
  <2>1. Composed[w] = <<<<"IPV6">>, <<"IPV4">>>>
    BY <1>5, ComposedIs
  <2>2. Composed[w] \in Chains
    BY <1>2, <2>1 DEF Chains
  <2>3. \A k \in DOMAIN Composed[w] : Composed[w][k] = <<"IPV6">> \/ Composed[w][k] = <<"IPV4">>
    BY <2>1
  <2> QED  BY <2>2, <2>3, PlainNames
<1> QED  BY <1>3, <1>4, <1>5, ComposedIs

\* What a pattern refers to.
LEMMA LookupType ==
  ASSUME NEW name, Lookup(name) # {}
  PROVE  (CHOOSE r \in Lookup(name) : TRUE) \in Chains
<1>1. ASSUME NEW r \in Lookup(name) PROVE r \in Chains
  <2>1. CASE name[1] \in DOMAIN Composed
    <3>1. Lookup(name) = {Composed[name[1]]}
      BY <1>1, <2>1 DEF Lookup
    <3> QED  BY <1>1, <2>1, <3>1, RefsType
  <2>2. CASE name[1] \notin DOMAIN Composed
    <3>1. r = <<>>
      BY <1>1, <2>2 DEF Lookup
    <3> QED  BY <3>1 DEF Chains
  <2> QED  BY <2>1, <2>2
<1> QED  BY <1>1

LEMMA ExpandSame ==
  ASSUME NEW c \in Chains, NEW f, NEW g,
         Len(c) <= MaxDepth => \A r \in Seq(Strings) : f[Append(c, r)] = g[Append(c, r)]
  PROVE  ExpandBody(f, c) = ExpandBody(g, c)
<1> DEFINE name == Last(c)
           refs == CHOOSE r \in Lookup(name) : TRUE
<1>1. CASE ~(Len(c) > MaxDepth) /\ Lookup(name) # {}
  <2>1. refs \in Seq(Seq(Strings))
    BY <1>1, LookupType, Zenon DEF Chains
  <2>2. Len(c) <= MaxDepth
    BY <1>1 DEF MaxDepth, Chains
  <2> HIDE DEF refs
  <2>3. \A k \in DOMAIN refs : refs[k] \in Seq(Strings)
    BY <2>1
  <2>4. [k \in DOMAIN refs |-> f[Append(c, refs[k])]] = [k \in DOMAIN refs |-> g[Append(c, refs[k])]]
    BY <2>2, <2>3
  <2> QED  BY <2>4, Zenon DEF ExpandBody, refs
<1>2. CASE Len(c) > MaxDepth
  BY <1>2, Zenon DEF ExpandBody
<1>3. CASE Lookup(name) = {}
  BY <1>3, Zenon DEF ExpandBody
<1> QED  BY <1>1, <1>2, <1>3

\* expand_ref is defined on every chain: the depth is limited.
LEMMA ExpandExists == \E f : f = [c \in Chains |-> ExpandBody(f, c)]
<1> DEFINE Deep(n) == {c \in Chains : Len(c) + n > MaxDepth}
           Good(n) == \E f : f = [c \in Deep(n) |-> ExpandBody(f, c)]
           Bad == {n \in Nat : ~Good(n)}
<1>0. \A c \in Chains : Len(c) \in Nat
  BY DEF Chains
<1>1. Good(0)
  <2> DEFINE f == [c \in Deep(0) |-> ExpandBody({}, c)]
  <2>1. ASSUME NEW c \in Deep(0) PROVE ExpandBody(f, c) = ExpandBody({}, c)
    <3>1. c \in Chains /\ ~(Len(c) <= MaxDepth)
      BY <1>0 DEF MaxDepth
    <3> HIDE DEF f
    <3> QED  BY <3>1, ExpandSame
  <2>2. f = [c \in Deep(0) |-> ExpandBody(f, c)]
    BY <2>1
  <2> HIDE DEF f, Deep
  <2> QED  BY <2>2, Zenon
<1>2. ASSUME NEW n \in Nat, Good(n) PROVE Good(n + 1)
  <2>1. PICK g : g = [c \in Deep(n) |-> ExpandBody(g, c)]
    BY <1>2, Zenon
  <2> DEFINE f == [c \in Deep(n + 1) |-> ExpandBody(g, c)]
  <2>2. ASSUME NEW c \in Deep(n + 1) PROVE ExpandBody(f, c) = ExpandBody(g, c)
    <3>1. c \in Chains
      OBVIOUS
    <3>2. ASSUME NEW r \in Seq(Strings) PROVE f[Append(c, r)] = g[Append(c, r)]
      <4> DEFINE d == Append(c, r)
      <4>1. d \in Deep(n) /\ d \in Deep(n + 1)
        <5>1. d \in Chains /\ Len(d) = Len(c) + 1 /\ Len(c) \in Nat
          BY <3>1, <3>2 DEF Chains
        <5> HIDE DEF d
        <5> QED  BY <5>1 DEF MaxDepth
      <4> HIDE DEF d, Deep
      <4>2. f[d] = ExpandBody(g, d)
        BY <4>1
      <4>3. g[d] = ExpandBody(g, d)
        BY <2>1, <4>1
      <4> QED  BY <4>2, <4>3 DEF d
    <3> HIDE DEF f
    <3> QED  BY <3>1, <3>2, ExpandSame
  <2>3. f = [c \in Deep(n + 1) |-> ExpandBody(f, c)]
    BY <2>2
  <2> HIDE DEF f, Deep
  <2> QED  BY <2>3, Zenon
<1> HIDE DEF Good
<1>3. \A n \in Nat : Good(n)
  <2> SUFFICES ASSUME Bad # {} PROVE FALSE
    OBVIOUS
  <2>1. PICK n \in Bad : \A y \in Bad : ~(<<y, n>> \in OpToRel(<, Nat))
    BY WFMin, NatLessThanWellFounded
  <2>2. n \in Nat /\ ~Good(n) /\ \A y \in Bad : ~(y < n)
    BY <2>1 DEF OpToRel
  <2>3. n # 0
    BY <1>1, <2>2
  <2>4. n - 1 \in Nat /\ n - 1 < n /\ (n - 1) + 1 = n
    BY <2>2, <2>3
  <2>5. Good(n - 1)
    BY <2>2, <2>4
  <2>6. Good((n - 1) + 1)
    BY <1>2, <2>4, <2>5
  <2> QED  BY <2>2, <2>4, <2>6
<1>4. Good(MaxDepth + 1)
  BY <1>3 DEF MaxDepth
<1>5. Deep(MaxDepth + 1) = Chains
  BY <1>0 DEF MaxDepth
<1>6. PICK f : f = [c \in Deep(MaxDepth + 1) |-> ExpandBody(f, c)]
  <2> HIDE DEF Deep
  <2> QED  BY <1>4, Zenon DEF Good
<1>7. f = [c \in Chains |-> ExpandBody(f, c)]
  <2> HIDE DEF Deep
  <2> QED  BY <1>5, <1>6
<1> QED  BY <1>7, Zenon

LEMMA ExpandIs ==
  ASSUME NEW c \in Chains
  PROVE  ExpandRef[c] = ExpandBody(ExpandRef, c)
<1> DEFINE f == CHOOSE f : f = [d \in Chains |-> ExpandBody(f, d)]
<1>1. f = [d \in Chains |-> ExpandBody(f, d)]
  BY ExpandExists, Zenon
<1>2. ExpandRef = f
  BY Zenon DEF ExpandRef, Chains, Strings, ExpandBody
<1> HIDE DEF f
<1>3. f[c] = ExpandBody(f, c)
  BY <1>1
<1> QED  BY <1>2, <1>3

LEMMA FirstErrorNone ==
  ASSUME NEW g, \A k \in DOMAIN g : g[k] = "none"
  PROVE  FirstError(g) = "none"
<1>1. {k \in DOMAIN g : g[k] # "none"} = {}
  OBVIOUS
<1> QED  BY <1>1, Zenon DEF FirstError

\* A plain pattern expands, and so does one made of plain patterns.
LEMMA PlainExpands ==
  ASSUME NEW c \in Chains, NEW w \in Plain, w \notin DOMAIN Composed,
         Len(c) \in 1 .. 2, c[Len(c)] = <<w>>,
         \A k \in 1 .. Len(c) - 1 : c[k] # <<w>>
  PROVE  ExpandRef[c] = "none"
<1> DEFINE name == <<w>>
<1>1. Last(c) = name
  BY DEF Last
<1>2. Lookup(name) = {<<>>}
  BY DEF Lookup
<1>3. ~(Len(c) > MaxDepth)
  BY DEF MaxDepth
<1>4. (CHOOSE r \in Lookup(name) : TRUE) = <<>>
  BY <1>2
<1>5. FirstError([k \in DOMAIN <<>> |-> ExpandRef[Append(c, <<>>[k])]]) = "none"
  <2> DEFINE g == [k \in DOMAIN <<>> |-> ExpandRef[Append(c, <<>>[k])]]
  <2>1. \A k \in DOMAIN g : g[k] = "none"
    OBVIOUS
  <2> HIDE DEF g
  <2>2. FirstError(g) = "none"
    BY <2>1, FirstErrorNone
  <2> QED  BY <2>2 DEF g
<1>6. ~\E k \in 1 .. Len(c) - 1 : c[k] = name
  OBVIOUS
<1>7. Lookup(name) # {}
  BY <1>2
<1> HIDE DEF name
<1>8. ExpandBody(ExpandRef, c) = "none"
  BY <1>1, <1>3, <1>4, <1>5, <1>6, <1>7 DEF ExpandBody
<1> QED  BY <1>8, ExpandIs

LEMMA ComposedExpands ==
  ASSUME NEW w \in DOMAIN Composed
  PROVE  ExpandRef[<<<<w>>>>] = "none"
<1> DEFINE name == <<w>>
           c == <<name>>
           refs == Composed[w]
<1>1. /\ refs \in Chains
      /\ \A k \in DOMAIN refs : \E v \in Plain : v \notin DOMAIN Composed /\ refs[k] = <<v>>
  BY RefsType
<1>2. w \in Strings
  BY NamesIn
<1>3. name \in Seq(Strings) /\ c \in Chains /\ Len(c) = 1 /\ c[1] = name
  BY <1>2 DEF Chains
<1>4. Last(c) = name
  BY <1>3 DEF Last
<1>5. Lookup(name) = {refs}
  BY DEF Lookup
<1>6. (CHOOSE r \in Lookup(name) : TRUE) = refs
  <2> HIDE DEF name, refs
  <2> QED  BY <1>5
<1> HIDE DEF refs
<1>7. ASSUME NEW k \in DOMAIN refs PROVE ExpandRef[Append(c, refs[k])] = "none"
  <2>1. PICK v \in Plain : v \notin DOMAIN Composed /\ refs[k] = <<v>>
    BY <1>1
  <2> DEFINE d == Append(c, <<v>>)
  <2>2. <<v>> \in Seq(Strings)
    <3>1. v \in Strings
      BY NamesIn
    <3> QED  BY <3>1
  <2>3. name # <<v>>
    BY <2>1
  <2> HIDE DEF name
  <2>4. d \in Chains /\ Len(d) = 2 /\ d[2] = <<v>> /\ d[1] = name
    BY <1>3, <2>2 DEF Chains
  <2> HIDE DEF d
  <2>5. \A m \in 1 .. Len(d) - 1 : d[m] # <<v>>
    <3> TAKE m \in 1 .. Len(d) - 1
    <3>1. m = 1
      BY <2>4
    <3> QED  BY <2>3, <2>4, <3>1
  <2>6. Len(d) \in 1 .. 2 /\ d[Len(d)] = <<v>>
    BY <2>4
  <2>7. ExpandRef[d] = "none"
    BY <2>1, <2>4, <2>5, <2>6, PlainExpands
  <2> QED  BY <2>1, <2>7 DEF d
<1>8. FirstError([k \in DOMAIN refs |-> ExpandRef[Append(c, refs[k])]]) = "none"
  <2> DEFINE g == [k \in DOMAIN refs |-> ExpandRef[Append(c, refs[k])]]
  <2>1. \A k \in DOMAIN g : g[k] = "none"
    <3> HIDE DEF c
    <3> QED  BY <1>7
  <2> HIDE DEF g
  <2>2. FirstError(g) = "none"
    BY <2>1, FirstErrorNone
  <2> QED  BY <2>2 DEF g
<1>9. ~(Len(c) > MaxDepth) /\ ~\E k \in 1 .. Len(c) - 1 : c[k] = name
  <2> HIDE DEF c, name
  <2> QED  BY <1>3 DEF MaxDepth
<1>10. Lookup(name) # {}
  BY <1>5
<1> HIDE DEF c, name
<1>11. ExpandBody(ExpandRef, c) = "none"
  BY <1>4, <1>6, <1>8, <1>9, <1>10 DEF ExpandBody
<1>12. ExpandRef[c] = "none"
  BY <1>3, <1>11, ExpandIs
<1> QED  BY <1>12 DEF c, name

\* The names that have a native type are in the library, FLOAT apart.
LEMMA NativeInLibrary ==
  ASSUME NEW name, GrokNativeType(name) # "none", name # <<"FLOAT">>
  PROVE  \E w : name = <<w>> /\ (w \in DOMAIN Composed \/ w \in Plain)
<1> DEFINE all == {"INT", "NUMBER", "BASE10NUM", "POSINT", "NONNEGINT", "PORT", "BASE16NUM",
                   "FLOAT", "BASE16FLOAT", "IPV4", "IPV6", "IP", "MAC",
                   "WORD", "NOTSPACE", "DATA", "GREEDYDATA", "QS", "HOSTNAME", "USERNAME",
                   "USER", "EMAILADDRESS", "SPACE", "MONTH", "MONTHDAY", "YEAR", "HOUR",
                   "MINUTE", "SECOND", "TIME", "MONTHNUM", "MONTHNUM2", "ISO8601_SECOND"}
<1>1. PICK w \in all : name = <<w>>
  BY DEF GrokNativeType
<1>2. w # "FLOAT"
  BY <1>1
<1>3. w \in DOMAIN Composed \/ w \in Plain
  BY <1>1, <1>2, ComposedIs DEF Plain
<1> QED  BY <1>1, <1>3, Zenon

LEMMA NativeExpands ==
  ASSUME NEW name, GrokNativeType(name) # "none", name # <<"FLOAT">>
  PROVE  ExpandRef[<<name>>] = "none"
<1>1. PICK w : name = <<w>> /\ (w \in DOMAIN Composed \/ w \in Plain)
  BY NativeInLibrary
<1>2. CASE w \in DOMAIN Composed
  BY <1>1, <1>2, ComposedExpands
<1>3. CASE w \notin DOMAIN Composed
  <2> DEFINE c == <<name>>
  <2>1. w \in Strings
    BY <1>1, <1>3, NamesIn
  <2>2. c \in Chains /\ Len(c) = 1 /\ c[1] = <<w>>
    BY <1>1, <2>1 DEF Chains
  <2> HIDE DEF c
  <2>3. Len(c) \in 1 .. 2 /\ c[Len(c)] = <<w>> /\ \A k \in 1 .. Len(c) - 1 : c[k] # <<w>>
    BY <2>2
  <2>4. ExpandRef[c] = "none"
    BY <1>1, <1>3, <2>2, <2>3, PlainExpands
  <2> QED  BY <2>4 DEF c
<1> QED  BY <1>2, <1>3

-----------------------------------------------------------------------------
(* The two tokenizers *)

\* The same cut: the parts are the tokens.
LEMMA SameCut ==
  ASSUME NEW ps \in Seq(Part), NEW s, SameToks(ps, s), ~HasWide(ps)
  PROVE  /\ Tokens(s) = AsTokens(ps) /\ Len(Tokens(s)) = Len(ps)
         /\ DOMAIN Tokens(s) = 1 .. Len(ps) /\ DOMAIN ps = 1 .. Len(ps)
         /\ \A k \in 1 .. Len(ps) :
              /\ Tokens(s)[k] = Token(ps[k])
              /\ ps[k].kind = Tokens(s)[k].kind /\ ps[k].text = Tokens(s)[k].text
<1>1. AsTokens(ps) \in Seq(Tok) /\ Len(AsTokens(ps)) = Len(ps)
      /\ \A k \in 1 .. Len(ps) : AsTokens(ps)[k] = Token(ps[k])
  BY AsTokensType
<1>2. Tokens(s) = AsTokens(ps) \o <<>>
  BY Zenon DEF SameToks, Follows
<1> DEFINE a == AsTokens(ps)
<1>3. Tokens(s) = a
  <2> HIDE DEF a
  <2>1. a \in Seq(Tok)
    BY <1>1 DEF a
  <2>2. a \o <<>> = a
    BY <2>1, ConcatNone
  <2> QED  BY <1>2, <2>2 DEF a
<1>4. DOMAIN a = 1 .. Len(ps) /\ DOMAIN ps = 1 .. Len(ps)
  BY <1>1
<1>5. \A k \in 1 .. Len(ps) : ps[k] \in Part /\ ~Wide(ps[k])
  BY <1>4 DEF HasWide
<1>6. \A k \in 1 .. Len(ps) : Token(ps[k]).kind = ps[k].kind /\ Token(ps[k]).text = ps[k].text
  BY <1>5, TokenType
<1> QED  BY <1>1, <1>3, <1>4, <1>6

LEMMA WideError ==
  ASSUME NEW ps, NEW s, SameToks(ps, s), HasWide(ps)
  PROVE  TokenError(s) = "BadCapture"
<1>1. EndsWith(Tokens(s), "BadCapture")
  BY Zenon DEF SameToks, Follows
<1> QED  BY <1>1, ErrorIs

\* The literal that lines are searched for is one of the pattern's.
LEMMA FastLiteralIn ==
  ASSUME NEW ps \in Seq(Part), NEW s, SameToks(ps, s), FastLiteral(s) # <<>>
  PROVE  \E k \in DOMAIN ps : ps[k] = [kind |-> "lit", text |-> FastLiteral(s)]
<1> DEFINE usable == {k \in DOMAIN Tokens(s) :
                        LET t == Tokens(s)[k] IN
                        /\ t.kind = "lit" /\ Bytes(t.text) >= MinLiteral
                        /\ \E m \in DOMAIN t.text : t.text[m] \notin {"\\", " "}}
           best == {k \in usable : \A m \in usable :
                      Bytes(Tokens(s)[m].text) <= Bytes(Tokens(s)[k].text)}
<1>1. FastLiteral(s) =
        IF TokenError(s) # "none" \/ best = {} THEN <<>> ELSE Tokens(s)[First(best)].text
  BY Zenon DEF FastLiteral
<1>2. \A k \in best : k \in DOMAIN Tokens(s) /\ Tokens(s)[k].kind = "lit"
  BY Zenon
<1> HIDE DEF best, usable
<1>3. TokenError(s) = "none" /\ best # {} /\ FastLiteral(s) = Tokens(s)[First(best)].text
  BY <1>1
<1>4. ~HasWide(ps)
  BY <1>3, WideError
<1>5. /\ DOMAIN Tokens(s) = 1 .. Len(ps) /\ DOMAIN ps = 1 .. Len(ps)
      /\ \A k \in 1 .. Len(ps) : ps[k].kind = Tokens(s)[k].kind /\ ps[k].text = Tokens(s)[k].text
  BY <1>4, SameCut
<1>6. First(best) \in best
  <2>1. best \in SUBSET Nat
    BY <1>2, <1>5
  <2> QED  BY <1>3, <2>1, FirstIn
<1> DEFINE k == First(best)
<1>7. k \in DOMAIN ps /\ ps[k].kind = "lit" /\ ps[k].text = FastLiteral(s)
  BY <1>2, <1>3, <1>5, <1>6
<1> HIDE DEF k
<1>8. ps[k] \in [kind : {"lit", "cap"}, text : Seq(Alphabet)]
  BY <1>7 DEF Part
<1>9. ps[k] = [kind |-> "lit", text |-> FastLiteral(s)]
  BY <1>7, <1>8
<1> QED  BY <1>7, <1>9

\* A capture of a Grok name that the schema compiler has a native type for.
GrokCapture(p) ==
  LET c == ParseCapture(p.text) IN
  /\ c.grok /\ ~Wide(p) /\ IsIdent(c.field)
  /\ GrokNativeType(c.name) # "none" /\ c.name # <<"FLOAT">>

LEMMA CaptureCompiles ==
  ASSUME NEW p \in Part, p.kind = "cap", GrokCapture(p)
  PROVE  CaptureError(Token(p)) = "none"
<1> DEFINE w == Split(p.text)
           c == ParseCapture(p.text)
           t == Token(p)
<1>1. p.text \in Seq(Alphabet)
  BY DEF Part
<1>2. Len(w) \in Nat \ {0}
  BY <1>1, SplitLength
<1>3. t.words = w
  BY TokenType
<1>4. c.name = w[1]
  BY DEF ParseCapture
<1>5. Len(w) > 1 /\ c.grok => c.field = w[2]
  <2>1. CASE Len(w) = 1
    BY <2>1
  <2>2. CASE Len(w) # 1
    BY <2>2 DEF ParseCapture
  <2> QED  BY <2>1, <2>2
<1>6. /\ c.grok /\ IsIdent(c.field) /\ GrokNativeType(c.name) # "none"
      /\ c.name # <<"FLOAT">>
  BY Zenon DEF GrokCapture
<1> HIDE DEF c, w, t
<1>7. ExpandRef[<<w[1]>>] = "none"
  BY <1>4, <1>6, NativeExpands
<1>8. Len(w) > 1 => IsIdent(w[2])
  BY <1>5, <1>6
<1>9. CaptureError(t) = "none"
  BY <1>3, <1>7, <1>8 DEF CaptureError
<1> QED  BY <1>9 DEF t

LEMMA PatternCompiles ==
  ASSUME NEW ps \in Seq(Part), NEW s, SameToks(ps, s),
         \A k \in DOMAIN ps : ps[k].kind = "cap" => GrokCapture(ps[k])
  PROVE  CompileGrok(s) = "none"
<1>1. ~HasWide(ps)
  <2> SUFFICES ASSUME NEW k \in DOMAIN ps, Wide(ps[k]) PROVE FALSE
    BY DEF HasWide
  <2>1. ps[k].kind = "cap"
    BY DEF Wide
  <2> QED  BY <2>1, Zenon DEF GrokCapture
<1>2. /\ Tokens(s) = AsTokens(ps) /\ DOMAIN Tokens(s) = 1 .. Len(ps) /\ DOMAIN ps = 1 .. Len(ps)
      /\ \A k \in 1 .. Len(ps) : Tokens(s)[k] = Token(ps[k]) /\ ps[k].kind = Tokens(s)[k].kind
  BY <1>1, SameCut
<1>3. TokenError(s) = "none"
  BY <1>1, <1>2, NoErrorIs
<1> DEFINE g == [k \in DOMAIN Tokens(s) |->
                   IF Tokens(s)[k].kind = "lit" THEN "none" ELSE CaptureError(Tokens(s)[k])]
<1>4. ASSUME NEW k \in DOMAIN Tokens(s)
      PROVE  (IF Tokens(s)[k].kind = "lit" THEN "none" ELSE CaptureError(Tokens(s)[k])) = "none"
  <2>1. k \in DOMAIN ps /\ ps[k] \in Part /\ Tokens(s)[k] = Token(ps[k]) /\ ps[k].kind = Tokens(s)[k].kind
    BY <1>2
  <2>2. ps[k].kind \in {"lit", "cap"}
    BY <2>1 DEF Part
  <2>3. CASE ps[k].kind = "lit"
    BY <2>1, <2>3
  <2>4. CASE ps[k].kind = "cap"
    BY <2>1, <2>4, CaptureCompiles
  <2> QED  BY <2>2, <2>3, <2>4
<1>5. DOMAIN g = DOMAIN Tokens(s) /\ \A k \in DOMAIN g : g[k] = "none"
  BY <1>4
<1>6. CompileGrok(s) = FirstError(g)
  BY <1>3, Zenon DEF CompileGrok
<1> HIDE DEF g
<1>7. FirstError(g) = "none"
  BY <1>5, FirstErrorNone
<1> QED  BY <1>6, <1>7

LEMMA TakenSame ==
  ASSUME LoaderInv, FormatsCut, NEW f \in DOMAIN formats
  PROVE  SameTokens(f)
<1> DEFINE ps == formats[f].body.pattern
           text == LastPattern(f)
           toks == Tokens(text)
<1>1. ps \in Seq(Part)
  <2>1. formats[f] \in Parsed
    BY DEF LoaderInv, LoaderTyped
  <2> QED  BY <2>1 DEF Parsed, Body
<1>2. SameToks(ps, text)
  BY DEF FormatsCut, Taken
<1> HIDE DEF ps, text
<1>3. IF \E k \in DOMAIN ps : Wide(ps[k]) THEN TokenError(text) = "BadCapture"
      ELSE /\ Len(toks) = Len(ps)
           /\ \A k \in DOMAIN ps : ps[k].kind = toks[k].kind /\ ps[k].text = toks[k].text
  <2>1. CASE HasWide(ps)
    BY <1>2, <2>1, WideError DEF HasWide
  <2>2. CASE ~HasWide(ps)
    BY <1>1, <1>2, <2>2, SameCut DEF HasWide
  <2> QED  BY <2>1, <2>2
<1>4. FastLiteral(text) # <<>> =>
        \E k \in DOMAIN ps : ps[k] = [kind |-> "lit", text |-> FastLiteral(text)]
  BY <1>1, <1>2, FastLiteralIn
<1>5. (\A k \in DOMAIN ps : ps[k].kind = "cap" => GrokCapture(ps[k])) => CompileGrok(text) = "none"
  BY <1>1, <1>2, PatternCompiles
<1> QED  BY <1>3, <1>4, <1>5, Zenon DEF SameTokens, GrokCapture, ps, text

\* A pattern that the schema parser refuses for its braces.
Refused ==
  phase = "err" /\ error = "Parse" /\ InGrammar(source) =>
    TokenError(Text) \in {"UnbalancedBrace", "BadCapture"}

LEMMA UnbalancedRefused ==
  ASSUME LoaderInv, CutInv, Unbalanced
  PROVE  Refused'
<1>1. /\ phase = "brace" /\ j > Len(Text) /\ depth # 0
      /\ UNCHANGED <<source, block, stmt>>
  BY DEF Unbalanced
<1>2. UNCHANGED Text
  BY <1>1, TextKept
<1>3. /\ Text \in Seq(Alphabet) /\ Len(Text) \in Nat /\ parts \in Seq(Part)
      /\ i \in 1 .. Len(Text) /\ i + 2 <= Len(Text) + 1 /\ j = Len(Text) + 1
  BY <1>1, InText
<1>4. Nested(SubSeq(Text, i + 2, (Len(Text) + 1) - 1), depth) /\ OpenToks(parts, Text, i)
  BY <1>1, <1>3 DEF CutInv, BraceCut
<1>5. depth \in Nat \ {0}
  <2>1. depth \in Nat
    BY <1>4, Zenon DEF Nested
  <2> QED  BY <1>1, <2>1
<1>6. TokenError(Text) \in {"UnbalancedBrace", "BadCapture"}
  BY <1>3, <1>4, <1>5, ToksRefused
<1> QED  BY <1>2, <1>6 DEF Refused

LEMMA RefusedStep ==
  ASSUME LoaderInv, CutInv, Refused, Load
  PROVE  Refused'
<1> USE DEF Fail
<1>1. CASE ParseFile
  <2>1. source' = source /\ (phase' = "err" => ~InGrammar(source))
    BY <1>1 DEF ParseFile
  <2> QED  BY <2>1 DEF Refused
<1>2. CASE PatternDecl \/ ExtractDecl \/ CoerceDecl \/ RedactDecl \/ EndBlock \/ EndFile
  <2>1. phase' = "err" => error' \in {"DuplicateField", "DuplicateFormat", "MissingPattern"}
    BY <1>2 DEF PatternDecl, ExtractDecl, CoerceDecl, RedactDecl, EndBlock, EndFile, InBlock
  <2> QED  BY <2>1 DEF Refused
<1>3. CASE ScanLiteral \/ ScanCapture \/ BraceClosed \/ ScanDone \/ CompileFormat \/ Compiled
  <2>1. phase' = "err" => error' \in {"UnknownType", "UnsupportedGrok"}
    BY <1>3 DEF ScanLiteral, ScanCapture, BraceClosed, ScanDone, CompileFormat, Compiled
  <2> QED  BY <2>1 DEF Refused
<1>4. CASE Brace
  <2>1. phase' = "brace"
    BY <1>4, Zenon DEF Brace
  <2> QED  BY <2>1 DEF Refused
<1>5. CASE Unbalanced
  BY <1>5, UnbalancedRefused
<1> QED  BY <1>1, <1>2, <1>3, <1>4, <1>5, Zenon DEF Load

LEMMA RefusedNext ==
  ASSUME ClientInv, CutInv, Refused, [InferenceNext]_allVars
  PROVE  Refused'
<1>1. ASSUME UNCHANGED vars PROVE Refused'
  <2>1. UNCHANGED <<phase, source, block, stmt, error>>
    BY <1>1 DEF vars
  <2>2. UNCHANGED Text
    BY <2>1, TextKept
  <2> QED  BY <2>1, <2>2 DEF Refused
<1>2. ASSUME NEW text, NEW p \in {"idle", "file"}, Restart(text, p) PROVE Refused'
  <2>1. phase' # "err"
    BY <1>2 DEF Restart
  <2> QED  BY <2>1 DEF Refused
<1> QED  BY <1>1, <1>2, LoaderSteps, RefusedStep DEF ClientInv

-----------------------------------------------------------------------------

\* infer_schema and with_feedback: whatever is asked again is asked with every
\* reply before it, as it was validated, under its number and with its error.
THEOREM FeedbackIsComplete == InferenceSpec => []FeedbackComplete
  <1>1. ClientInv => FeedbackComplete
    BY ClientProperties
  <1> QED
    BY <1>1, ClientInit, ClientStep, PTL DEF InferenceSpec

\* infer_schema, parse and compile: a schema is printed only if it compiles
\* whole, it is the first that does, and no more replies are asked for than
\* one and the retries.
THEOREM PrintedIsFirstValid == InferenceSpec => []OkIsFirstValid
  <1>1. ClientInv => OkIsFirstValid
    BY ClientProperties
  <1> QED
    BY <1>1, ClientInit, ClientStep, PTL DEF InferenceSpec

\* tokenize_pattern: nothing of a pattern is lost, moved or read twice, however
\* its braces nest; what is not a capture opens none, and every capture is
\* whole.  The last pattern statement of a block is its pattern.
THEOREM PatternsAreCut == InferenceSpec => []PatternCut
<1>1. InferenceInit => CutInv
  BY FreshCut DEF InferenceInit, Fresh
<1>2. CutInv => PatternCut
  BY CutIs DEF CutInv
<1> QED  BY <1>1, <1>2, ClientInit, ClientStep, CutStep, PTL DEF InferenceSpec

\* tokenize of the Grok engine and tokenize_pattern, the two lists of Grok
\* names, compile and generate_rust: whatever the schema, what is written down
\* twice stays the same.
THEOREM TwinsStayEqual == InferenceSpec => []TwinsAgree
<1>1. InferenceInit => CutInv /\ Refused /\ BuiltInv
  <2>1. InferenceInit => CutInv
    BY FreshCut DEF InferenceInit, Fresh
  <2>2. InferenceInit => Refused /\ BuiltInv
    BY DEF InferenceInit, Fresh, Refused, BuiltInv
  <2> QED  BY <2>1, <2>2
<1>2. ClientInv /\ CutInv /\ Refused /\ BuiltInv => TwinsAgree
  <2> SUFFICES ASSUME ClientInv, CutInv, Refused, BuiltInv PROVE TwinsAgree
    OBVIOUS
  <2>1. LoaderInv /\ FormatsCut
    BY DEF ClientInv, CutInv
  <2>2. GeneratorAgrees
    BY <2>1, GeneratedAsBuilt
  <2>3. TokenizersAgree
    BY <2>1, TakenSame, Zenon DEF TokenizersAgree, Refused
  <2> QED  BY <2>2, <2>3 DEF TwinsAgree
<1> QED
  BY <1>1, <1>2, ClientInit, ClientStep, CutStep, RefusedNext, BuiltNext, PTL DEF InferenceSpec

=============================================================================
