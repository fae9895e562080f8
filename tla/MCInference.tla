---------------------------- MODULE MCInference -----------------------------
(***************************************************************************)
(* Inference with, where there is a single attempt, a reply of every file  *)
(* with one pattern of up to MaxSymbols symbols, every file of up to two   *)
(* blocks with up to two statements each, every block of three statements  *)
(* and every Grok name; and with a few replies where there are retries.    *)
(***************************************************************************)
EXTENDS Inference

CONSTANT MaxSymbols

ASSUME MCInferenceAssumption == MaxSymbols \in Nat

Stmts(kind, field, to, text) ==
  [kind |-> kind, field |-> field, to |-> to, text |-> text]

Pattern(text) == Stmts("pattern", <<>>, "none", text)
Extract(field) == Stmts("extract", field, "none", <<>>)
Coerce(field, to) == Stmts("coerce", field, to, <<>>)
Redact(field) == Stmts("redact", field, "mask", <<>>)

File(stmts) == <<[name |-> "A", stmts |-> stmts]>>

Symbols == {"%", "{", "}", ":", "int", "IP"}

AllPatterns ==
  {File(<<Pattern(s)>>) :
     s \in UNION {[1 .. n -> Symbols] : n \in 0 .. MaxSymbols}}

\* %{x:int} and a pattern without captures.
Native == <<"%", "{", "x", ":", "int", "}">>

Statements ==
  {Pattern(Native), Pattern(<<"-">>), Extract(<<"x">>), Coerce(<<"x">>, "int"),
   Coerce(<<"x">>, "ipv4"), Coerce(<<"y">>, "enum"), Redact(<<"x">>)}

Blocks ==
  {[name |-> n, stmts |-> s] :
     n \in {"A", "B"}, s \in UNION {[1 .. k -> Statements] : k \in 0 .. 2}}

\* A pattern and two declarations of the same field take three statements.
AllBlocks ==
  UNION {[1 .. k -> Blocks] : k \in 0 .. 2}
    \cup {File(stmts) : stmts \in [1 .. 3 -> Statements]}

\* Literals around and between captures, of every Grok name and of more words
\* than a capture may have.
GrokFiles ==
  {File(<<Pattern(<<"int", " ", " ", " ", "%", "{", n, ":", "x", "}", "IP", "-",
                    "%", "{", "x", ":", "y", ":", "int", ":", "z", "}">>)>>) :
     n \in {"IP", "X"}}
  \cup {File(<<Pattern(<<"int", " ", " ", " ", " ", "%", "{", n, ":", "x", "}", "IP", "-">>)>>) :
     n \in Plain \cup DOMAIN Composed \cup {"FLOAT", "X"}}

Unfenced(files) == [fence : {"none"}, line : {0}, file : files]
Fenced(files) ==
  [fence : {"none", "bare", "split", "open"}, line : {0}, file : files]
    \cup [fence : {"tagged"}, line : 0 .. 2, file : files]

Good == File(<<Pattern(Native)>>)

MCReplies(n) ==
  CASE n = 0 -> Unfenced(AllPatterns \cup AllBlocks \cup GrokFiles)
    [] n = 1 -> Fenced({<<>>, Good, Good \o Good, Prose,
                        File(<<Pattern(Native), Stmts("redact", <<"x">>, "drop", <<>>)>>),
                        File(<<Pattern(<<"%", "{", "X", "}">>)>>)})
    [] OTHER -> Unfenced({<<>>, Good \o Good, Prose})

MCNumberIn(a) == CASE a = "0" -> {0} [] a = "1" -> {1} [] a = "2" -> {2} [] OTHER -> {}

Args == {"--provider", "--retries", "--help", "claude", "ollama", "log"}

Envs == [key : {"set", "blank", "unset"}, provider : {"unset", "openai", "other"}]

Cmd(args) == [argv : {args}, env : {[key |-> "set", provider |-> "unset"]}]

\* Every command line of two arguments in every environment, and one for each
\* number of retries.
MCCommands ==
  [argv : UNION {[1 .. n -> Args] : n \in 0 .. 2}, env : Envs]
    \cup Cmd(<<"--provider", "ollama", "--retries", "0">>)
    \cup Cmd(<<"--provider", "xai", "--retries", "1">>)
    \cup Cmd(<<"--retries", "0", "log", "--provider", "ollama", "--retries", "2">>)

MCAlphabet == STRING

MCWidth(x) == CASE x = "int" -> 3 [] x = "IP" -> 2 [] OTHER -> 1
MCIsIdent(t) == Len(t) = 1 /\ t[1] \notin {"%", "{", "}", " ", "-"}
=============================================================================
