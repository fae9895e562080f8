----------------------------- MODULE Inference ------------------------------
(***************************************************************************)
(* tpt-inference: the command line, the validate-and-retry loop of         *)
(* infer_schema, and the providers it asks.  A reply is validated by the   *)
(* schema parser and compiler, step by step as Schema models them.  Of a   *)
(* reply are kept the schema it holds and the code fence around it; a      *)
(* prompt is the samples, and the attempts that are fed back.              *)
(***************************************************************************)
EXTENDS Schema, Grok

CONSTANTS
  Commands,      \* command lines, each with what the environment sets
  Replies(_),    \* what a provider may reply, by the number of retries
  NumberIn(_)    \* the set of the number an argument parses to, if it does

\* A schema with a code fence around it: none, one with nothing behind it, one
\* with text behind it, among it so many whole blocks, one whose line ends within
\* a block, and one that is not closed.
Reply ==
  [fence : {"none", "bare", "tagged", "split", "open"}, line : Nat, file : Tree]

\* The numbers of retries that are asked for, and the one that is not.
Numbers ==
  {3} \cup UNION {UNION {NumberIn(c.argv[k]) : k \in DOMAIN c.argv} : c \in Commands}

ASSUME AlphabetAssumption ==
  {"prose", "other", "none", "Sample", "pattern", "%", "{", "}", ":", " ", "level",
   "message", "string"} \subseteq Alphabet

ASSUME CommandsAssumption ==
  /\ \A c \in Commands : c.argv \in Seq(STRING)
  /\ Numbers \subseteq Nat

ASSUME RepliesAssumption == \A n \in Numbers : Replies(n) \subseteq Reply

VARIABLES
  cli,        \* where the program is
  argv, env,  \* the arguments; the key, set, blank or unset, and TPT_PROVIDER
  prompt,     \* the last prompt sent
  replies,    \* every reply so far
  attempts,   \* the attempts that failed
  printed,    \* what was printed
  exit        \* how the program ended

cliVars == <<cli, argv, env, prompt, replies, attempts, printed, exit>>
allVars == <<vars, cliVars>>

\* A text that is no schema.
Prose == <<[name |-> "prose",
            stmts |-> <<[kind |-> "other", field |-> <<>>, to |-> "none",
                         text |-> <<>>]>>]>>

NoPrompt == [samples |-> 0, feedback |-> <<>>]

InferenceInit ==
  /\ Fresh("idle") /\ source = <<>>
  /\ cli = "args"
  /\ \E c \in Commands : argv = c.argv /\ env = c.env
  /\ prompt = NoPrompt /\ replies = <<>> /\ attempts = <<>> /\ printed = <<>>
  /\ exit = "none"

-----------------------------------------------------------------------------
(* main and provider_by_name *)

Options == {"--provider", "--retries"}

\* The places of the arguments that are not the value of an option.
Words(args) ==
  LET from[k \in 1 .. Len(args) + 2] ==
        IF k > Len(args) THEN {}
        ELSE {k} \cup from[IF args[k] \in Options THEN k + 2 ELSE k + 1]
  IN from[1]

\* The values given to an option; the last one that can be used counts.
Given(args, opt) == {k \in 2 .. Len(args) : k - 1 \in Words(args) /\ args[k - 1] = opt}

\* --provider, TPT_PROVIDER or the mock; upper and lower case are one.
Provider ==
  LET ks == Given(argv, "--provider") IN
  IF ks # {} THEN argv[Max(ks)]
  ELSE IF env.provider # "unset" THEN env.provider ELSE "mock"

\* The last number given, or three.
Retries(args) ==
  LET ks == {k \in Given(args, "--retries") : NumberIn(args[k]) # {}}
      last == {k \in ks : \A m \in ks : m <= k} IN
  IF last = {} THEN 3 ELSE CHOOSE n \in UNION {NumberIn(args[k]) : k \in last} : TRUE

\* The ones behind an API key, and all that are known.
Keyed == {"claude", "anthropic", "openai", "openrouter", "grok", "xai"}
Known == Keyed \cup {"ollama", "mock"}

Exit(how) ==
  /\ cli' = "exited"
  /\ exit' = how
  /\ UNCHANGED <<vars, argv, env, prompt, replies, attempts, printed>>

Goto(to) ==
  /\ cli' = to
  /\ UNCHANGED <<vars, argv, env, prompt, replies, attempts, printed, exit>>

\* --help ends the program wherever it stands; an unknown provider is an error
\* before anything is read.
ReadArgs ==
  /\ cli = "args"
  /\ IF \E k \in Words(argv) : argv[k] = "--help" THEN Exit("ok")
     ELSE IF Provider \notin Known THEN Exit("usage")
     ELSE Goto("samples")

\* The files or the standard input; there is always at least one sample, an
\* empty one if nothing else.
ReadSamples ==
  /\ cli = "samples"
  /\ Goto("ask") \/ Exit("error")

-----------------------------------------------------------------------------
(* The providers *)

\* Mutation: only the last attempt is fed back.
WithFeedbackLast(as) ==
  [samples |-> 1, feedback |-> IF as = <<>> THEN as ELSE <<as[Len(as)]>>]

\* with_feedback: the base prompt and every attempt that failed.
WithFeedback(as) == [samples |-> 1, feedback |-> as]

\* user_message puts the base prompt in front once more.
UserMessage(context) == [context EXCEPT !.samples = @ + 1]

\* strip_code_fences.  The whole line behind an opening fence is taken for a
\* language and dropped, with every block that stands on it; what is left of a
\* block that only starts there is no schema.  Without a closing fence nothing is
\* stripped.
StripCodeFences(r) ==
  CASE r.fence \in {"none", "bare"} -> r.file
    [] r.fence = "tagged" -> SubSeq(r.file, r.line + 1, Len(r.file))
    [] r.fence \in {"split", "open"} -> Prose

\* The parser and the compiler are started on a text.
Restart(text, p) ==
  /\ source' = text
  /\ phase' = p /\ block' = 1 /\ stmt' = 1 /\ draft' = Empty
  /\ i' = 1 /\ lit' = 1 /\ j' = 1 /\ depth' = 0 /\ parts' = <<>>
  /\ formats' = <<>> /\ compiled' = <<>> /\ error' = "none"

NoApiKey ==
  /\ cli = "ask"
  /\ Provider \in Keyed /\ env.key # "set"
  /\ Exit("error")

Ask ==
  /\ cli = "ask"
  /\ Provider # "mock" /\ (Provider \in Keyed => env.key = "set")
  /\ prompt' = UserMessage(WithFeedback(attempts))
  /\ cli' = "wait"
  /\ UNCHANGED <<vars, argv, env, replies, attempts, printed, exit>>

\* The mock's schema: "%{level:string}: %{message:string}".
MockSchema ==
  <<[name |-> "Sample",
     stmts |-> <<[kind |-> "pattern", field |-> <<>>, to |-> "none",
                  text |-> <<"%", "{", "level", ":", "string", "}", ":", " ",
                             "%", "{", "message", ":", "string", "}">>]>>]>>

AskMock ==
  /\ cli = "ask"
  /\ Provider = "mock"
  /\ replies' = Append(replies, [fence |-> "none", line |-> 0, file |-> MockSchema])
  /\ Restart(MockSchema, "file")
  /\ cli' = "validate"
  /\ UNCHANGED <<argv, env, prompt, attempts, printed, exit>>

\* A reply with the text at its place.
Answer ==
  /\ cli = "wait"
  /\ \E r \in Replies(Retries(argv)) :
       /\ replies' = Append(replies, r)
       /\ Restart(StripCodeFences(r), "file")
  /\ cli' = "validate"
  /\ UNCHANGED <<argv, env, prompt, attempts, printed, exit>>

\* The transport fails, the status is an error or the text is not there: ?
\* leaves infer_schema, whatever retries are left.
AnswerFails ==
  /\ cli = "wait"
  /\ Exit("error")

-----------------------------------------------------------------------------
(* infer_schema *)

Validate ==
  /\ cli = "validate"
  /\ Load
  /\ UNCHANGED cliVars

Accepted ==
  /\ cli = "validate"
  /\ phase = "ok"
  /\ printed' = source
  /\ cli' = "exited" /\ exit' = "ok"
  /\ UNCHANGED <<vars, argv, env, prompt, replies, attempts>>

\* Mutation: one attempt too many.
RejectedOnceMore ==
  /\ cli = "validate"
  /\ phase = "err"
  /\ attempts' = Append(attempts, [attempt |-> Len(attempts), error |-> error,
                                   text |-> source])
  /\ IF Len(attempts) <= Retries(argv)
       THEN cli' = "ask" /\ UNCHANGED exit
       ELSE cli' = "exited" /\ exit' = "failed"
  /\ Restart(<<>>, "idle")
  /\ UNCHANGED <<argv, env, prompt, replies, printed>>

\* The error joins the attempts; for attempt in 0..=max_retries.
Rejected ==
  /\ cli = "validate"
  /\ phase = "err"
  /\ attempts' = Append(attempts, [attempt |-> Len(attempts), error |-> error,
                                   text |-> source])
  /\ IF Len(attempts) < Retries(argv)
       THEN cli' = "ask" /\ UNCHANGED exit
       ELSE cli' = "exited" /\ exit' = "failed"
  /\ Restart(<<>>, "idle")
  /\ UNCHANGED <<argv, env, prompt, replies, printed>>

-----------------------------------------------------------------------------

Own == ReadArgs \/ ReadSamples \/ NoApiKey \/ Ask \/ AskMock \/ Validate
         \/ Accepted \/ Rejected

Provided == Answer \/ AnswerFails

Done == cli = "exited" /\ UNCHANGED allVars

InferenceNext == Own \/ Provided \/ Done

InferenceSpec == InferenceInit /\ [][InferenceNext]_allVars

\* The program runs on one thread and waits only for the provider, without a
\* limit of its own; the provider answers, or the connection breaks.
InferenceFairSpec ==
  InferenceSpec /\ WF_allVars(Own) /\ WF_allVars(Provided)

-----------------------------------------------------------------------------

\* Whatever is asked again is asked with all that went wrong before: the
\* prompt holds the samples and every earlier reply, as it was validated, in
\* order, under its number and with an error of its own.
FeedbackComplete ==
  cli = "wait" =>
    /\ prompt.samples > 0
    /\ Len(prompt.feedback) = Len(replies)
    /\ \A k \in DOMAIN replies :
         /\ prompt.feedback[k].attempt = k - 1
         /\ prompt.feedback[k].text = StripCodeFences(replies[k])
         /\ prompt.feedback[k].error # "none"

\* The schema a text declares, compiled whole: every block has its format, in
\* order, with a segment of a native type for every part; no two formats share
\* a name and no field has two coercions.
CompiledWhole(text) ==
  /\ Len(compiled) = Len(text)
  /\ \A f \in DOMAIN text :
       /\ compiled[f].name = text[f].name
       /\ \A g \in DOMAIN text : text[f].name = text[g].name => f = g
       /\ Len(compiled[f].segs) = Len(formats[f].body.pattern)
       /\ \A k \in DOMAIN compiled[f].segs : compiled[f].segs[k].ty \in Types
       /\ \A c, d \in DOMAIN compiled[f].coercions :
            compiled[f].coercions[c].field = compiled[f].coercions[d].field => c = d

\* The program prints a schema only if it compiles whole, and then the first
\* that did: it is the last reply, every reply before it was rejected, and no
\* more replies were asked for than one and the retries.  It gives up only
\* when all of these have been used.
OkIsFirstValid ==
  /\ cli = "exited" /\ replies # <<>> /\ exit = "ok" =>
       /\ printed = StripCodeFences(replies[Len(replies)])
       /\ CompiledWhole(printed)
       /\ Len(attempts) = Len(replies) - 1
  /\ Len(replies) <= Retries(argv) + 1
  /\ exit = "failed" => Len(attempts) = Retries(argv) + 1

\* A capture of more words than name, field and type.
Wide(part) == part.kind = "cap" /\ Len(Split(part.text)) > 3

\* The Grok engine reads the pattern like the schema parser did: it cuts it at
\* the same places, except that it refuses a capture of more than three words;
\* the literal its lines are searched for is one of the pattern's; and a
\* pattern of Grok names that the schema compiler has native types for, FLOAT
\* apart, compiles.
SameTokens(f) ==
  LET ps == formats[f].body.pattern
      text == LastPattern(f)
      toks == Tokens(text) IN
  /\ IF \E k \in DOMAIN ps : Wide(ps[k]) THEN TokenError(text) = "BadCapture"
     ELSE /\ Len(toks) = Len(ps)
          /\ \A k \in DOMAIN ps : ps[k].kind = toks[k].kind /\ ps[k].text = toks[k].text
  /\ FastLiteral(text) # <<>> =>
       \E k \in DOMAIN ps : ps[k] = [kind |-> "lit", text |-> FastLiteral(text)]
  /\ (\A k \in DOMAIN ps :
        ps[k].kind = "cap" =>
          LET c == ParseCapture(ps[k].text) IN
          /\ c.grok /\ ~Wide(ps[k]) /\ IsIdent(c.field)
          /\ GrokNativeType(c.name) # "none" /\ c.name # <<"FLOAT">>)
       => CompileGrok(text) = "none"

\* Both tokenizers take a pattern, or both refuse its braces.
TokenizersAgree ==
  /\ phase = "ok" => \A f \in DOMAIN formats : SameTokens(f)
  /\ phase = "err" /\ error = "Parse" /\ InGrammar(source) =>
       TokenError(Text) \in {"UnbalancedBrace", "BadCapture"}

\* The generated Rust module rebuilds the formats that compile produced, or
\* fails with it.
GeneratorAgrees ==
  /\ phase = "ok" => GenerateRust(formats) = [ok |-> TRUE, formats |-> compiled]
  /\ phase = "err" /\ error = "UnsupportedGrok" => ~GenerateRust(formats).ok

\* What is written down twice stays the same: the two tokenizers and the two
\* lists of Grok names, and the two walks over the parsed formats.
TwinsAgree == TokenizersAgree /\ GeneratorAgrees

\* The program ends, whatever the provider replies.
InferenceEnds == <>(cli = "exited")
=============================================================================
