# A TLA+ verification of tpt-telemetry

tpt-telemetry receives syslog messages over UDP and TCP, matches them against
schemas written in a small language, and exports the typed records to an
OpenTelemetry collector. This directory holds TLA+ models of the parts that
carry its logic, TLC configurations that check them on small instances, and
TLAPS proofs of the most important results for every value of the constants.

- [1. The system](#1-the-system)
- [2. The modules](#2-the-modules)
- [3. The runs](#3-the-runs)
- [4. Fairness](#4-fairness)
- [5. The proofs](#5-the-proofs)
- [6. What is not modelled](#6-what-is-not-modelled)
- [7. Disagreements between code and documentation](#7-disagreements-between-code-and-documentation)
- [8. Plan](#8-plan)

To check a run: `tlc -config <cfg> <module>`. To check the proofs of a module:
`tlapm <module>.tla`.

## 1. The system

| component | state it keeps | operations | talks to |
|---|---|---|---|
| syslog receivers and ring (`tpt-syslog-server/src/server.rs`) | a bounded channel, five atomic counters, an atomic count of live connections, a stop flag, one decoder per connection | UDP receive loop, accept loop, one loop per connection, `deliver`, `recv_timeout`/`try_recv`, `stop`, `drop` | sockets; the framing decoder; its owner through the channel |
| framing decoder (`framing.rs`) | mode and buffer | `push`, `flush` | called by a connection thread |
| daemon program (`tpt-daemon/src/main.rs`, `config.rs`) | arguments, configuration | flags, reading and `${NAME}` interpolation, `--check`, `--healthcheck`, `Daemon::new` step by step, `start` | files, environment, server, parser, exporter |
| daemon threads (`tpt-daemon/src/lib.rs`, `metrics_http.rs`) | stop flag, three counters, the server behind one mutex and one `Arc` | worker loop, metrics loop, main loop, `drop` | server, parser, exporter, HTTP clients |
| OTLP exporter (`tpt-otlp/src/exporter.rs`, `grpc.rs`) | none between calls; start, end, attempt and backoff in a call | `export` over HTTP with retries, over gRPC once | collector |
| OTLP data model (`tpt-otlp/src/model.rs`) | none | `record_to_log_record`, `records_to_payload` | called by the exporter |
| streaming reader (`tpt-telemetry-core/src/lib.rs`) | one buffer with two indices, `done`, `last_error` | `next_line` | any `Read` |
| runtime parser (`tpt-telemetry-compiler/src/compile.rs`) | a reused match context | `parse_line`, `match_line`, `matches` | called by the worker |
| schema parser and compiler (`tpt-telemetry-schema/src/parser.rs`, `schema.pest`, `compile.rs`) | the formats read so far, offsets of the tokenizer | `parse`, `tokenize_pattern`, `parse_capture`, `compile` | called at start, and by the inference client on every reply |
| code generator (`codegen.rs`) | none | `generate_rust` | repeats the compiler's choices |
| grok engine and pattern library (`tpt-grok-engine`, `patterns.rs`) | none | `tokenize`, `compile` with `expand_ref`, the literal of the pre-scan | repeats the schema parser's tokenizer |
| inference client (`tpt-inference`) | the attempts that failed | command line, `suggest`, `validate`, retry loop | an LLM provider over HTTP; schema parser and compiler |
| address decoding, `security.rs`, `send_log`, fuzz targets, benches, packaging | see section 6 | | |

The pipeline is: socket → receiver thread (→ decoder) → ring → worker → parser
→ exporter → collector. Beside it the metrics thread shows the counters, and
the main thread waits for a signal and joins the other two. The inference client
is a program of its own that writes schemas.

What is hard in it, and what would make it correct:

* **Receivers.** Threads that share atomics without a lock. `try_send` and the
  counter after it are two steps; so are taking a connection slot and giving it
  back. No message may be counted twice or not at all, no slot may leak, no
  client be turned away while there is room, and shutdown must reach every
  thread.
* **Decoder.** A stream arrives in arbitrary chunks; frames must not depend on
  the cut, every byte must end in one frame, wait in the buffer or be rejected with
  the frame it is in, and memory must stay bounded by the ceiling.
* **Daemon.** The server receives from the first line of `new` on, and any later
  step may fail. Then two threads and a dropped handle around one mutex; a scrape
  reads three counters one by one; the last owner drops the server, and the ring with
  it, while the receiver threads run on. Order must be kept from source to export, no
  message may vanish from the books, and shutdown must end. References to the
  environment may be unclosed, nested, or have values that look like references.
* **Exporter.** Answers may be lost or late, so a retry may duplicate; batches
  may fail half-way; the caller is blocked while it sleeps.
* **Reader.** Compaction and growth move data under indices, reads have any
  size, may be interrupted or fail.
* **Parser and data model.** Backtracking over a shared context; byte offsets in
  UTF-8 text; a type decided in three places one after the other; a redacted field
  that the exporter reads twice.
* **Schema, code generator, grok engine.** Offsets in a hand-written tokenizer;
  names that later code looks up and that must not repeat; the same decisions
  written down twice.
* **Inference client.** A retry loop whose limit counts from zero, feedback that
  grows over several rounds, replies wrapped in code fences.

`PROJECT.json` lists every one of these hazards at its line, with the
properties that would catch it.

## 2. The modules

| module | models | checked by | proved in |
|---|---|---|---|
| `IngestRing` | abstract: what the server promises its consumer | through `ImplementsRing` | |
| `SyslogServer` | `server.rs`, `stats.rs` | `MCSyslogServer` | `SyslogServerProofs` |
| `TcpDecoder` | `framing.rs` | `MCTcpDecoder` | `TcpDecoderProofs` |
| `Daemon` | the threads of `tpt-daemon`; extends `IngestRing`, which stands for the server | through `Startup` | `StartupProofs` |
| `Config` | `config.rs`: interpolation and the settings made from it | through `Startup` | `StartupProofs` |
| `Startup` | `main.rs`, `Daemon::new`, `start`; composes `Daemon` and `Config` | `MCDaemon` | `StartupProofs` |
| `Exporter` | `exporter.rs`, `grpc.rs` | `MCExporter` | `ExporterProofs` |
| `StreamReader` | `StreamReader` of `tpt-telemetry-core` | `MCStreamReader` | `StreamReaderProofs` |
| `Segment` | what parser, compiler, grok engine and matcher share: segments, `%{`, `split(':')` | | |
| `Record`, `OtlpModel`, `Matcher` | matching, coercion and redaction in `compile.rs`, then `model.rs` | `MCMatcher` | `MatcherProofs` |
| `Schema` | `parser.rs`, `schema.pest`, `CompiledSchema::compile`, `codegen.rs` | through `Inference` | `InferenceProofs` |
| `Grok` | `tpt-grok-engine`, the names of `patterns.rs` | through `Inference` | `InferenceProofs` |
| `Inference` | `tpt-inference`; composes `Schema`, which validates every reply, and `Grok` | `MCInference` | `InferenceProofs` |
| `ChainLemmas` | no code: lemmas about functions defined by going on to a smaller argument, used by `TcpDecoderProofs` and `StartupProofs` | | itself |

`PROJECT.json` maps every definition to the lines it translates. In short:

**IngestRing.** `Accept`, `Refuse`, `Take` and `Close` are the outcomes of
`try_send`, `recv_timeout` and the drop of the receiver. An offer is refused
only when the ring is full or the receiver gone.

**SyslogServer.** Every access to a shared atomic or to the channel is an action
of its own: `TrySend` then `Count` (`deliver`), `AcceptBump` then `AcceptSpawn`
or `AcceptUnbump` then `AcceptReject` (the cap), `UdpCheck`/`AcceptCheck`/
`ConnCheck` (the flag). `ConnRead(c, k, p)` is a chunk that completes `k` frames
and leaves an unfinished one or not; which chunks do that is `TcpDecoder`'s
business. `Linux` selects one of the two builds: `recvmsg` with the kernel's drop
count and blocking reads of accepted streams, or the portable loop with
`WouldBlock`. The environment sends datagrams, connects, leaves, and breaks
sockets (`MaxFaults`). Messages are identities: source and number.

**TcpDecoder.** One pass of the loop in `drain` is one action, one per way out of
the pass. Bytes are their codes; a length prefix is parsed as `usize::from_str`
does, with its plus sign and its overflow at `UsizeMax`. `Frames` is the reference: a
function of the whole stream and the framing that cuts frames off one after the other,
defined apart from the actions.

**Daemon.** `run_worker`, `run_metrics` and `main` with `RunningDaemon::drop`, one
action per step another thread can see: the flag, the mutex, each counter. The
`Arc` is the set `refs`; the server is dropped (`ServerDropped`) when it is empty.
A parse yields a record, nothing or a panic; an export Ok or Err. Clients of the
metrics port send a request in pieces, cut it off, or stay silent (`Idle`).

**Config, Startup.** `main` from its arguments to its exit. `Flags` are the flags of
`parse_args` (`--config` takes the argument behind it, whatever it is); `ReadConfig`
interpolates the file with `Subst`, a left-to-right pass over the symbols of a text;
`BindServer`, `LoadSchema`, `BindMetrics`, `SetHandler` are the steps of `new` and
`main` that can fail, and `NewFails` drops the server that is already receiving.
`Start` moves the `Arc` to the two threads; from then on the steps are `Daemon`'s.
What interpolation should do is stated over the ways to cut a text up (`CutsFrom`) and
what each piece becomes (`Replaced`, `Rendered`).

**Exporter.** One call of `export`, for any configuration. `CollectorStores` may
happen while the exporter waits, after it has given up, or never;
`AttemptErr` may happen although the request was stored. `waited` adds up
timeouts and sleeps. `backoff * 2` is taken modulo `U64` before the cap, as in a
release build.

**StreamReader.** One action per way through an iteration of `next_line`. The buffer
is the whole array `buf` with the indices `start` and `end`: `Compacted` copies what is
held to the front and leaves the old bytes behind it, `Room` also resizes a full array
with zeros, and a read overwrites what comes after `end` (`Filled`). The source delivers
any number of bytes that fit, is interrupted, or fails. `IsLine` says
what the n-th line of a stream is, by its newlines; `MCStreamReader` compares it with a
recursive definition on every short stream.

**Matcher, Record, OtlpModel.** `match_segments` with its call stack made explicit:
each capture tries the longest text first. Slicing inside a character is a panic.
`Record` is `build_record`: coercion, enum lookup, masking, with the panic of a mask
that cuts a character. `OtlpModel` turns the record into the log record that is
exported, with the width of an i64. What the standard library accepts as a number, an
address or a time, and which number it is, are parameters.

**Schema.** A file is the tree the grammar yields: blocks of statements. The
statements are taken in order with their checks, patterns go through the
tokenizer symbol by symbol, `compile` turns each format into segments;
`GenerateRust` is what the generated module would rebuild. The ordered choice of type
names in `schema.pest` is modelled, since it decides which spellings can be reached.

**Grok.** Functions of a pattern: `Tokens`, `ExpandRef` along the chain of names with
its cycle and depth checks, `CompileGrok`, `FastLiteral`. Of the library's regular
expressions only their references to one another are kept.

**Inference.** One action per step of `main` and of `infer_schema`. A reply is the
schema it holds, the code fence around it and how many of its blocks stand on the line
of the opening fence, which `StripCodeFences` drops whole; `Validate` is a step of
`Schema` on the stripped reply. A prompt is the samples and the attempts that are fed back.

Definitions named in a comment as *Mutation* are plausible bugs: each one,
put in the place of the definition after it, makes TLC report the property it is
listed for in `PROJECT.json`. They are not part of the specifications.

## 3. The runs

Passing runs:

| run | checks | instance | distinct states |
|---|---|---|---|
| `server_safety` | `TypeOK`, `LiveCount`, `ConnectionCap`, `DeliveredExact`, `AllAccounted`, `RejectsOnlyWhenFull`, `ImplementsRing` | 2 clients, 1 slot, ring of 1, 2 datagrams, 2 frames per connection, 1 fault, portable build | 1,500,000 |
| `server_liveness` | `ShutdownSettles`, `StopReturns`, `BacklogServed` | the same with 1 datagram and 1 frame, Linux build | 270,000 |
| `decoder` | `StreamAccounted`, `OversizeBounded`, `BoundedWhenMeasured`, `ChunkingIrrelevant`, `PushReturns` | streams of up to 6 bytes over LF, CR, space, plus, 0 and 2, chunks of up to 3, ceiling 2, `usize` up to 20, all framings | 410,000 |
| `daemon` | `SubstExact`, `ScrapeSkew`, `HandedInOrder`, `LossBounded`, `ShutdownJoins`, `RingDrained` | every command line of up to 2 arguments, files with good and bad addresses, every header of up to 5 symbols over `$`, `{`, `}` and a name; 1 source, 3 messages, ring of 2, 1 client | 200,000 |
| `exporter` | `PrefixOnly`, `DuplicatesBounded`, `BlockedBound`, `SecretsStayHome`, `HttpExportReturns` | 0 to 2 records, batch sizes 0 and 2, 0 and 2 retries, every transport, scheme, build, header and `require_tls` setting | 570,000 |
| `reader_lines` | `GrowthBounded`, `BufferIsRest`, `NoneIsCleanEnd`, `LinesExact` | streams of up to 7 bytes, initial buffer 1, ceiling 3 | 47,000 |
| `matcher_match` | `CapsTile`, `FirstLongest`, `ExportedAsDeclared`, `RedactedEverywhere`, `MatchEnds` | every line of up to 4 characters, one of them of two bytes, four formats, three entry points, 2 calls | 49,000 |
| `inference` | `PatternCut`, `OkIsFirstValid`, `FeedbackComplete`, `TwinsAgree`, `InferenceEnds` | every command line of up to 2 arguments in every environment; replies: every pattern of up to 5 symbols, every file of up to 2 blocks with up to 2 statements, every block of 3, every Grok name, every code fence; 0 to 2 retries | 260,000 |

What they show:

* `server_safety`: whatever the interleaving, the live counter is the threads
  that run plus the slot the acceptor decides about; the delivered counter lags
  the ring by exactly the threads between `try_send` and `fetch_add`; every
  decoded message ends in exactly one counter; and the whole server implements
  `IngestRing`.
* `server_liveness`: `stop()` returns whatever the clients do. Once the flag is
  raised every thread ends, except a connection thread on Linux whose client
  stays connected and silent. A queued client is served or rejected.
* `decoder`: the frames are those of the stream read in one piece
  (`Frames`, an independent definition that cuts frames off one after the
  other). Every byte pushed is in the wire form of one frame, in the buffer, or in
  what was discarded with a frame that was too large (`StreamAccounted`). `drain`
  never loops.
* `daemon`: references to the environment are replaced exactly, against a
  definition over all cuts of the text. A scrape shows at most one message too
  many as handled; the mutex is what bounds it. The messages of one source whose
  export returned Ok were handed over in order, each once; when and how often the
  collector stores them is `Exporter`'s matter. As long as the server lives every
  message offered is refused, in the ring, in the worker's hand or counted; when it is
  dropped, at the end or by a start that fails half-way, at most a ring full is lost,
  and receiver threads that run on are refused. With clients that finish
  their requests and an exporter that returns, a raised flag ends the daemon.
* `exporter`: a failing export has stored a prefix, plus possibly the batch that
  failed; Ok means everything; duplicates are bounded by `max_retries`; the time
  the only worker is blocked is bounded; headers never leave over plain http
  under `require_tls`.
* `reader_lines`: the lines returned are the lines of the stream for every
  sequence of read sizes and interruptions, and `None` without an error means the
  input is used up. Compaction, growth and stale bytes behind `end` change nothing of
  what is held.
* `matcher_match`: a match spells out the line, is the first format's longest one
  (against a definition over all tilings of the line), and none is missed. Each
  capture is in the exported record under its name and as the type the schema
  declares. Of a redacted field neither attribute nor body shows more than the last two
  bytes; this is said of the first capture of a name, since a second one of the same
  name is exported in the clear (section 7).
* `inference`: the parts of a pattern put back together are the pattern and captures
  are whole; what is printed compiles whole and is the first reply that did; every
  retry is asked with all that went wrong before; the schema parser and the grok
  engine cut a pattern at the same places, the compiler and the code generator
  choose the same fields and types; the program ends.

Runs that TLC must find violated, each against a line of the repository:
`daemon_idle_client`, `exporter_grpc_hangs`, `reader_reject`, `matcher_wide`
(section 7).

Why the bounds are enough. Two clients and one slot make every race for the last
slot happen; a ring of one is full after one message. Streams of 6 bytes hold a
frame, a delimiter pair and a following frame in every cut, and a ceiling of 2
is passed by them; with the digits 0 and 2 and `UsizeMax` = 20 there are lengths of
zero, at the ceiling, beyond it and beyond `usize`. That the end of a frame overflows
(`checked_add`) needs a stream of nearly `usize::MAX` bytes and does not happen in the
run; the model has the case and the proofs cover it. Two arguments hold a flag behind
`--config` and two flags that compete; five symbols hold a reference inside a
reference, an unclosed one, an empty name, and a value that looks like a reference.
Times of the exporter are scaled: the cap of 30000 ms is 4, a `u64` has 5 bits, so
that a base of 17 overflows on doubling and one of 3 meets the cap. One record with a
batch size of two is a partial batch, two records with batch size 0 (taken as 1) are
two batches. For the reader, an initial buffer of 1 and a ceiling of 3 force
compaction, growth and rejection. In the matcher `I64` = 8 and `U8` = 2: two digits are
too many for a signed number and become negative as an unsigned one, three are too many
for either, and an enum of three variants wraps; four characters are enough for each
format to match in several ways. In the inference client five symbols hold a capture
beside a literal and nested and unbalanced braces; the wide choice of replies is given
to a single attempt, since what a reply compiles to does not depend on the attempt, and
a few replies to runs with one and two retries. All bounds but those scalings only cut
off behaviours: they are conjuncts of guards of the environment, or sets of inputs.

Symmetry is used in `server_safety` only, which has no liveness property. Deadlock
is checked in every run; where a system may come to rest there is an explicit
action for it (`Terminated`, `Closed`, `Ended`, `Returned`, `Over`, `Done`).

## 4. Fairness

* `SyslogServer`: weak fairness of each thread's own steps and of the owner's
  `stop`. Operating system threads are scheduled in the end, and every step is a
  non-blocking call, or one with a timeout, except a read on Linux, which is only
  enabled when the client has acted. Nothing is assumed of clients, datagrams,
  errors, or how often the owner receives.
* `TcpDecoder`, `Matcher`: the one thread that runs the code goes on.
* `Startup`: weak fairness of the steps of `main`, of worker and metrics thread,
  and of the drop of the server. The mutex is `std::sync::Mutex`, which is not fair,
  so a thread waiting for it has no more than weak fairness: it may be overtaken for
  ever. `WorkerExport` is fair only where the configured transport is HTTP, which
  `exporter` justifies by `HttpExportReturns`. Clients outside `Idle` finish their
  request; `daemon_idle_client` drops that.
* `Inference`: the program's one thread goes on; the provider answers or the
  connection breaks. The client sets no limit of its own on a request, so
  `InferenceEnds` says nothing about a provider that keeps a connection open in
  silence.
* `Exporter`: the calling thread goes on and the timer of the HTTP client fires.
  Nothing is assumed of the collector or the network.

## 5. The proofs

Every invariant and every action property that a passing run checks, and the refinement
of the abstract ring, are also theorems. All proofs hold for every value of the constants
that the named assumptions allow; TLC evaluates the assumptions on every run.

Several of the properties compare the code with what a recursive function computes. There
is no induction rule here that the provers can use, so each such argument is made by
hand, as a smallest counterexample: the set of the sizes at which the claim fails has a
least member (`WFMin` on the natural numbers), and that member is contradicted.
**`ChainLemmas`** does this once for functions whose value is a part followed by the value
of a smaller argument: they exist (so the recursive definition means what it says), their
values are typed, and there is only one.

**`SyslogServerProofs`** (assumption `ServerAssumption`: finitely many clients,
the threads are different, the bounds are natural numbers). Three inductive
invariants, all on top of `Typed` and `ControlOK`:

1. `SlotInv` adds `LiveCount` and `SlotsOK`. That at most
   `max_connections` threads run is not inductive: between the acceptor's
   `fetch_add` and the spawn the slot is taken by nobody who runs. `LiveCount`
   accounts for it, `SlotsOK` says that thread still fits. `ControlOK` ties a
   thread's place to what it holds. From it: `TypeCorrect`, `SlotsExact`,
   `CapHolds`, `RejectionJustified`.
2. `FlowInv` adds `DeliveredExact` and `RingBound`. From it: `DeliveredIsExact`,
   `RingStaysBounded`.
3. `MapInv` adds `TodoIsLatest` (what a thread has to send is exactly its newest
   messages, in order) and `OwnerOK` (the receiver is open as long as its owner
   has it). With the refinement mapping q ← ring, open ← rxOpen, offered ←
   `Offered`, refused ← `Refused` every step is a step of `IngestRing` or a
   stutter: `ServerImplementsRing`.
4. `AccountInv` is `MapInv` with `AllAccounted`. `Handled` is a set of messages;
   `TodoIsLatest` says that the message a thread sends is the next number of its source,
   so a `try_send` adds exactly one to the set, and counting only moves it from the gap
   to a counter: `EveryMessageAccounted`.

**`TcpDecoderProofs`** (`DecoderAssumption`). `DecoderInv` joins the properties with
`LfBuffer` (on an LF-framed connection the buffer is below the ceiling between
calls, and below it plus one read inside a call), which is what bounds a frame whose LF
arrives late: `DecoderTypeCorrect`, `MemoryBounded`, `OctetCeilingHolds`,
`OversizeIsBounded`. `StreamAccounted` says that there are cuts of the stream, one per
frame; each pass either adds a cut at the end of what it consumes (`OneMoreFrame`) or
leaves the cuts and what follows the last one alone (`MoreBytes`, `Rejection`):
`EveryByteAccounted`.
That the frames are those of the whole stream is not inductive, since inside a call, and
with a frame half arrived, the rest of the stream is still to come. `ChunkInv` therefore
says it of every continuation t: the frames of what was fed and t are the frames given out
and then the frames of the buffer and t in the present mode (`SameFrames`); and between
calls no complete frame waits (`NothingWaits`). The lemmas show that a frame that is
complete stays the same frame whatever follows it: `ChunksDoNotMatter`.

**`StreamReaderProofs`** (`ReaderAssumption`). The window lemmas say once, per action,
what it does to the bytes between `start` and `end` (`FoundLineWindow`,
`LastLineWindow`, `RoomWindow`, `NothingWindow`, `SomeWindow`): compaction and growth
keep them, a read appends to them. The rest argues about the window. `ReaderInv` joins
the properties with
`CleanEndIsFinal` (after a `None` without an error nothing is buffered and no
more is read):
`ReaderTypeCorrect`, `IndicesStayInBuffer`, `GrowthIsBounded`, `NoByteLost`, `NoSilentTruncation`.
`LinesInv` adds that between two calls the bytes used up end with a newline and as many
lines were returned as there are newlines among them (`AtNewline`), or the unterminated
rest was returned and the input is at its end (`AtRest`): `LinesAreExact`.

**`ExporterProofs`** (`ExporterAssumption`). `ExporterInv` joins five parts: `Typed`;
`CallOK`, which ties the batch under way and the attempt to the configuration;
`WireOK` and `StoredOK`, which say that requests on the wire and records stored are of
this batch or of earlier ones; `CopiesOK`; and `HomeOK`. That a record is stored at
most once per attempt is not inductive, since a request may be stored after the
exporter has given it up: `CopiesOK` counts the copies stored together with the ones
still on the wire. From it: `ExportStoresPrefix`, `DuplicatesAreBounded`,
`SecretsKept`. `WaitInv` gives every batch a budget: what was waited and what the batch
under way may still owe (`Owed`, by stage and attempt) is within the budgets of the batches
begun, and batches begin at multiples of the batch size (`AlignOK`). The products are taken
apart in a lemma of their own, as the arithmetic is not linear: `ExportTimeBounded`.

**`StartupProofs`**, over the whole program, for any sources, ring, clients and command
lines:

1. `OwnersOK` says who holds the `Arc` at each place of the three threads, and that the
   server is open as long as somebody does. It carries the next three.
2. `SkewInv` is `LockOK` (who holds the mutex) and `SkewOK`: the counters plus the
   message in the worker's hand against the figures on the page the metrics thread has
   read so far. Only the message in hand makes the bound inductive: `ScrapeIsConsistent`.
3. `OrderInv`: what was exported, then the message in hand, then the ring are in order
   and were all received; without the message in hand order could be lost between
   `recv_timeout` and the export: `OrderIsKept`.
4. `LossOK` adds to `LossBounded` that `Offers` is finite, that the ring is bounded and
   empty once closed, and that nothing is missing before the server starts. An offered
   message is new (`OfferAdds`): an offer adds one to the messages and one to the ring or the refusals, a receive moves
   one to the hand and a count from there, and only `Close` loses what `q` holds, which
   fits the ring: `LossIsBounded`.
5. `ConfigInv` (`LaunchesAssumption`: the settings that are interpolated are texts): the
   configuration's texts are `Subst` of the file's. `Cuttable` says that from every place
   of a text on there are cuts whose pieces, replaced, join to what `Subst` yields from
   there on. The code copies an unclosed reference whole and the cuts do it symbol by
   symbol, which is the same since nothing behind it is closed either
   (`UnclosedCopied`): `ReferencesExact`, for every text and every environment.

**`MatcherProofs`** (`MatcherAssumption`). `MatcherInv` says of every pending capture on
the call stack that the segments before it spell out the line up to its start and that
the captures below it in the context are theirs (`Covered`); between a capture's
attempts the context has one entry less than the stack. With `caps.pop()` out of place
this breaks at once. From it: `MatchTilesLine`. `ResultOK` says that the result of
`parse_line` is the record built from the captures the context still holds, and
`RedactHides` what mask and digest leave to be seen: `RedactionHolds`. `ExportOK` keeps
that the captures of the result fit their segments' types (`CapsFit`); with
`ScalarAssumption` (a text read as a `u64` is below 2^64, one read as a `usize` is not
negative) every value then takes the branch of its type in `model.rs`: `ExportsDeclared`.
`SearchOK` holds every way to spell out the line against the path on the call stack. Before
a segment is tried, a way agrees with the path or loses against it (`AheadOf`); when an
attempt of a capture has failed, a way that agrees with the path before the capture ends
it at a place not tried yet (`BehindOf`). With an empty stack no way is left:
`SearchIsComplete`.

**`InferenceProofs`** (`AlphabetAssumption`, `CommandsAssumption`, `RepliesAssumption`:
the texts are trees over an alphabet that contains the program's own words; the retry
counts are natural numbers). `LoaderInv` follows the schema parser and compiler through
a text: `FormatsOK` relates each finished format to its block, `CompiledOK` each compiled
one to its format. `ClientInv` adds `AttemptsOK` (attempt k is reply k, stripped, with its
number and an error), `RoundsOK` (replies against attempts at each place of the loop) and
`EndsOK`. From it: `FeedbackIsComplete` and `PrintedIsFirstValid`, for every provider,
every text and every number of retries.

`CutInv` follows the tokenizer: at every place of its two loops the parts found so far, put
back together, are the text up to there, every part is whole, and the braces read since
the opening balance up to `depth` (`Nested`). From it: `PatternsAreCut`. The same
invariant carries the grok engine's tokens along (`ScanToks`, `OpenToks`): what `Tokens`
yields for the whole pattern is the parts so far and then what it yields from here on.
With `Refused` (a pattern the schema parser refuses is refused by the grok engine too),
`BuiltInv` (what is compiled is `Built`, as the generator builds it) and
`LibraryAssumption` (the library's names are words): `TwinsStayEqual`. The expansion of
the library's references is a recursive function of the chain of names; that it exists
rests on the depth limit.

Only model-checked: liveness (`ShutdownSettles`, `StopReturns`, `BacklogServed`,
`PushReturns`, `ShutdownJoins`, `RingDrained`, `HttpExportReturns`, `MatchEnds`,
`InferenceEnds`), which needs fairness and `ENABLED`; and the four runs that show a
disagreement.

## 6. What is not modelled

* Decoding of `sockaddr` and of control messages in `server.rs`: byte layouts of the
  platform. The address only travels inside a message; what is done with the decoded
  drop count is in `UdpRecv`.
* `security.rs` of the compiler: `sanitize` filters the bytes of one text and nothing
  calls it. The `send_log` tool, fuzz targets, benches, packaging, deployment.
* Matching in the grok engine (the regex crate's) and what the library's regular
  expressions match; the text of the generated Rust module.
* The TOML parser and the defaults serde fills in; logging; numbers and switches of the
  configuration that are handed through.
* The wording of prompts and the JSON around a reply of a provider; the `ureq` and
  `tonic` internals (an attempt succeeds, fails, or times out).
* Inside modelled parts: the lexical rules of the grammar (blanks, comments,
  quoting); `str::parse`, address and time parsers (parameters); an answer with
  `partialSuccess`, whose body is never read; failure to serialise a payload; times,
  resource and version of a log record; arithmetic overflow as a panic, which only
  debug builds do; the cost of backtracking.
* Messages still in the ring when the daemon stops are not exported; that is how the
  code is, and `LossBounded` says how many they can be.
* `OtlpModel` translates the severity of a log record for completeness; no property
  depends on it (section 7 says what it shows).

## 7. Disagreements between code and documentation

Four have a run of their own, each with the line it contradicts in
`PROJECT.json` under `findings`:

* `daemon_idle_client`: the metrics thread reads a request without a timeout, so
  a client that connects and says nothing keeps `Drop` in its join.
* `exporter_grpc_hangs`: the gRPC call has no timeout; `timeout_ms` is "Total
  request timeout per attempt".
* `reader_reject`: after an over-long line is rejected the next call returns the
  rejected bytes as a line; the documentation says the reader "stops".
* `matcher_wide`: the matcher panics on a line with a multi-byte character that
  the format would match.

Others, met while modelling, that the models show but no run is kept for:

* `server.rs:293`: on Linux the read of an accepted stream blocks without a
  timeout, although `read_timeout_ms` (`server.rs:27`) is "used to periodically
  re-check the shutdown flag". `ShutdownSettles` names the exception.
* `server.rs:265`: connection threads are not joined; `server.rs:178` says "join
  all worker threads".
* `framing.rs:136`: a frame whose LF is in the buffer is handed out whatever its
  length; `server.rs:34` calls the ceiling "enforced". `OversizeBounded` is what
  holds.
* `framing.rs:95`: in `OctetCounting` a stream without a space, and at line 104
  one whose prefix is no length, is kept without bound; `framing.rs:6-9` says
  decoding is bounded. `BoundedWhenMeasured` names both exceptions.
* `framing.rs:88`: in `Auto` nothing is decided before the first space, so a stream of
  lines without a space yields no frame until it ends and is kept without bound.
  `framing.rs:14-15` says `Auto` "otherwise falls back to LF-delimited", and 6-9 that
  growth is bounded. `Frames` has the same rule, as the code has it, and
  `BoundedWhenMeasured` exempts it.
* `framing.rs:73`: `flush` hands out the rest as it is; `message.rs:30` says "no
  framing delimiters".
* `metrics_http.rs:42`: where an accepted socket inherits non-blocking mode, a
  request that arrives after the accept is answered 404.
* `lib.rs:185` of the daemon: the worker holds the mutex through `recv_timeout` and
  takes it again at once; an unfair mutex lets a scrape wait for ever.
* `metrics_http.rs:47`: `/healthz` answers 200 after the worker has died.
* `grpc.rs:132`: no retry over gRPC; `tpt-otlp/README.md:24-25` promises retries.
  `exporter.rs:143`: permanent errors are retried; `exporter.rs:39` says "on
  transient failure".
* `compile.rs:417`: of two captures with one name only the first is redacted.
  `compile.rs:516`: the mask keeps the last two bytes, not characters, and panics where
  that cuts a character.
* `compile.rs:105`: a Grok name without a native type is accepted when the capture
  names a type; `compile.rs:12-14` says it is rejected. FLOAT has a native type but is
  not in the Grok library.
* A capture of more than three words is accepted by the schema parser, which ignores the
  rest, and is `BadCapture` in the Grok engine.
* `schema.pest:27`: `coerce x to ipv4` does not parse, since `ip` comes first in the
  ordered choice.
* `compile.rs:120`: `extract` statements are parsed and then ignored.
* `model.rs:116`: a `u64` above `i64::MAX` is exported as a negative number.
  `model.rs:153-174`: severity 5 is 11 (as an enum) or 9 (as an int), and a severity of
  type uint is always 9.
* `main.rs:117` of the daemon: `--check` prints "config OK" without looking at addresses
  or schema, although the usage (`main.rs:194-195`) says "Validate"; a bind address that does
  not parse then is a panic (`config.rs:126`).
* `main.rs:153`: the health check needs a numeric address and probes 127.0.0.1, although
  the listener may be bound to a host name or to one interface.
* `config.rs:104` says all string fields are interpolated; the scope name is not.
* `prompt.rs:64` of the inference client: the rest of the line behind an opening fence is
  dropped as a language tag, with every block that stands on it; a fenced reply on one
  line becomes an empty schema, which is accepted. `clients.rs:17`: the
  samples are in every prompt twice. `clients.rs:266`: the flaky mock's branch for an
  empty context is never taken.
* `server.rs:457`: the address family is read from byte 1 of the `sockaddr`, which
  is 0 on a little-endian Linux (not modelled).

## 8. Plan

Done, in this order: the abstract ring and the server; its invariants and the
refinement proof; the decoder and its proofs; the daemon on top of the abstract
ring; the exporter; the reader and its proofs; matcher and records; schema; the
configuration and the program's start around the daemon; the OTLP data model behind
the matcher; grok engine and code generator against the schema compiler; the
inference client around all of these; the proofs of exporter, program, matcher and
inference client; then proofs of what was only model-checked of the safety properties:
the accounting of messages, the time an export takes, the completeness of the search, what
is exported, and the comparisons with recursive definitions (frames, lines, patterns,
tokens, references); the reader's buffer as the array it is, and the accounts of every
byte of a stream and of every message the daemon is offered.

Left:

1. `SyslogServer`: the kernel's overflow figure never exceeds its drops (needs more
   datagrams on Linux than the liveness run can carry; as an invariant it can be proved).
2. Progress measures: each loop that `PushReturns`, `MatchEnds` and `HttpExportReturns`
   are about goes down in a measure with every step, as an action property. That is the
   part of termination that needs no fairness.
3. `Sockaddr`: decoding of addresses as operators over bytes, against the layout of the
   platform.
