------------------------------ MODULE Exporter ------------------------------
(***************************************************************************)
(* One call of Exporter::export (tpt-otlp): the records are cut into       *)
(* batches of at most batch_size, each batch becomes one payload, and      *)
(* export_payload hands it to the HTTP or to the gRPC transport.  HTTP     *)
(* retries up to max_retries times and sleeps between attempts; gRPC tries *)
(* once.  The first payload that fails ends the call.                      *)
(*                                                                         *)
(* The collector and the network are the environment: a request on the    *)
(* wire may be stored, lost or stored late, after the exporter has stopped *)
(* waiting for it; an answer may be lost.  Records are numbered from 1;    *)
(* what a record holds and how it is serialised is left out.               *)
(***************************************************************************)
EXTENDS Naturals, FiniteSets

CONSTANTS
  MaxRecords,    \* the longest slice passed to export
  BatchSizes,    \* values of config.batch_size, 0 included
  Retries,       \* values of config.max_retries
  Transports,    \* subset of {"http", "grpc"}
  Schemes,       \* schemes of config.endpoint, subset of {"http", "https"}
  Builds,        \* cargo features, subset of {"default", "grpc", "tls"}
  Backoffs,      \* values of config.base_backoff_ms
  BackoffCap,    \* 30_000 in export_http
  U64,           \* 2^64: backoff * 2 is taken modulo U64
  Timeout        \* config.timeout_ms

ASSUME ExporterAssumption ==
  /\ MaxRecords \in Nat
  /\ BatchSizes \subseteq Nat
  /\ Retries \subseteq Nat
  /\ Transports \subseteq {"http", "grpc"}
  /\ Schemes \subseteq {"http", "https"}
  /\ Builds \subseteq {"default", "grpc", "tls"}
  /\ U64 \in Nat \ {0}
  /\ Backoffs \subseteq 0 .. U64 - 1
  /\ BackoffCap \in Nat
  /\ Timeout \in Nat

\* The fields of ExporterConfig that export reads, and the cargo features the
\* crate is built with: tls includes grpc.
Configs ==
  [transport : Transports, batchSize : BatchSizes, maxRetries : Retries,
   backoff : Backoffs, requireTls : BOOLEAN, scheme : Schemes,
   headers : BOOLEAN, build : Builds]

VARIABLES
  config,    \* self.config
  count,     \* records.len()
  start,     \* start and end of export: the current batch is
  end,       \*   start + 1 .. end
  stage,     \* where the call stands
  attempt,   \* attempt of export_http
  backoff,   \* backoff of export_http
  result,    \* what export returned
  why,       \* what made the last attempt fail
  wire,      \* requests sent and neither stored nor lost
  sent,      \* how many requests this call has sent
  answered,  \* the collector has answered the current request
  stored,    \* per record, how often the collector has stored it
  waited     \* the longest this call can have taken so far, in ms

callVars == <<config, count, start, end, attempt, backoff>>
wireVars == <<wire, sent, answered, stored>>
vars == <<callVars, wireVars, stage, result, why, waited>>

Request == [id : Nat, first : Nat, last : Nat]

\* What an attempt may fail with: the peer is unreachable or answers too
\* late, it is overloaded (429, 5xx), or it refuses the request for good
\* (any other status, or a request that cannot be built).
Failures == {"transport", "overload", "permanent"}

Least(a, b) == IF a <= b THEN a ELSE b
Most(a, b) == IF a >= b THEN a ELSE b

Init ==
  /\ config \in Configs
  /\ count \in 0 .. MaxRecords
  /\ start = 0 /\ end = 0
  /\ stage = "batch"
  /\ attempt = 0 /\ backoff = 0
  /\ result = "none" /\ why = "none"
  /\ wire = {} /\ sent = 0 /\ answered = FALSE
  /\ stored = [r \in 1 .. MaxRecords |-> 0]
  /\ waited = 0

Return(r) == stage' = "done" /\ result' = r

-----------------------------------------------------------------------------
(* export *)

\* The next slice of records becomes a payload.
NextBatch ==
  /\ stage = "batch"
  /\ start < count
  /\ end' = Least(start + Most(config.batchSize, 1), count)
  /\ stage' = "payload"
  /\ UNCHANGED <<config, count, start, attempt, backoff, wireVars, result, why,
                 waited>>

\* No records, or none left.
AllExported ==
  /\ stage = "batch"
  /\ start >= count
  /\ Return("Ok")
  /\ UNCHANGED <<callVars, wireVars, why, waited>>

-----------------------------------------------------------------------------
(* export_payload *)

\* Mutation: the guard covers one transport only.
InsecureHttpOnly ==
  config.requireTls /\ config.scheme # "https" /\ config.headers /\ config.transport = "http"

\* Secret headers over an endpoint that is not https.
Insecure == config.requireTls /\ config.scheme # "https" /\ config.headers

RefuseInsecure ==
  /\ stage = "payload"
  /\ Insecure
  /\ Return("InsecureTransport")
  /\ UNCHANGED <<callVars, wireVars, why, waited>>

\* export_http is entered: its locals are initialised.
EnterHttp ==
  /\ stage = "payload"
  /\ ~Insecure
  /\ config.transport = "http"
  /\ attempt' = 0
  /\ backoff' = config.backoff
  /\ stage' = "http"
  /\ UNCHANGED <<config, count, start, end, wireVars, result, why, waited>>

\* The grpc feature is off, or an https endpoint without the tls feature.
GrpcUnavailable ==
  /\ stage = "payload"
  /\ ~Insecure
  /\ config.transport = "grpc"
  /\ \/ config.build = "default" /\ Return("GrpcFeatureDisabled")
     \/ config.build = "grpc" /\ config.scheme = "https" /\ Return("Transport")
  /\ UNCHANGED <<callVars, wireVars, why, waited>>

CanConnect ==
  config.build = "tls" \/ (config.build = "grpc" /\ config.scheme # "https")

Send ==
  /\ wire' = wire \cup {[id |-> sent + 1, first |-> start + 1, last |-> end]}
  /\ sent' = sent + 1
  /\ answered' = FALSE
  /\ stage' = "wait"
  /\ waited' = waited + Timeout
  /\ UNCHANGED stored

\* export_grpc connects, builds the request and calls client.export.
SendGrpc ==
  /\ stage = "payload"
  /\ ~Insecure
  /\ config.transport = "grpc"
  /\ CanConnect
  /\ Send
  /\ UNCHANGED <<callVars, result, why>>

\* tokio_runtime, make_channel or the header conversion fails: nothing is
\* sent.
GrpcSetupFails(f) ==
  /\ stage = "payload"
  /\ ~Insecure
  /\ config.transport = "grpc"
  /\ CanConnect
  /\ Return("Transport")
  /\ why' = f
  /\ UNCHANGED <<callVars, wireVars, waited>>

-----------------------------------------------------------------------------
(* export_http *)

SendHttp ==
  /\ stage = "http"
  /\ Send
  /\ UNCHANGED <<callVars, result, why>>

\* The request fails before a byte of it has been sent.
ConnectFails ==
  /\ stage = "http"
  /\ stage' = "failed"
  /\ why' = "transport"
  /\ waited' = waited + Timeout
  /\ UNCHANGED <<callVars, wireVars, result>>

\* Mutation: the next slice starts one record late.
AttemptOkSkips ==
  /\ stage = "wait"
  /\ answered
  /\ stage' = "batch"
  /\ start' = Least(end + 1, count)
  /\ UNCHANGED <<config, count, end, attempt, backoff, wireVars, result, why,
                 waited>>

\* Ok(_): the payload is done, and export moves on to the next slice.
AttemptOk ==
  /\ stage = "wait"
  /\ answered
  /\ stage' = "batch"
  /\ start' = end
  /\ UNCHANGED <<config, count, end, attempt, backoff, wireVars, result, why,
                 waited>>

\* Err(e): an error status (of the collector, or of a proxy in front of it
\* that may still pass the request on), a broken connection, a lost answer.
AttemptErr(f) ==
  /\ stage = "wait"
  /\ why' = f
  /\ IF config.transport = "http"
       THEN stage' = "failed" /\ UNCHANGED result
       ELSE Return("Transport")
  /\ UNCHANGED <<callVars, wireVars, waited>>

\* Mutation: the timeout covers sending only.
AttemptTimesOutBeforeSend ==
  /\ stage = "wait"
  /\ config.transport = "http"
  /\ wire # {}
  /\ stage' = "failed"
  /\ why' = "transport"
  /\ UNCHANGED <<callVars, wireVars, result, waited>>

\* The total timeout ureq is given elapses.  The gRPC request has none.
AttemptTimesOut ==
  /\ stage = "wait"
  /\ config.transport = "http"
  /\ stage' = "failed"
  /\ why' = "transport"
  /\ UNCHANGED <<callVars, wireVars, result, waited>>

\* attempt >= max_retries.
GiveUp ==
  /\ stage = "failed"
  /\ attempt >= config.maxRetries
  /\ Return("RetriesExhausted")
  /\ UNCHANGED <<callVars, wireVars, why, waited>>

\* Mutation: one retry too many.
RetryOnceMore ==
  /\ stage = "failed"
  /\ attempt <= config.maxRetries
  /\ attempt' = attempt + 1
  /\ stage' = "sleep"
  /\ UNCHANGED <<config, count, start, end, backoff, wireVars, result, why,
                 waited>>

\* Another attempt is left.
Retry ==
  /\ stage = "failed"
  /\ attempt < config.maxRetries
  /\ attempt' = attempt + 1
  /\ stage' = "sleep"
  /\ UNCHANGED <<config, count, start, end, backoff, wireVars, result, why,
                 waited>>

\* Mutation: the backoff doubles without a cap.
SleepUncapped ==
  /\ stage = "sleep"
  /\ waited' = waited + backoff
  /\ backoff' = (backoff * 2) % U64
  /\ stage' = "http"
  /\ UNCHANGED <<config, count, start, end, attempt, wireVars, result, why>>

\* thread::sleep(backoff), then the backoff doubles up to the cap.
Sleep ==
  /\ stage = "sleep"
  /\ waited' = waited + backoff
  /\ backoff' = Least((backoff * 2) % U64, BackoffCap)
  /\ stage' = "http"
  /\ UNCHANGED <<config, count, start, end, attempt, wireVars, result, why>>

-----------------------------------------------------------------------------
(* The collector and the network *)

\* A request arrives and its records are stored, whether or not the exporter
\* still waits for the answer.
CollectorStores(m) ==
  /\ wire' = wire \ {m}
  /\ stored' = [r \in DOMAIN stored |->
                  stored[r] + (IF r \in m.first .. m.last THEN 1 ELSE 0)]
  /\ answered' = (answered \/ (stage = "wait" /\ m.id = sent))
  /\ UNCHANGED <<callVars, sent, stage, result, why, waited>>

\* A request is lost, or refused without being stored.
RequestLost(m) ==
  /\ wire' = wire \ {m}
  /\ UNCHANGED <<callVars, sent, answered, stored, stage, result, why, waited>>

Returned ==
  /\ stage = "done"
  /\ wire = {}
  /\ UNCHANGED vars

-----------------------------------------------------------------------------

Export ==
  \/ NextBatch \/ AllExported
  \/ RefuseInsecure \/ EnterHttp \/ GrpcUnavailable \/ SendGrpc
  \/ \E f \in {"transport", "permanent"} : GrpcSetupFails(f)
  \/ SendHttp \/ ConnectFails \/ AttemptOk
  \/ GiveUp \/ Retry \/ Sleep \/ AttemptTimesOut

Environment ==
  \/ \E f \in Failures : AttemptErr(f)
  \/ \E m \in wire : CollectorStores(m) \/ RequestLost(m)

Next == Export \/ Environment \/ Returned

Spec == Init /\ [][Next]_vars

\* The thread that called export runs, and ureq's timer fires.  Nothing is
\* assumed of the collector or of the network.
FairSpec == Spec /\ WF_vars(Export)

-----------------------------------------------------------------------------

\* Batches go out in order and none is skipped: every record before the
\* current batch has been stored, and no record after it has been sent.  An
\* export that fails in a later batch has exported exactly a prefix, plus
\* possibly the batch that failed; one that returns Ok, everything.
PrefixOnly ==
  /\ start <= end /\ end <= count
  /\ result = "Ok" => start = count
  /\ \A r \in 1 .. start : stored[r] >= 1
  /\ \A r \in end + 1 .. MaxRecords :
       stored[r] = 0 /\ \A m \in wire : r > m.last

\* A record reaches the collector at most once per attempt, so a lost answer
\* costs at most max_retries duplicates over HTTP, and none over gRPC.
DuplicatesBounded ==
  \A r \in 1 .. MaxRecords :
    stored[r] <= IF config.transport = "http" THEN config.maxRetries + 1 ELSE 1

\* A request never carries headers to an endpoint that is not https when
\* require_tls is set, and then the caller learns why nothing was sent.
SecretsStayHome ==
  config.requireTls /\ config.headers /\ config.scheme # "https" =>
    /\ sent = 0
    /\ result \in {"none", "InsecureTransport"} \/ count = 0

\* Batches export has begun.
Begun == Cardinality({k \in 1 .. end :
           \E j \in 0 .. MaxRecords : k = j * Most(config.batchSize, 1) + 1})

\* The thread that exports (the daemon's only worker) is kept at most one
\* timeout per attempt and one sleep per retry for every batch, so the
\* daemon sees its stop flag within that time.  A sleep is never longer than
\* the cap, or than the configured base when that is larger.
BlockedBound ==
  config.transport = "http" =>
    waited <= Begun * ((config.maxRetries + 1) * Timeout
                        + config.maxRetries * Most(config.backoff, BackoffCap))

\* Every call of export returns.
ExportReturns == <>(stage = "done")

\* Over HTTP every call of export returns, even if the collector never answers.
HttpExportReturns == config.transport = "http" => ExportReturns
=============================================================================
