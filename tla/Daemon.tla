------------------------------- MODULE Daemon -------------------------------
(***************************************************************************)
(* tpt-daemon: the worker thread (run_worker), the metrics thread          *)
(* (run_metrics) and the main thread with the handle it drops              *)
(* (main, RunningDaemon::stop, RunningDaemon::drop).  The three share the  *)
(* stop flag, three counters and the syslog server, which sits behind one  *)
(* mutex and is dropped with the last of the two threads that hold it.     *)
(*                                                                         *)
(* The syslog server is IngestRing, which SyslogServer implements: the     *)
(* daemon sees of it a ring that sources fill and recv_timeout empties.    *)
(* A parse ends in a record, in no match or in a panic; an export in Ok or *)
(* in Err (Exporter models what happens inside).                           *)
(***************************************************************************)
EXTENDS IngestRing, Integers, FiniteSets

CONSTANTS
  Clients,     \* connections to the metrics listener
  Idle,        \* the clients that may connect and never send a request
  Linux,       \* accepted sockets block: they do not inherit O_NONBLOCK
  MaxOffers    \* bound: messages a source offers

ASSUME DaemonAssumption ==
  /\ Idle \subseteq Clients
  /\ Linux \in BOOLEAN
  /\ MaxOffers \in Nat

VARIABLES
  alive,       \* the sources that hold a sending end of the ring
  stop,        \* the shared shutdown flag
  lock,        \* who holds the mutex around the server
  refs,        \* the threads that own a clone of the Arc around it
  worker,      \* where the worker is
  msg,         \* the message the worker has in hand
  counters,    \* received, exported and errors
  handed,      \* the messages whose export returned Ok, in order
  metrics,     \* where the metrics thread is
  client,      \* the client it serves
  path,        \* the path that client asked for
  peer,        \* per client, what it has done
  answer,      \* per client, the answer it got
  page,        \* what render_metrics has loaded of the counters
  main         \* where the main thread is

workerVars == <<worker, msg, handed>>
metricsVars == <<metrics, client, path, answer, page>>
vars == <<ringVars, workerVars, metricsVars, alive, stop, lock, refs, counters,
          peer, main>>

\* The values of peer: "away", connected and "silent", sent "part" of a request or
\* a whole GET of "healthz" or "metrics", or "cut" the request: closed its side, or
\* sent more than 8192 bytes, before the blank line.

Nobody == "nobody"
NoMsg == [src |-> Nobody, n |-> 0]
Zero == [received |-> 0, exported |-> 0, errors |-> 0]

\* Before anything has been started.
ThreadsInit ==
  /\ q = <<>> /\ open = FALSE /\ offered = [s \in Sources |-> 0] /\ refused = 0
  /\ alive = {} /\ stop = FALSE /\ lock = "free" /\ refs = {}
  /\ worker = "none" /\ msg = NoMsg /\ handed = <<>>
  /\ counters = Zero
  /\ metrics = "none" /\ client = Nobody /\ path = "none" /\ page = Zero
  /\ peer = [c \in Clients |-> "away"]
  /\ answer = [c \in Clients |-> "none"]

-----------------------------------------------------------------------------
(* The syslog server's threads, as the ring shows them *)

Offer(s) ==
  /\ s \in alive
  /\ offered[s] < MaxOffers
  /\ Accept(s) \/ Refuse(s)
  /\ UNCHANGED <<workerVars, metricsVars, alive, stop, lock, refs, counters,
                 peer, main>>

\* A receiver loop breaks on an error, and drops its sending end.
SourceEnds(s) ==
  /\ s \in alive
  /\ alive' = alive \ {s}
  /\ UNCHANGED <<ringVars, workerVars, metricsVars, stop, lock, refs, counters,
                 peer, main>>

\* The last Arc is gone: SyslogServer::drop raises the server's own flag and
\* joins nothing, and the receiving end is dropped with the struct.  Sources
\* may live on for a while and find the ring closed.
ServerDropped ==
  /\ refs = {}
  /\ Close
  /\ UNCHANGED <<workerVars, metricsVars, alive, stop, lock, refs, counters, peer,
                 main>>

-----------------------------------------------------------------------------
(* run_worker *)

WorkerLeaves(how) ==
  /\ worker' = how
  /\ refs' = refs \ {"worker"}

\* Mutation: the worker does not look at the shutdown flag.
WorkerCheckIgnoresStop ==
  /\ worker = "check"
  /\ worker' = "lock"
  /\ UNCHANGED <<ringVars, msg, handed, metricsVars, alive, stop, lock, refs,
                 counters, peer, main>>

\* while !stop.load(..)
WorkerCheck ==
  /\ worker = "check"
  /\ IF stop THEN WorkerLeaves("exited") ELSE worker' = "lock" /\ UNCHANGED refs
  /\ UNCHANGED <<ringVars, msg, handed, metricsVars, alive, stop, lock,
                 counters, peer, main>>

\* server.lock()
WorkerLock ==
  /\ worker = "lock"
  /\ lock = "free"
  /\ lock' = "worker"
  /\ worker' = "recv"
  /\ UNCHANGED <<ringVars, msg, handed, metricsVars, alive, stop, refs,
                 counters, peer, main>>

\* Mutation: the message stays in the ring.
WorkerRecvPeeks ==
  /\ worker = "recv"
  /\ open /\ q # <<>>
  /\ msg' = Head(q)
  /\ worker' = "count"
  /\ lock' = "free"
  /\ UNCHANGED <<ringVars, handed, metricsVars, alive, stop, refs, counters,
                 peer, main>>

\* Mutation: a message received after the flag went up is thrown away.
WorkerRecvUnlessStopped ==
  /\ worker = "recv"
  /\ Take
  /\ msg' = IF stop THEN NoMsg ELSE Head(q)
  /\ worker' = IF stop THEN "check" ELSE "count"
  /\ lock' = "free"
  /\ UNCHANGED <<handed, metricsVars, alive, stop, refs, counters, peer, main>>

\* recv_timeout returns Ok(m), and the guard of the mutex is dropped.
WorkerRecv ==
  /\ worker = "recv"
  /\ Take
  /\ msg' = Head(q)
  /\ worker' = "count"
  /\ lock' = "free"
  /\ UNCHANGED <<handed, metricsVars, alive, stop, refs, counters, peer, main>>

\* Mutation: the receive gives up although a message is waiting.
WorkerTimeoutEarly ==
  /\ worker = "recv"
  /\ alive # {}
  /\ worker' = "check"
  /\ lock' = "free"
  /\ UNCHANGED <<ringVars, msg, handed, metricsVars, alive, stop, refs,
                 counters, peer, main>>

\* recv_timeout gives up after 100 ms.
WorkerTimeout ==
  /\ worker = "recv"
  /\ q = <<>> /\ alive # {}
  /\ worker' = "check"
  /\ lock' = "free"
  /\ UNCHANGED <<ringVars, msg, handed, metricsVars, alive, stop, refs,
                 counters, peer, main>>

\* No sender is left: break.
WorkerDisconnected ==
  /\ worker = "recv"
  /\ q = <<>> /\ alive = {}
  /\ WorkerLeaves("exited")
  /\ lock' = "free"
  /\ UNCHANGED <<ringVars, msg, handed, metricsVars, alive, stop, counters,
                 peer, main>>

\* received.fetch_add(1)
WorkerCount ==
  /\ worker = "count"
  /\ counters' = [counters EXCEPT !.received = @ + 1]
  /\ worker' = "parse"
  /\ UNCHANGED <<ringVars, msg, handed, metricsVars, alive, stop, lock, refs,
                 peer, main>>

\* parser.parse_line returns a record.
WorkerParses ==
  /\ worker = "parse"
  /\ worker' = "export"
  /\ UNCHANGED <<ringVars, msg, handed, metricsVars, alive, stop, lock, refs,
                 counters, peer, main>>

\* No format matches: the message is counted as received and forgotten.
WorkerSkips ==
  /\ worker = "parse"
  /\ worker' = "check"
  /\ msg' = NoMsg
  /\ UNCHANGED <<ringVars, handed, metricsVars, alive, stop, lock, refs,
                 counters, peer, main>>

\* match_segments slices the line inside a multi-byte character: the thread
\* unwinds, outside the mutex, and drops its Arc.
WorkerPanics ==
  /\ worker = "parse"
  /\ WorkerLeaves("panicked")
  /\ msg' = NoMsg
  /\ UNCHANGED <<ringVars, handed, metricsVars, alive, stop, lock, counters,
                 peer, main>>

\* exporter.export returns Ok.
WorkerExports ==
  /\ worker = "export"
  /\ counters' = [counters EXCEPT !.exported = @ + 1]
  /\ handed' = Append(handed, msg)
  /\ msg' = NoMsg
  /\ worker' = "check"
  /\ UNCHANGED <<ringVars, metricsVars, alive, stop, lock, refs, peer, main>>

\* exporter.export returns Err: the message is dropped.
WorkerExportFails ==
  /\ worker = "export"
  /\ counters' = [counters EXCEPT !.errors = @ + 1]
  /\ msg' = NoMsg
  /\ worker' = "check"
  /\ UNCHANGED <<ringVars, handed, metricsVars, alive, stop, lock, refs, peer,
                 main>>

-----------------------------------------------------------------------------
(* run_metrics *)

\* if stop.load(..) { break; }
MetricsCheck ==
  /\ metrics = "check"
  /\ IF stop
       THEN metrics' = "exited" /\ refs' = refs \ {"metrics"}
       ELSE metrics' = "accept" /\ UNCHANGED refs
  /\ UNCHANGED <<ringVars, workerVars, path, client, answer, page, alive, stop, lock,
                 counters, peer, main>>

Waiting == {c \in Clients : peer[c] # "away" /\ answer[c] = "none"}

\* listener.accept() returns a stream.
MetricsAccept(c) ==
  /\ metrics = "accept"
  /\ c \in Waiting
  /\ client' = c
  /\ metrics' = "read"
  /\ UNCHANGED <<ringVars, workerVars, path, answer, page, alive, stop, lock, refs,
                 counters, peer, main>>

\* WouldBlock: sleep 50 ms.
MetricsNoClient ==
  /\ metrics = "accept"
  /\ Waiting = {}
  /\ metrics' = "check"
  /\ UNCHANGED <<ringVars, workerVars, path, client, answer, page, alive, stop, lock,
                 refs, counters, peer, main>>

\* accept fails for good: break.
MetricsAcceptError ==
  /\ metrics = "accept"
  /\ metrics' = "exited"
  /\ refs' = refs \ {"metrics"}
  /\ UNCHANGED <<ringVars, workerVars, path, client, answer, page, alive, stop,
                 lock, counters, peer, main>>

\* The loop over stream.read ends at the blank line after a request, when
\* the peer has closed its side or sent too much, and on an error; a read of
\* a socket that does not block is an error when nothing has arrived.
ReadEnds(c) == peer[c] \in {"healthz", "metrics", "cut"} \/ ~Linux

\* What extract_path may see: it takes the first line as it stands, complete
\* or not.
Paths(c) ==
  IF peer[c] \in {"healthz", "metrics"} THEN {peer[c]}
  ELSE IF peer[c] = "silent" THEN {"other"}
  ELSE {"healthz", "metrics", "other"}

\* The request is read and routed.
MetricsRead ==
  /\ metrics = "read"
  /\ ReadEnds(client)
  /\ path' \in Paths(client)
  /\ metrics' = IF path' = "metrics" THEN "lock" ELSE "write"
  /\ UNCHANGED <<ringVars, workerVars, client, answer, page, alive, stop, lock,
                 refs, counters, peer, main>>

\* Mutation: the page is rendered without the mutex.
MetricsLockSkipped ==
  /\ metrics = "lock"
  /\ lock = "free"
  /\ metrics' = "received"
  /\ UNCHANGED <<ringVars, workerVars, path, client, answer, page, alive, stop, lock,
                 refs, counters, peer, main>>

\* server.lock() for the rendering of /metrics.
MetricsLock ==
  /\ metrics = "lock"
  /\ lock = "free"
  /\ lock' = "metrics"
  /\ metrics' = "received"
  /\ UNCHANGED <<ringVars, workerVars, path, client, answer, page, alive, stop, refs,
                 counters, peer, main>>

\* render_metrics loads the counters one after the other.
RenderReceived ==
  /\ metrics = "received"
  /\ page' = [Zero EXCEPT !.received = counters.received]
  /\ metrics' = "exported"
  /\ UNCHANGED <<ringVars, workerVars, path, client, answer, alive, stop, lock, refs,
                 counters, peer, main>>

RenderExported ==
  /\ metrics = "exported"
  /\ page' = [page EXCEPT !.exported = counters.exported]
  /\ metrics' = "errors"
  /\ UNCHANGED <<ringVars, workerVars, path, client, answer, alive, stop, lock, refs,
                 counters, peer, main>>

\* The last counter, and the guard of the mutex is dropped.
RenderErrors ==
  /\ metrics = "errors"
  /\ page' = [page EXCEPT !.errors = counters.errors]
  /\ lock' = "free"
  /\ metrics' = "write"
  /\ UNCHANGED <<ringVars, workerVars, path, client, answer, alive, stop, refs,
                 counters, peer, main>>

\* The response is written and the stream dropped.
MetricsWrite ==
  /\ metrics = "write"
  /\ answer' = [answer EXCEPT ![client] =
                  IF path = "other" THEN "404" ELSE "200"]
  /\ client' = Nobody
  /\ path' = "none"
  /\ metrics' = "check"
  /\ UNCHANGED <<ringVars, workerVars, page, alive, stop, lock, refs, counters,
                 peer, main>>

-----------------------------------------------------------------------------
(* The clients of the metrics listener *)

ClientStep(c, from, to) ==
  /\ peer[c] \in from
  /\ peer' = [peer EXCEPT ![c] = to]
  /\ UNCHANGED <<ringVars, workerVars, metricsVars, alive, stop, lock, refs,
                 counters, main>>

ClientConnects(c) == ClientStep(c, {"away"}, "silent")
ClientStarts(c) == ClientStep(c, {"silent"}, "part")
ClientSends(c) ==
  \E p \in {"healthz", "metrics"} : ClientStep(c, {"silent", "part"}, p)
ClientCuts(c) == ClientStep(c, {"silent", "part"}, "cut")

-----------------------------------------------------------------------------
(* main and RunningDaemon *)

\* The Ctrl-C handler, or RunningDaemon::stop.
Signal ==
  /\ ~stop
  /\ stop' = TRUE
  /\ UNCHANGED <<ringVars, workerVars, metricsVars, alive, lock, refs, counters,
                 peer, main>>

\* main leaves its loop, calls running.stop() and drops the handle.
MainPoll ==
  /\ main = "poll"
  /\ stop
  /\ main' = "join_worker"
  /\ UNCHANGED <<ringVars, workerVars, metricsVars, alive, stop, lock, refs,
                 counters, peer>>

\* A program that uses the library drops the handle without calling stop.
HandleDropped ==
  /\ main = "poll"
  /\ ~stop
  /\ stop' = TRUE
  /\ main' = "join_worker"
  /\ UNCHANGED <<ringVars, workerVars, metricsVars, alive, lock, refs, counters,
                 peer>>

JoinWorker ==
  /\ main = "join_worker"
  /\ worker \in {"exited", "panicked"}
  /\ main' = "join_metrics"
  /\ UNCHANGED <<ringVars, workerVars, metricsVars, alive, stop, lock, refs,
                 counters, peer>>

\* Whichever thread ended last has dropped the server before it ended.
JoinMetrics ==
  /\ main = "join_metrics"
  /\ metrics = "exited"
  /\ ~open
  /\ main' = "exited"
  /\ UNCHANGED <<ringVars, workerVars, metricsVars, alive, stop, lock, refs,
                 counters, peer>>

-----------------------------------------------------------------------------

Worker ==
  \/ WorkerCheck \/ WorkerLock
  \/ WorkerRecv \/ WorkerTimeout \/ WorkerDisconnected
  \/ WorkerCount \/ WorkerParses \/ WorkerSkips \/ WorkerPanics

WorkerExport == WorkerExports \/ WorkerExportFails

Metrics ==
  \/ MetricsCheck
  \/ \E c \in Clients : MetricsAccept(c)
  \/ MetricsNoClient
  \/ MetricsRead \/ MetricsLock
  \/ RenderReceived \/ RenderExported \/ RenderErrors
  \/ MetricsWrite

Request(c) == ClientSends(c) \/ ClientCuts(c)

-----------------------------------------------------------------------------

\* A scrape of /metrics never shows more than one message handled beyond the
\* messages received, although its counters are loaded one by one while the
\* worker runs: the mutex the page is rendered under keeps the worker from
\* taking a second message.
ScrapeSkew ==
  metrics = "write" /\ path = "metrics" =>
    page.exported + page.errors <= page.received + 1

\* The messages of one source whose export returned Ok are handed to the exporter
\* in the order in which the source received them, and each in one such export
\* only, although the ring, the worker's hand and the counters change hands one
\* step at a time.  When and how often a collector stores them is Exporter's
\* matter (DuplicatesBounded).
HandedInOrder ==
  \A i, j \in 1 .. Len(handed) :
    i < j /\ handed[i].src = handed[j].src => handed[i].n < handed[j].n

\* The messages the sources have offered; whether the worker has one in hand that
\* it has not counted; and how many offers appear nowhere in the books.
Offers == UNION {{Message(s, n) : n \in 1 .. offered[s]} : s \in Sources}
Uncounted == IF worker = "count" THEN 1 ELSE 0
Missing == Cardinality(Offers) - (refused + Len(q) + Uncounted + counters.received)

\* As long as the server lives, every message a source ever offered is refused, in
\* the ring, in the worker's hand or counted as received, and in one of these only,
\* through every order of offers, receives, a raised stop flag and a dying worker.
\* What the books lose when the server is dropped is what was left in the ring, at
\* most a ring full: an offer after that is refused, and none goes missing later.
LossBounded == IF open THEN Missing = 0 ELSE Missing \in 0 .. Capacity

\* Once the stop flag is set, both threads end, the server is dropped and the
\* handle's drop returns.
ShutdownJoins == stop ~> main = "exited"

\* What has been accepted into the ring is taken out of it, unless the daemon
\* is stopped or its worker has died.
RingDrained ==
  q # <<>> ~> q = <<>> \/ stop \/ worker \in {"exited", "panicked"}
=============================================================================
