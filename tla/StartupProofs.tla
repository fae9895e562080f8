--------------------------- MODULE StartupProofs ----------------------------
(***************************************************************************)
(* Proofs about Startup and Daemon, for any number of sources and clients, *)
(* any capacity of the ring, any command line and any configuration: no    *)
(* message goes missing while the server lives, and a ring full at most    *)
(* when it is dropped; a scrape is off by one message at most; messages of *)
(* one source are exported in order; references to the environment are     *)
(* replaced exactly.                                                       *)
(***************************************************************************)
EXTENDS Startup, ChainLemmas, FiniteSetTheorems, TLAPS

WorkerEnded == worker \in {"none", "exited", "panicked"}
MetricsEnded == metrics \in {"none", "exited"}

\* Who owns the server is who may use it: first main, then the two threads
\* until they end; and as long as somebody owns it, it is there.
OwnersOK ==
  /\ WorkerEnded \/ "worker" \in refs
  /\ MetricsEnded \/ "metrics" \in refs
  /\ refs # {} => open
  /\ main \in {"args", "dispatch"} => refs = {} /\ ~open
  /\ main \in {"schema", "metrics", "handler", "start"} => "main" \in refs
  /\ main \in {"args", "dispatch", "schema", "metrics", "handler", "start", "failing"} =>
       worker = "none" /\ metrics = "none"
  /\ main = "exited" => ~open

LEMMA OwnersInit == StartupInit => OwnersOK
  BY DEF StartupInit, ThreadsInit, OwnersOK, WorkerEnded, MetricsEnded

LEMMA OwnersBoot ==
  ASSUME OwnersOK, Boot
  PROVE  OwnersOK'
  <1> USE DEF OwnersOK, WorkerEnded, MetricsEnded
  <1>1. CASE PrintAndQuit
    BY <1>1 DEF PrintAndQuit, Quit, ringVars, threadVars, workerVars, metricsVars
  <1>2. CASE ReadConfig
    <2>1. /\ main = "args" /\ UNCHANGED <<open, refs, worker, metrics>>
          /\ main' \in {"dispatch", "exited"}
      BY <1>2 DEF ReadConfig, Quit, ringVars, threadVars, workerVars, metricsVars
    <2> QED
      BY <2>1
  <1>3. CASE RunCheck
    BY <1>3 DEF RunCheck, Quit, ringVars, threadVars, workerVars, metricsVars
  <1>4. CASE RunHealthcheck
    BY <1>4 DEF RunHealthcheck, Quit, ringVars, threadVars, workerVars, metricsVars
  <1>5. CASE ServerFails
    BY <1>5 DEF ServerFails, Starting, Quit, ringVars, threadVars, workerVars, metricsVars
  <1>6. CASE BindServer
    BY <1>6 DEF BindServer, Starting, threadVars, workerVars, metricsVars
  <1>7. CASE LoadSchema
    BY <1>7 DEF LoadSchema, ringVars, threadVars, workerVars, metricsVars
  <1>8. CASE BindMetrics
    BY <1>8 DEF BindMetrics, ringVars, threadVars, workerVars, metricsVars
  <1>9. CASE SetHandler
    BY <1>9 DEF SetHandler, ringVars, threadVars, workerVars, metricsVars
  <1>10. CASE NewFails
    BY <1>10 DEF NewFails, ringVars, threadVars, workerVars, metricsVars
  <1>11. CASE ExitFailed
    BY <1>11 DEF ExitFailed, Quit, ringVars, threadVars, workerVars, metricsVars
  <1>12. CASE Start
    BY <1>12 DEF Start, ringVars
  <1> QED
    BY <1>1, <1>2, <1>3, <1>4, <1>5, <1>6, <1>7, <1>8, <1>9, <1>10, <1>11, <1>12 DEF Boot

LEMMA OwnersWorker ==
  ASSUME OwnersOK, Worker \/ WorkerExport
  PROVE  OwnersOK'
  <1> USE DEF OwnersOK, WorkerEnded, MetricsEnded, ringVars, metricsVars
  <1>1. CASE WorkerCheck
    BY <1>1 DEF WorkerCheck, WorkerLeaves
  <1>2. CASE WorkerLock
    BY <1>2 DEF WorkerLock
  <1>3. CASE WorkerRecv
    BY <1>3 DEF WorkerRecv, Take
  <1>4. CASE WorkerTimeout
    BY <1>4 DEF WorkerTimeout
  <1>5. CASE WorkerDisconnected
    BY <1>5 DEF WorkerDisconnected, WorkerLeaves
  <1>6. CASE WorkerCount
    BY <1>6 DEF WorkerCount
  <1>7. CASE WorkerParses
    BY <1>7 DEF WorkerParses
  <1>8. CASE WorkerSkips
    BY <1>8 DEF WorkerSkips
  <1>9. CASE WorkerPanics
    BY <1>9 DEF WorkerPanics, WorkerLeaves
  <1>10. CASE WorkerExports
    BY <1>10 DEF WorkerExports
  <1>11. CASE WorkerExportFails
    BY <1>11 DEF WorkerExportFails
  <1> QED
    BY <1>1, <1>2, <1>3, <1>4, <1>5, <1>6, <1>7, <1>8, <1>9, <1>10, <1>11
    DEF Worker, WorkerExport

LEMMA OwnersMetrics ==
  ASSUME OwnersOK, Metrics \/ MetricsAcceptError
  PROVE  OwnersOK'
  <1> USE DEF OwnersOK, WorkerEnded, MetricsEnded, ringVars, workerVars
  <1>1. CASE MetricsCheck
    BY <1>1 DEF MetricsCheck
  <1>2. ASSUME NEW c \in Clients, MetricsAccept(c) PROVE OwnersOK'
    BY <1>2 DEF MetricsAccept
  <1>3. CASE MetricsNoClient
    BY <1>3 DEF MetricsNoClient
  <1>4. CASE MetricsRead
    <2>1. metrics' \in {"lock", "write"}
      BY <1>4 DEF MetricsRead
    <2> QED
      BY <1>4, <2>1 DEF MetricsRead
  <1>5. CASE MetricsLock
    BY <1>5 DEF MetricsLock
  <1>6. CASE RenderReceived
    BY <1>6 DEF RenderReceived
  <1>7. CASE RenderExported
    BY <1>7 DEF RenderExported
  <1>8. CASE RenderErrors
    BY <1>8 DEF RenderErrors
  <1>9. CASE MetricsWrite
    BY <1>9 DEF MetricsWrite
  <1>10. CASE MetricsAcceptError
    BY <1>10 DEF MetricsAcceptError
  <1> QED
    BY <1>1, <1>2, <1>3, <1>4, <1>5, <1>6, <1>7, <1>8, <1>9, <1>10 DEF Metrics

\* A step of the running program is one of these.
LEMMA RunningCases ==
  ASSUME Running
  PROVE  \/ \E s \in Sources : Offer(s)
         \/ ServerDropped \/ HandleDropped \/ MainPoll \/ JoinWorker
         \/ Worker \/ WorkerExport \/ Metrics \/ MetricsAcceptError
         \/ UNCHANGED <<ringVars, workerVars, metricsVars, lock, refs, counters, main>>
  <1>1. ASSUME NEW c \in Clients, ClientConnects(c) \/ ClientStarts(c) \/ Request(c)
        PROVE  UNCHANGED <<ringVars, workerVars, metricsVars, lock, refs, counters, main>>
    <2>1. ASSUME NEW from, NEW to, ClientStep(c, from, to)
          PROVE  UNCHANGED <<ringVars, workerVars, metricsVars, lock, refs, counters, main>>
      BY <2>1 DEF ClientStep
    <2> QED
      BY <1>1, <2>1, Zenon
      DEF ClientConnects, ClientStarts, Request, ClientSends, ClientCuts
  <1>2. ASSUME NEW s \in Sources, SourceEnds(s)
        PROVE  UNCHANGED <<ringVars, workerVars, metricsVars, lock, refs, counters, main>>
    BY <1>2 DEF SourceEnds
  <1>3. ASSUME Signal
        PROVE  UNCHANGED <<ringVars, workerVars, metricsVars, lock, refs, counters, main>>
    BY <1>3 DEF Signal
  <1> QED
    BY <1>1, <1>2, <1>3, Zenon DEF Running

\* Until it starts the threads, main changes nothing of theirs.
LEMMA BootCases ==
  ASSUME Boot
  PROVE  Start \/ UNCHANGED threadVars
  BY DEF Boot, PrintAndQuit, ReadConfig, RunCheck, RunHealthcheck, ServerFails,
         BindServer, LoadSchema, BindMetrics, SetHandler, NewFails, ExitFailed, Quit

LEMMA OwnersStep ==
  ASSUME OwnersOK, [StartupNext]_allVars
  PROVE  OwnersOK'
  <1> USE DEF OwnersOK, WorkerEnded, MetricsEnded
  <1>1. CASE Boot
    BY <1>1, OwnersBoot
  <1>2. CASE Worker \/ WorkerExport
    BY <1>2, OwnersWorker
  <1>3. CASE Metrics \/ MetricsAcceptError
    BY <1>3, OwnersMetrics
  <1>4. ASSUME NEW s \in Sources, Offer(s) PROVE OwnersOK'
    BY <1>4 DEF Offer, Accept, Refuse, workerVars, metricsVars
  <1>5. CASE ServerDropped
    BY <1>5 DEF ServerDropped, Close, workerVars, metricsVars
  <1>6. ASSUME UNCHANGED <<ringVars, workerVars, metricsVars, lock, refs, counters, main>>
        PROVE  OwnersOK'
    BY <1>6 DEF ringVars, workerVars, metricsVars
  <1>7. CASE HandleDropped \/ MainPoll \/ JoinWorker \/ Exit
    BY <1>7 DEF HandleDropped, MainPoll, JoinWorker, Exit, JoinMetrics, ringVars,
                workerVars, metricsVars
  <1>8. CASE UNCHANGED allVars
    BY <1>6, <1>8 DEF allVars, vars
  <1>9. CASE Running
    BY <1>2, <1>3, <1>4, <1>5, <1>6, <1>7, <1>9, RunningCases
  <1> QED
    BY <1>1, <1>7, <1>8, <1>9 DEF StartupNext, Ended

-----------------------------------------------------------------------------
(* The mutex, the counters and the page. *)

Counts == [received : Nat, exported : Nat, errors : Nat]

\* The mutex is held exactly while its holder is inside.
LockOK ==
  /\ lock = "worker" <=> worker = "recv"
  /\ lock = "metrics" <=> metrics \in {"received", "exported", "errors"}

\* One if the worker has a message it has counted and not yet disposed of.
Pending == IF worker \in {"parse", "export"} THEN 1 ELSE 0

\* One if the worker can still dispose of a message without the mutex.
InHand == IF worker \in {"count", "parse", "export"} THEN 1 ELSE 0

\* What has been disposed of was counted first; and from the moment a scrape
\* has loaded the first counter the others run ahead of it by at most the one
\* message the worker has in hand.
SkewOK ==
  /\ counters \in Counts /\ page \in Counts
  /\ counters.exported + counters.errors + Pending <= counters.received
  /\ metrics = "exported" =>
       counters.exported + counters.errors + InHand <= page.received + 1
  /\ metrics = "errors" =>
       page.exported + counters.errors + InHand <= page.received + 1
  /\ ScrapeSkew

SkewInv == LockOK /\ SkewOK

LEMMA SkewInit == StartupInit => SkewInv
  BY DEF StartupInit, ThreadsInit, SkewInv, LockOK, SkewOK, ScrapeSkew, Counts, Zero,
         Pending, InHand

LEMMA SkewWorker ==
  ASSUME SkewInv, Worker \/ WorkerExport
  PROVE  SkewInv'
  <1> USE DEF SkewInv, LockOK, SkewOK, ScrapeSkew, Counts, Pending, InHand, metricsVars
  <1>1. CASE WorkerCheck
    BY <1>1 DEF WorkerCheck, WorkerLeaves
  <1>2. CASE WorkerLock
    BY <1>2 DEF WorkerLock
  <1>3. CASE WorkerRecv
    BY <1>3 DEF WorkerRecv
  <1>4. CASE WorkerTimeout
    BY <1>4 DEF WorkerTimeout
  <1>5. CASE WorkerDisconnected
    BY <1>5 DEF WorkerDisconnected, WorkerLeaves
  <1>6. CASE WorkerCount
    BY <1>6 DEF WorkerCount
  <1>7. CASE WorkerParses
    BY <1>7 DEF WorkerParses
  <1>8. CASE WorkerSkips
    BY <1>8 DEF WorkerSkips
  <1>9. CASE WorkerPanics
    BY <1>9 DEF WorkerPanics, WorkerLeaves
  <1>10. CASE WorkerExports
    BY <1>10, SMTT(30) DEF WorkerExports
  <1>11. CASE WorkerExportFails
    BY <1>11, SMTT(30) DEF WorkerExportFails
  <1> QED
    BY <1>1, <1>2, <1>3, <1>4, <1>5, <1>6, <1>7, <1>8, <1>9, <1>10, <1>11
    DEF Worker, WorkerExport

LEMMA SkewMetrics ==
  ASSUME SkewInv, Metrics \/ MetricsAcceptError
  PROVE  SkewInv'
  <1> USE DEF SkewInv, LockOK, SkewOK, ScrapeSkew, Counts, Pending, InHand, workerVars
  <1>1. CASE MetricsCheck
    BY <1>1 DEF MetricsCheck
  <1>2. ASSUME NEW c \in Clients, MetricsAccept(c) PROVE SkewInv'
    BY <1>2 DEF MetricsAccept
  <1>3. CASE MetricsNoClient
    BY <1>3 DEF MetricsNoClient
  <1>4. CASE MetricsRead
    BY <1>4 DEF MetricsRead
  <1>5. CASE MetricsLock
    BY <1>5 DEF MetricsLock
  <1>6. CASE RenderReceived
    BY <1>6 DEF RenderReceived, Zero
  <1>7. CASE RenderExported
    BY <1>7 DEF RenderExported
  <1>8. CASE RenderErrors
    BY <1>8 DEF RenderErrors
  <1>9. CASE MetricsWrite
    BY <1>9 DEF MetricsWrite
  <1>10. CASE MetricsAcceptError
    BY <1>10 DEF MetricsAcceptError
  <1> QED
    BY <1>1, <1>2, <1>3, <1>4, <1>5, <1>6, <1>7, <1>8, <1>9, <1>10 DEF Metrics

LEMMA SkewStep ==
  ASSUME OwnersOK, SkewInv, [StartupNext]_allVars
  PROVE  SkewInv'
  <1> USE DEF SkewInv, LockOK, SkewOK, ScrapeSkew, Counts, Pending, InHand
  <1>1. CASE Boot
    <2>1. CASE Start
      BY <2>1 DEF Start, OwnersOK
    <2>2. CASE UNCHANGED threadVars
      BY <2>2 DEF threadVars, workerVars, metricsVars
    <2> QED
      BY <1>1, <2>1, <2>2, BootCases
  <1>2. CASE Worker \/ WorkerExport
    BY <1>2, SkewWorker
  <1>3. CASE Metrics \/ MetricsAcceptError
    BY <1>3, SkewMetrics
  <1>4. CASE UNCHANGED <<workerVars, metricsVars, lock, counters>>
    BY <1>4 DEF workerVars, metricsVars
  <1>5. CASE UNCHANGED allVars
    BY <1>4, <1>5 DEF allVars, vars
  <1>6. CASE Running
    <2>1. ASSUME NEW s \in Sources, Offer(s)
          PROVE  UNCHANGED <<workerVars, metricsVars, lock, counters>>
      BY <2>1 DEF Offer
    <2>2. ASSUME ServerDropped \/ HandleDropped \/ MainPoll \/ JoinWorker
          PROVE  UNCHANGED <<workerVars, metricsVars, lock, counters>>
      BY <2>2 DEF ServerDropped, HandleDropped, MainPoll, JoinWorker
    <2> QED
      BY <1>2, <1>3, <1>4, <1>6, <2>1, <2>2, RunningCases
  <1>7. CASE Exit
    BY <1>4, <1>7 DEF Exit, JoinMetrics
  <1> QED
    BY <1>1, <1>5, <1>6, <1>7 DEF StartupNext, Ended

-----------------------------------------------------------------------------
(* The messages on their way from the ring to an export that returns Ok. *)

Busy == worker \in {"count", "parse", "export"}

Before(m, x) == m.src = x.src => m.n < x.n

Issued(m) == m.n <= offered[m.src]

Pipeline ==
  /\ q \in Seq(Messages) /\ handed \in Seq(Messages)
  /\ offered \in [Sources -> Nat]
  /\ Busy => msg \in Messages

\* Everything on the way was offered, and what was offered later is behind it:
\* the messages exported, then the one in the worker's hand, then the ring.
OrderOK ==
  /\ \A i, j \in 1 .. Len(handed) : i < j => Before(handed[i], handed[j])
  /\ \A i, j \in 1 .. Len(q) : i < j => Before(q[i], q[j])
  /\ \A i \in 1 .. Len(handed), j \in 1 .. Len(q) : Before(handed[i], q[j])
  /\ \A i \in 1 .. Len(handed) : Issued(handed[i])
  /\ \A i \in 1 .. Len(q) : Issued(q[i])

HandOK ==
  Busy =>
    /\ Issued(msg)
    /\ \A i \in 1 .. Len(handed) : Before(handed[i], msg)
    /\ \A j \in 1 .. Len(q) : Before(msg, q[j])

OrderInv == Pipeline /\ OrderOK /\ HandOK

LEMMA OrderInit == StartupInit => OrderInv
  BY DEF StartupInit, ThreadsInit, OrderInv, Pipeline, OrderOK, HandOK, Busy

\* A new message is behind all the others of its source.
LEMMA OrderAccept ==
  ASSUME OrderInv, NEW s \in Sources, Accept(s), UNCHANGED workerVars
  PROVE  OrderInv'
  <1> DEFINE m == Message(s, offered[s] + 1)
  <1>1. m \in Messages /\ m.src = s /\ m.n = offered[s] + 1
    BY DEF OrderInv, Pipeline, Message, Messages
  <1>2. /\ q' \in Seq(Messages)
        /\ Len(q') = Len(q) + 1
        /\ \A i \in 1 .. Len(q) : q'[i] = q[i]
        /\ q'[Len(q) + 1] = m
    BY <1>1 DEF Accept, OrderInv, Pipeline
  <1>3. /\ offered' \in [Sources -> Nat]
        /\ offered'[s] = offered[s] + 1
        /\ \A x \in Sources : offered[x] <= offered'[x]
    BY DEF Accept, OrderInv, Pipeline
  <1>4. \A x \in Messages : Issued(x) => Before(x, m)
    BY <1>1, <1>3 DEF Issued, Before, Messages, OrderInv, Pipeline
  <1>5. \A x \in Messages : x.n <= offered[x.src] => x.n <= offered'[x.src]
    BY <1>3 DEF Messages, OrderInv, Pipeline
  <1> HIDE DEF m
  <1>6. UNCHANGED <<worker, msg, handed>>
    BY DEF workerVars
  <1>7. Pipeline'
    BY <1>2, <1>3, <1>6 DEF Pipeline, OrderInv, Busy
  <1>8. /\ \A i \in 1 .. Len(handed) : handed[i] \in Messages
        /\ \A i \in 1 .. Len(q) : q[i] \in Messages
        /\ Len(q) \in Nat
    BY DEF OrderInv, Pipeline
  <1>9. \A i, j \in 1 .. Len(q') : i < j => Before(q'[i], q'[j])
    BY <1>2, <1>4, <1>8 DEF OrderInv, OrderOK
  <1>10. \A i \in 1 .. Len(handed), j \in 1 .. Len(q') : Before(handed[i], q'[j])
    BY <1>2, <1>4, <1>8 DEF OrderInv, OrderOK
  <1>11. \A i \in 1 .. Len(q') : Issued(q[i])'
    BY <1>1, <1>2, <1>3, <1>5, <1>8 DEF OrderInv, OrderOK, Issued
  <1>12. OrderOK'
    BY <1>5, <1>6, <1>8, <1>9, <1>10, <1>11 DEF OrderInv, OrderOK, Before, Issued
  <1>13. HandOK'
    <2> SUFFICES ASSUME Busy'
                 PROVE  /\ Issued(msg)'
                        /\ \A i \in 1 .. Len(handed') : Before(handed'[i], msg')
                        /\ \A k \in 1 .. Len(q') : Before(msg', q'[k])
      BY DEF HandOK, Before
    <2>1. Busy /\ msg \in Messages /\ HandOK
      BY <1>6 DEF OrderInv, Pipeline, Busy
    <2>2. Issued(msg)'
      BY <1>5, <1>6, <2>1 DEF HandOK, Issued
    <2>3. \A i \in 1 .. Len(handed') : Before(handed'[i], msg')
      BY <1>6, <2>1 DEF HandOK
    <2>4. \A k \in 1 .. Len(q') : Before(msg', q'[k])
      BY <1>2, <1>4, <1>6, <1>8, <2>1 DEF HandOK
    <2> QED
      BY <2>2, <2>3, <2>4
  <1> QED
    BY <1>7, <1>12, <1>13 DEF OrderInv

\* A refused message leaves a gap.
LEMMA OrderRefuse ==
  ASSUME OrderInv, NEW s \in Sources, Refuse(s), UNCHANGED workerVars
  PROVE  OrderInv'
  <1>1. offered' \in [Sources -> Nat] /\ \A x \in Sources : offered[x] <= offered'[x]
    BY DEF Refuse, OrderInv, Pipeline
  <1>2. \A x \in Messages : x.n <= offered[x.src] => x.n <= offered'[x.src]
    BY <1>1 DEF Messages, OrderInv, Pipeline
  <1>3. UNCHANGED <<worker, msg, handed, q>>
    BY DEF workerVars, Refuse
  <1>4. /\ \A i \in 1 .. Len(handed) : handed[i] \in Messages
        /\ \A i \in 1 .. Len(q) : q[i] \in Messages
    BY DEF OrderInv, Pipeline
  <1>5. Pipeline'
    BY <1>1, <1>3 DEF OrderInv, Pipeline, Busy
  <1>6. OrderOK'
    BY <1>2, <1>3, <1>4 DEF OrderInv, OrderOK, Before, Issued
  <1>7. HandOK'
    BY <1>2, <1>3, <1>4 DEF OrderInv, Pipeline, HandOK, Before, Issued, Busy
  <1> QED
    BY <1>5, <1>6, <1>7 DEF OrderInv

\* The head of the ring is before the rest of it and behind what was exported.
LEMMA OrderRecv ==
  ASSUME OrderInv, WorkerRecv
  PROVE  OrderInv'
  <1>1. /\ q \in Seq(Messages) /\ q # <<>>
        /\ q' = Tail(q) /\ msg' = Head(q)
        /\ UNCHANGED <<offered, handed>>
    BY DEF WorkerRecv, Take, OrderInv, Pipeline
  <1>2. /\ q' \in Seq(Messages) /\ Len(q) \in Nat \ {0} /\ Len(q') = Len(q) - 1
        /\ \A j \in 1 .. Len(q') : q'[j] = q[j + 1] /\ j + 1 \in 1 .. Len(q)
        /\ msg' = q[1] /\ msg' \in Messages
    BY <1>1
  <1>3. Pipeline'
    BY <1>1, <1>2 DEF OrderInv, Pipeline
  <1>4. OrderOK'
    BY <1>1, <1>2, SMTT(30) DEF OrderInv, OrderOK, Before, Issued
  <1>5. HandOK'
    BY <1>1, <1>2 DEF OrderInv, OrderOK, HandOK, Before, Issued
  <1> QED
    BY <1>3, <1>4, <1>5 DEF OrderInv

\* The message in hand is the newest of the exported ones.
LEMMA OrderExports ==
  ASSUME OrderInv, WorkerExports
  PROVE  OrderInv'
  <1>1. /\ worker = "export" /\ worker' = "check"
        /\ handed' = Append(handed, msg)
        /\ UNCHANGED <<q, offered>>
    BY DEF WorkerExports, ringVars
  <1>2. Busy /\ ~Busy'
    BY <1>1 DEF Busy
  <1>3. /\ handed' \in Seq(Messages) /\ Len(handed) \in Nat
        /\ Len(handed') = Len(handed) + 1
        /\ \A i \in 1 .. Len(handed) : handed'[i] = handed[i]
        /\ handed'[Len(handed) + 1] = msg
    BY <1>1, <1>2 DEF OrderInv, Pipeline
  <1>4. Pipeline'
    BY <1>1, <1>2, <1>3 DEF OrderInv, Pipeline
  <1>5. OrderOK'
    BY <1>1, <1>2, <1>3 DEF OrderInv, OrderOK, HandOK, Before, Issued
  <1>6. HandOK'
    BY <1>2 DEF HandOK
  <1> QED
    BY <1>4, <1>5, <1>6 DEF OrderInv

LEMMA OrderStep ==
  ASSUME OrderInv, [StartupNext]_allVars
  PROVE  OrderInv'
  <1>1. ASSUME UNCHANGED <<q, offered, handed>>,
               ~Busy' \/ (Busy /\ UNCHANGED msg)
        PROVE  OrderInv'
    BY <1>1 DEF OrderInv, Pipeline, OrderOK, HandOK, Before, Issued
  <1>2. ASSUME UNCHANGED <<q, offered, workerVars>> PROVE OrderInv'
    <2>1. UNCHANGED <<q, offered, handed, msg>> /\ (Busy' <=> Busy)
      BY <1>2 DEF workerVars, Busy
    <2> QED
      BY <1>1, <2>1
  <1>3. CASE Boot
    <2>1. UNCHANGED <<q, offered>>
      BY <1>3 DEF Boot, PrintAndQuit, ReadConfig, RunCheck, RunHealthcheck, ServerFails,
                  BindServer, LoadSchema, BindMetrics, SetHandler, NewFails, ExitFailed,
                  Quit, Start, ringVars
    <2>2. CASE Start
      BY <1>1, <2>1, <2>2 DEF Start, Busy
    <2>3. CASE UNCHANGED threadVars
      BY <1>2, <2>1, <2>3 DEF threadVars
    <2> QED
      BY <1>3, <2>2, <2>3, BootCases
  <1>4. CASE Worker \/ WorkerExport
    <2> USE DEF ringVars
    <2>1. CASE WorkerRecv
      BY <2>1, OrderRecv
    <2>2. CASE WorkerExports
      BY <2>2, OrderExports
    <2>3. CASE WorkerCheck \/ WorkerLock \/ WorkerTimeout \/ WorkerDisconnected
      BY <1>1, <2>3
      DEF WorkerCheck, WorkerLock, WorkerTimeout, WorkerDisconnected, WorkerLeaves, Busy
    <2>4. CASE WorkerCount \/ WorkerParses
      BY <1>1, <2>4 DEF WorkerCount, WorkerParses, Busy
    <2>5. CASE WorkerSkips \/ WorkerPanics \/ WorkerExportFails
      BY <1>1, <2>5 DEF WorkerSkips, WorkerPanics, WorkerExportFails, WorkerLeaves, Busy
    <2> QED
      BY <1>4, <2>1, <2>2, <2>3, <2>4, <2>5 DEF Worker, WorkerExport
  <1>5. ASSUME NEW s \in Sources, Offer(s) PROVE OrderInv'
    BY <1>5, OrderAccept, OrderRefuse DEF Offer
  <1>6. CASE ServerDropped
    <2>1. q' = <<>> /\ UNCHANGED <<offered, worker, msg, handed>>
      BY <1>6 DEF ServerDropped, Close, workerVars
    <2> QED
      BY <2>1 DEF OrderInv, Pipeline, OrderOK, HandOK, Busy, Before, Issued
  <1>7. ASSUME UNCHANGED <<ringVars, workerVars>> PROVE OrderInv'
    BY <1>2, <1>7 DEF ringVars
  <1>8. ASSUME Metrics \/ MetricsAcceptError PROVE UNCHANGED <<ringVars, workerVars>>
    BY <1>8 DEF Metrics, MetricsAcceptError, MetricsCheck, MetricsAccept, MetricsNoClient,
                MetricsRead, MetricsLock, RenderReceived, RenderExported, RenderErrors,
                MetricsWrite
  <1>9. ASSUME HandleDropped \/ MainPoll \/ JoinWorker \/ Exit
        PROVE  UNCHANGED <<ringVars, workerVars>>
    BY <1>9 DEF HandleDropped, MainPoll, JoinWorker, Exit, JoinMetrics
  <1>10. CASE Running
    BY <1>4, <1>5, <1>6, <1>7, <1>8, <1>9, <1>10, RunningCases
  <1>11. CASE UNCHANGED allVars
    BY <1>7, <1>11 DEF allVars, vars
  <1> QED
    BY <1>3, <1>7, <1>9, <1>10, <1>11 DEF StartupNext, Ended

-----------------------------------------------------------------------------

(* The books.  An offer adds one message to Offers and one to the ring or  *)
(* to refused; a receive and its count only move it; every other step but  *)
(* the drop of the server leaves both sides alone.                         *)

LossOK ==
  /\ IsFiniteSet(Offers) /\ refused \in Nat
  /\ Len(q) <= Capacity
  /\ ~open => q = <<>>
  /\ main \in {"args", "dispatch"} => Missing = 0
  /\ LossBounded

LossInv == OwnersOK /\ SkewInv /\ OrderInv /\ LossOK

LEMMA LossInit == StartupInit => LossOK
<1> SUFFICES ASSUME StartupInit PROVE LossOK
  OBVIOUS
<1>1. Offers = {}
  <2>1. 1 .. 0 = {} /\ offered = [s \in Sources |-> 0]
    BY DEF StartupInit, ThreadsInit
  <2> QED  BY <2>1, Zenon DEF Offers
<1>2. /\ refused = 0 /\ q = <<>> /\ ~open /\ worker = "none" /\ counters.received = 0
  BY DEF StartupInit, ThreadsInit, Zero
<1>3. Missing = 0
  BY <1>1, <1>2, FS_EmptySet DEF Missing, Uncounted
<1> QED  BY <1>1, <1>2, <1>3, FS_EmptySet, CapacityAssumption DEF LossOK, LossBounded

\* A source has offered what is numbered up to its count.
LEMMA OffersMember ==
  ASSUME NEW s \in Sources, NEW n
  PROVE  Message(s, n) \in Offers <=> n \in 1 .. offered[s]
<1>1. ASSUME NEW r \in Sources, NEW m, Message(s, n) = Message(r, m)
      PROVE  s = r /\ n = m
  BY <1>1 DEF Message
<1>2. ASSUME Message(s, n) \in Offers PROVE n \in 1 .. offered[s]
  <2>1. PICK r \in Sources : Message(s, n) \in {Message(r, m) : m \in 1 .. offered[r]}
    BY <1>2, Zenon DEF Offers
  <2>2. PICK m \in 1 .. offered[r] : Message(s, n) = Message(r, m)
    BY <2>1, Zenon
  <2> QED  BY <1>1, <2>2, Zenon
<1>3. ASSUME n \in 1 .. offered[s] PROVE Message(s, n) \in Offers
  <2>1. Message(s, n) \in {Message(s, m) : m \in 1 .. offered[s]}
    BY <1>3, Zenon
  <2> QED  BY <2>1, Zenon DEF Offers
<1> QED  BY <1>2, <1>3

\* An offer adds exactly its message.
LEMMA OfferAdds ==
  ASSUME offered \in [Sources -> Nat], NEW s \in Sources,
         offered' = [offered EXCEPT ![s] = @ + 1]
  PROVE  /\ Message(s, offered[s] + 1) \notin Offers
         /\ Offers' = Offers \cup {Message(s, offered[s] + 1)}
<1>1. Message(s, offered[s] + 1) \notin Offers
  BY OffersMember
<1>2. 1 .. offered'[s] = (1 .. offered[s]) \cup {offered[s] + 1}
  OBVIOUS
<1>3. \A r \in Sources : r # s => offered'[r] = offered[r]
  OBVIOUS
<1>4. Offers' = UNION {{Message(r, n) : n \in 1 .. offered'[r]} : r \in Sources}
  BY DEF Offers, Message
<1>5. ASSUME NEW x \in Offers' PROVE x \in Offers \cup {Message(s, offered[s] + 1)}
  <2>1. PICK r \in Sources : x \in {Message(r, n) : n \in 1 .. offered'[r]}
    BY <1>4, <1>5, Zenon
  <2>2. PICK n \in 1 .. offered'[r] : x = Message(r, n)
    BY <2>1, Zenon
  <2>3. CASE n \in 1 .. offered[r]
    BY <2>2, <2>3, OffersMember
  <2>4. CASE n \notin 1 .. offered[r]
    BY <1>2, <1>3, <2>2, <2>4, Zenon
  <2> QED  BY <2>3, <2>4
<1>6. ASSUME NEW x \in Offers \cup {Message(s, offered[s] + 1)} PROVE x \in Offers'
  <2>1. CASE x = Message(s, offered[s] + 1)
    <3>1. x \in {Message(s, n) : n \in 1 .. offered'[s]}
      BY <1>2, <2>1, Zenon
    <3> QED  BY <1>4, <3>1, Zenon
  <2>2. CASE x \in Offers
    <3>1. PICK r \in Sources : x \in {Message(r, n) : n \in 1 .. offered[r]}
      BY <2>2, Zenon DEF Offers
    <3>2. 1 .. offered[r] \subseteq 1 .. offered'[r]
      BY <1>2, <1>3, Zenon
    <3>3. x \in {Message(r, n) : n \in 1 .. offered'[r]}
      BY <3>1, <3>2, Zenon
    <3> QED  BY <1>4, <3>3, Zenon
  <2> QED  BY <1>6, <2>1, <2>2
<1> QED  BY <1>1, <1>5, <1>6, Zenon

\* The numbers the books are made of.
LEMMA LossTypes ==
  ASSUME LossInv
  PROVE  /\ Cardinality(Offers) \in Nat /\ refused \in Nat /\ Len(q) \in Nat
         /\ counters.received \in Nat /\ Uncounted \in Nat /\ Capacity \in Nat
<1>1. Cardinality(Offers) \in Nat
  BY FS_CardinalityType DEF LossInv, LossOK
<1>2. Len(q) \in Nat
  BY DEF LossInv, OrderInv, Pipeline
<1>3. counters.received \in Nat
  BY DEF LossInv, SkewInv, SkewOK, Counts
<1> QED  BY <1>1, <1>2, <1>3, CapacityAssumption DEF LossInv, LossOK, Uncounted

\* A step that touches no side of the books.
LEMMA LossKeeps ==
  ASSUME LossInv, UNCHANGED <<q, offered, refused, open, Uncounted>>,
         counters'.received = counters.received,
         main' = main \/ main' \notin {"args", "dispatch"}
  PROVE  LossOK'
<1>1. Offers' = Offers
  BY DEF Offers, Message
<1>2. Missing' = Missing
  BY <1>1 DEF Missing
<1> QED  BY <1>1, <1>2 DEF LossInv, LossOK, LossBounded

LEMMA LossOffer ==
  ASSUME LossInv, NEW s \in Sources, Offer(s)
  PROVE  LossOK'
<1>1. /\ offered \in [Sources -> Nat] /\ q \in Seq(Messages)
      /\ offered' = [offered EXCEPT ![s] = @ + 1]
  BY DEF LossInv, OrderInv, Pipeline, Offer, Accept, Refuse
<1>2. IsFiniteSet(Offers') /\ Cardinality(Offers') = Cardinality(Offers) + 1
  <2>1. /\ Message(s, offered[s] + 1) \notin Offers
        /\ Offers' = Offers \cup {Message(s, offered[s] + 1)}
    BY <1>1, OfferAdds
  <2>2. IsFiniteSet(Offers)
    BY DEF LossInv, LossOK
  <2> QED  BY <2>1, <2>2, FS_AddElement, Zenon
<1>3. UNCHANGED <<counters, Uncounted, main>>
  BY DEF Offer, workerVars, Uncounted
<1>4. /\ UNCHANGED open
      /\ \/ /\ open /\ Len(q') = Len(q) + 1 /\ Len(q) < Capacity /\ refused' = refused
         \/ q' = q /\ refused' = refused + 1
  BY <1>1 DEF Offer, Accept, Refuse
<1>5. Missing' = Missing
  <2>1. /\ Cardinality(Offers) \in Nat /\ refused \in Nat /\ Len(q) \in Nat
        /\ counters.received \in Nat /\ Uncounted \in Nat
    BY LossTypes
  <2>2. Uncounted' = Uncounted /\ counters'.received = counters.received
    BY <1>3
  <2>3. refused' + Len(q') = refused + Len(q) + 1
    BY <1>4, <2>1
  <2>4. Len(q') \in Nat /\ refused' \in Nat
    BY <1>4, <2>1
  <2>5. Missing' = Cardinality(Offers') - (refused' + Len(q') + Uncounted' + counters'.received)
    BY Zenon DEF Missing
  <2> QED  BY <1>2, <2>1, <2>2, <2>3, <2>4, <2>5, SMTT(30) DEF Missing
<1>6. ~open' => q' = <<>>
  BY <1>4 DEF LossInv, LossOK
<1> QED  BY <1>2, <1>3, <1>4, <1>5, <1>6, LossTypes DEF LossInv, LossOK, LossBounded

LEMMA LossDropped ==
  ASSUME LossInv, ServerDropped
  PROVE  LossOK'
<1>1. /\ open /\ ~open' /\ q' = <<>> /\ main \notin {"args", "dispatch"}
      /\ UNCHANGED <<offered, refused, counters, worker, main>>
  BY DEF ServerDropped, Close, workerVars, LossInv, OwnersOK
<1>2. Offers' = Offers /\ Uncounted' = Uncounted
  BY <1>1 DEF Offers, Message, Uncounted
<1>3. Missing' = Missing + Len(q)
  BY <1>1, <1>2, LossTypes DEF Missing
<1>4. Missing = 0 /\ Len(q) <= Capacity
  BY <1>1 DEF LossInv, LossOK, LossBounded
<1>5. Missing' \in 0 .. Capacity /\ Len(q') = 0
  BY <1>1, <1>3, <1>4, LossTypes
<1> QED  BY <1>1, <1>2, <1>5, LossTypes DEF LossInv, LossOK, LossBounded

LEMMA LossWorker ==
  ASSUME LossInv, Worker \/ WorkerExport
  PROVE  LossOK'
<1> USE DEF ringVars, Uncounted
<1>1. CASE WorkerRecv
  <2>1. /\ worker = "recv" /\ worker' = "count" /\ open /\ q # <<>> /\ q' = Tail(q)
        /\ UNCHANGED <<open, offered, refused, counters, main>>
    BY <1>1 DEF WorkerRecv, Take
  <2>2. Len(q') = Len(q) - 1
    BY <2>1 DEF LossInv, OrderInv, Pipeline
  <2>3. Offers' = Offers
    BY <2>1 DEF Offers, Message
  <2>4. Missing' = Missing
    BY <2>1, <2>2, <2>3, LossTypes DEF Missing
  <2> QED  BY <2>1, <2>2, <2>3, <2>4, LossTypes DEF LossInv, LossOK, LossBounded
<1>2. CASE WorkerCount
  <2>1. /\ worker = "count" /\ worker' = "parse"
        /\ counters'.received = counters.received + 1
        /\ UNCHANGED <<q, open, offered, refused, main>>
    BY <1>2 DEF WorkerCount, LossInv, SkewInv, SkewOK, Counts
  <2>2. Offers' = Offers
    BY <2>1 DEF Offers, Message
  <2>3. Missing' = Missing
    BY <2>1, <2>2, LossTypes DEF Missing
  <2> QED  BY <2>1, <2>2, <2>3, LossTypes DEF LossInv, LossOK, LossBounded
<1>3. CASE WorkerCheck \/ WorkerLock \/ WorkerTimeout \/ WorkerDisconnected
  BY <1>3, LossKeeps
  DEF WorkerCheck, WorkerLock, WorkerTimeout, WorkerDisconnected, WorkerLeaves
<1>4. CASE WorkerParses \/ WorkerSkips \/ WorkerPanics
  BY <1>4, LossKeeps DEF WorkerParses, WorkerSkips, WorkerPanics, WorkerLeaves
<1>5. CASE WorkerExports \/ WorkerExportFails
  <2>1. counters \in Counts
    BY DEF LossInv, SkewInv, SkewOK
  <2>2. /\ UNCHANGED <<q, open, offered, refused, Uncounted, main>>
        /\ counters'.received = counters.received
    BY <1>5, <2>1 DEF WorkerExports, WorkerExportFails, Counts
  <2> QED  BY <2>2, LossKeeps
<1> QED  BY <1>1, <1>2, <1>3, <1>4, <1>5 DEF Worker, WorkerExport

LEMMA LossBoot ==
  ASSUME LossInv, Boot
  PROVE  LossOK'
<1>1. UNCHANGED <<q, offered, refused, counters>>
  BY DEF Boot, PrintAndQuit, ReadConfig, RunCheck, RunHealthcheck, ServerFails,
     BindServer, LoadSchema, BindMetrics, SetHandler, NewFails, ExitFailed, Quit, Start,
     ringVars, threadVars
<1>2. UNCHANGED Uncounted
  <2>1. CASE Start
    BY <2>1 DEF Start, LossInv, OwnersOK, Uncounted
  <2> QED  BY <2>1, BootCases DEF threadVars, workerVars, Uncounted
<1>3. CASE BindServer
  <2>1. open' /\ main = "dispatch" /\ main' = "schema"
    BY <1>3 DEF BindServer, Starting
  <2>2. Offers' = Offers
    BY <1>1 DEF Offers, Message
  <2>3. Missing' = Missing /\ Missing = 0
    BY <1>1, <1>2, <2>1, <2>2 DEF Missing, LossInv, LossOK
  <2> QED  BY <1>1, <2>1, <2>2, <2>3 DEF LossInv, LossOK, LossBounded
<1>4. CASE ~BindServer
  <2>1. UNCHANGED open
    BY <1>4 DEF Boot, PrintAndQuit, ReadConfig, RunCheck, RunHealthcheck, ServerFails,
       LoadSchema, BindMetrics, SetHandler, NewFails, ExitFailed, Quit, Start, ringVars
  <2>2. main \in {"args", "dispatch"} \/ main' \notin {"args", "dispatch"}
    BY <1>4 DEF Boot, PrintAndQuit, ReadConfig, RunCheck, RunHealthcheck, ServerFails,
       LoadSchema, BindMetrics, SetHandler, NewFails, ExitFailed, Quit, Start
  <2>3. Offers' = Offers
    BY <1>1 DEF Offers, Message
  <2>4. Missing' = Missing
    BY <1>1, <1>2, <2>3 DEF Missing
  <2> QED  BY <1>1, <2>1, <2>2, <2>3, <2>4 DEF LossInv, LossOK, LossBounded
<1> QED  BY <1>3, <1>4

LEMMA LossStep ==
  ASSUME LossInv, [StartupNext]_allVars
  PROVE  LossOK'
<1>1. ASSUME UNCHANGED <<ringVars, workerVars, counters>>,
             main' = main \/ main' \notin {"args", "dispatch"}
      PROVE  LossOK'
  BY <1>1, LossKeeps DEF ringVars, workerVars, Uncounted
<1>2. ASSUME Metrics \/ MetricsAcceptError
      PROVE  UNCHANGED <<ringVars, workerVars, counters, main>>
  BY <1>2 DEF Metrics, MetricsAcceptError, MetricsCheck, MetricsAccept, MetricsNoClient,
     MetricsRead, MetricsLock, RenderReceived, RenderExported, RenderErrors, MetricsWrite
<1>3. ASSUME HandleDropped \/ MainPoll \/ JoinWorker \/ Exit
      PROVE  UNCHANGED <<ringVars, workerVars, counters>> /\ main' \notin {"args", "dispatch"}
  BY <1>3 DEF HandleDropped, MainPoll, JoinWorker, Exit, JoinMetrics
<1>4. CASE Running
  BY <1>1, <1>2, <1>3, <1>4, RunningCases, LossOffer, LossDropped, LossWorker
<1>5. CASE UNCHANGED allVars
  BY <1>1, <1>5 DEF allVars, vars
<1> QED  BY <1>1, <1>3, <1>4, <1>5, LossBoot DEF StartupNext, Ended

-----------------------------------------------------------------------------

\* deliver, recv_timeout, run_worker and the drop of the server: while the server
\* lives every message a receiver thread offered is refused, in the ring, in the
\* worker's hand or counted; its drop loses what the ring held and nothing else.
THEOREM LossIsBounded == StartupSpec => []LossBounded
<1>1. StartupInit => LossInv
  BY OwnersInit, SkewInit, OrderInit, LossInit DEF LossInv
<1>2. LossInv /\ [StartupNext]_allVars => LossInv'
  BY OwnersStep, SkewStep, OrderStep, LossStep DEF LossInv
<1>3. LossInv => LossBounded
  BY DEF LossInv, LossOK
<1> QED  BY <1>1, <1>2, <1>3, PTL DEF StartupSpec

\* render_metrics beside run_worker: a page of /metrics shows at most one
\* message more exported or failed than received.
THEOREM ScrapeIsConsistent == StartupSpec => []ScrapeSkew
  <1>1. StartupInit => OwnersOK /\ SkewInv
    BY OwnersInit, SkewInit
  <1>2. OwnersOK /\ SkewInv /\ [StartupNext]_allVars => (OwnersOK /\ SkewInv)'
    BY OwnersStep, SkewStep
  <1>3. SkewInv => ScrapeSkew
    BY DEF SkewInv, SkewOK
  <1> QED
    BY <1>1, <1>2, <1>3, PTL DEF StartupSpec

\* From the receivers through the ring and the worker to the export that returns
\* Ok no message overtakes another of its source, and none is in two such exports.
THEOREM OrderIsKept == StartupSpec => []HandedInOrder
  <1>1. OrderInv => HandedInOrder
    BY DEF OrderInv, OrderOK, Before, HandedInOrder
  <1> QED
    BY <1>1, OrderInit, OrderStep, PTL DEF StartupSpec

-----------------------------------------------------------------------------
(***************************************************************************)
(* Interpolation.  Subst goes through a text once from the left; what it   *)
(* should do is stated by cutting the text up.  From every place on there  *)
(* are cuts whose pieces, replaced, join to what Subst yields from there   *)
(* on (Cuttable).  An unclosed reference is copied whole by the code and   *)
(* symbol by symbol by the cuts; nothing behind it can be closed either    *)
(* (UnclosedCopied).                                                       *)
(***************************************************************************)

RB == "}"

\* A closed reference at place k, and its end.
Refers(s, k) == OpensRef(s, k) /\ Closings(s, k) # {}
RefEnd(s, k) == FirstOf(Closings(s, k))

SubstBody(f, s, k) ==
  IF k > Len(s) THEN <<>>
  ELSE IF ~OpensRef(s, k) THEN <<s[k]>> \o f[k + 1]
  ELSE IF Closings(s, k) = {} THEN SubSeq(s, k, Len(s))
  ELSE ValueOf(s, k, RefEnd(s, k)) \o f[RefEnd(s, k) + 1]

IsRendering(r, s, P) ==
  r = [p \in P |-> IF p = Len(s) + 1 THEN <<>>
                   ELSE Replaced(SubSeq(s, p, NextCut(P, p) - 1)) \o r[NextCut(P, p)]]

LEMMA ClosingsIs ==
  ASSUME NEW s, NEW k
  PROVE  Closings(s, k) = {j \in k + 2 .. Len(s) : s[j] = RB}
  BY Zenon DEF Closings, RB

LEMMA OpensIs ==
  ASSUME NEW s, NEW k, OpensRef(s, k)
  PROVE  k < Len(s) /\ s[k] # RB /\ s[k + 1] # RB
<1>1. k < Len(s) /\ s[k] = "$" /\ s[k + 1] = "{"
  BY Zenon DEF OpensRef
<1>2. "$" # "}" /\ "{" # "}"
  BY Zenon
<1> QED  BY <1>1, <1>2, Zenon DEF RB

LEMMA CutAtIs ==
  ASSUME NEW s, NEW P, NEW p
  PROVE  CutAt(s, P, p) <=>
           IF Refers(s, p)
           THEN s[NextCut(P, p) - 1] = RB /\ \A j \in p .. NextCut(P, p) - 2 : s[j] # RB
           ELSE NextCut(P, p) = p + 1
  BY Zenon DEF CutAt, Refers, RB

\* The least of some numbers.
LEMMA FirstOfIs ==
  ASSUME NEW T, T \subseteq Nat, T # {}
  PROVE  FirstOf(T) \in T /\ \A k \in T : FirstOf(T) <= k
<1>1. PICK x \in T : \A y \in T : ~(<<y, x>> \in OpToRel(<, Nat))
  BY WFMin, NatLessThanWellFounded
<1>2. \A y \in T : ~(y < x)
  BY <1>1 DEF OpToRel
<1>3. \A y \in T : x <= y
  BY <1>2
<1> QED  BY <1>3 DEF FirstOf

LEMMA RefEndIs ==
  ASSUME NEW S, NEW s \in Seq(S), NEW k \in 1 .. Len(s), Refers(s, k)
  PROVE  /\ RefEnd(s, k) \in k + 2 .. Len(s) /\ s[RefEnd(s, k)] = RB
         /\ \A j \in k .. RefEnd(s, k) - 1 : s[j] # RB
<1>1. Len(s) \in Nat
  OBVIOUS
<1>2. /\ Closings(s, k) \subseteq Nat /\ Closings(s, k) # {}
      /\ \A j \in Closings(s, k) : j \in k + 2 .. Len(s) /\ s[j] = RB
      /\ \A j \in k + 2 .. Len(s) : s[j] = RB => j \in Closings(s, k)
  BY <1>1, ClosingsIs DEF Refers
<1>3. RefEnd(s, k) \in Closings(s, k) /\ \A j \in Closings(s, k) : RefEnd(s, k) <= j
  BY <1>2, FirstOfIs DEF RefEnd
<1>4. s[k] # RB /\ s[k + 1] # RB
  BY OpensIs DEF Refers
<1>5. ASSUME NEW j \in k .. RefEnd(s, k) - 1 PROVE s[j] # RB
  <2>1. CASE j = k \/ j = k + 1
    BY <1>4, <2>1
  <2>2. CASE ~(j = k \/ j = k + 1)
    <3>1. RefEnd(s, k) \in k + 2 .. Len(s)
      BY <1>2, <1>3
    <3>2. j \in k + 2 .. Len(s) /\ ~(RefEnd(s, k) <= j)
      BY <1>1, <2>2, <3>1
    <3> QED  BY <1>2, <1>3, <3>2
  <2> QED  BY <2>1, <2>2
<1> QED  BY <1>2, <1>3, <1>5

\* Subst is well defined: it goes on to the right.
LEMMA SubstExists ==
  ASSUME NEW S, NEW s \in Seq(S)
  PROVE  \E f : f = [k \in 1 .. Len(s) + 1 |-> SubstBody(f, s, k)]
<1> DEFINE D == 1 .. Len(s) + 1
           E == {k \in 1 .. Len(s) : OpensRef(s, k) => Refers(s, k)}
           mu == [k \in D |-> Len(s) + 1 - k]
           next == [k \in E |-> IF OpensRef(s, k) THEN RefEnd(s, k) + 1 ELSE k + 1]
           part == [k \in D |-> IF k > Len(s) THEN <<>>
                                ELSE IF ~OpensRef(s, k) THEN <<s[k]>>
                                ELSE IF Closings(s, k) = {} THEN SubSeq(s, k, Len(s))
                                ELSE ValueOf(s, k, RefEnd(s, k))]
<1>1. Len(s) \in Nat /\ E \subseteq D
  OBVIOUS
<1>2. mu \in [D -> Nat]
  BY <1>1
<1>3. ASSUME NEW k \in E PROVE next[k] \in D /\ k < next[k] /\ k \in D /\ k \in Nat
  <2>1. CASE OpensRef(s, k)
    <3>1. RefEnd(s, k) \in k + 2 .. Len(s)
      BY <2>1, RefEndIs
    <3> QED  BY <1>1, <2>1, <3>1
  <2>2. CASE ~OpensRef(s, k)
    BY <1>1, <2>2
  <2> QED  BY <2>1, <2>2
<1>4. next \in [E -> D]
  BY <1>3
<1>5. ASSUME NEW k \in E PROVE mu[next[k]] < mu[k]
  <2> HIDE DEF next, E
  <2> QED  BY <1>1, <1>3
<1>6. ASSUME NEW f, NEW k \in D
      PROVE  (IF k \in E THEN part[k] \o f[next[k]] ELSE part[k]) = SubstBody(f, s, k)
  <2>1. CASE k > Len(s)
    <3>1. k \notin E
      BY <1>1, <2>1
    <3> HIDE DEF E
    <3> QED  BY <2>1, <3>1 DEF SubstBody
  <2>2. CASE ~(k > Len(s)) /\ ~OpensRef(s, k)
    <3>1. k \in E /\ next[k] = k + 1
      BY <1>1, <2>2
    <3> HIDE DEF E, next
    <3> QED  BY <2>2, <3>1 DEF SubstBody
  <2>3. CASE ~(k > Len(s)) /\ OpensRef(s, k) /\ Closings(s, k) = {}
    <3>1. k \notin E
      BY <2>3 DEF Refers
    <3> HIDE DEF E, next
    <3> QED  BY <2>3, <3>1 DEF SubstBody
  <2>4. CASE ~(k > Len(s)) /\ OpensRef(s, k) /\ Closings(s, k) # {}
    <3>1. k \in E /\ next[k] = RefEnd(s, k) + 1
      BY <1>1, <2>4 DEF Refers
    <3> HIDE DEF E, next
    <3> QED  BY <2>4, <3>1 DEF SubstBody
  <2> QED  BY <2>1, <2>2, <2>3, <2>4
<1> HIDE DEF E, mu, next, part
<1>7. PICK f : IsChain(f, D, E, next, part)
  BY <1>1, <1>2, <1>4, <1>5, ChainExists
<1>8. f = [k \in D |-> SubstBody(f, s, k)]
  BY <1>6, <1>7 DEF IsChain
<1> HIDE DEF D
<1> QED  BY <1>8, Zenon DEF D

\* The values Subst goes through.
LEMMA SubstIs ==
  ASSUME NEW S, NEW s \in Seq(S)
  PROVE  \E f : Subst(s) = f[1] /\ \A k \in 1 .. Len(s) + 1 : f[k] = SubstBody(f, s, k)
<1> DEFINE F == CHOOSE f : f = [k \in 1 .. Len(s) + 1 |-> SubstBody(f, s, k)]
<1>1. F = [k \in 1 .. Len(s) + 1 |-> SubstBody(F, s, k)]
  BY SubstExists, Zenon
<1>2. Subst(s) = F[1]
  BY Zenon DEF Subst, SubstBody, RefEnd
<1> HIDE DEF F
<1>3. \A k \in 1 .. Len(s) + 1 : F[k] = SubstBody(F, s, k)
  BY <1>1
<1> QED  BY <1>2, <1>3, Zenon

LEMMA SubSeqHead ==
  ASSUME NEW S, NEW s \in Seq(S), NEW k \in 1 .. Len(s)
  PROVE  <<s[k]>> \o SubSeq(s, k + 1, Len(s)) = SubSeq(s, k, Len(s))
<1> DEFINE a == SubSeq(s, k + 1, Len(s))
           b == SubSeq(s, k, Len(s))
           c == <<s[k]>>
<1>1. /\ a \in Seq(S) /\ Len(a) = Len(s) - k /\ Len(s) \in Nat
      /\ \A i \in 1 .. Len(s) - k : a[i] = s[k + i]
  OBVIOUS
<1>2. /\ b \in Seq(S) /\ Len(b) = Len(s) - k + 1
      /\ \A i \in 1 .. Len(s) - k + 1 : b[i] = s[k + i - 1]
  OBVIOUS
<1>3. c \in Seq(S) /\ Len(c) = 1 /\ c[1] = s[k]
  OBVIOUS
<1> HIDE DEF a, b, c
<1>4. /\ c \o a \in Seq(S) /\ Len(c \o a) = Len(s) - k + 1
      /\ \A i \in 1 .. Len(s) - k + 1 : (c \o a)[i] = IF i <= 1 THEN c[i] ELSE a[i - 1]
  <2>1. /\ c \o a \in Seq(S) /\ Len(c \o a) = Len(c) + Len(a)
        /\ \A i \in 1 .. Len(c) + Len(a) :
             (c \o a)[i] = IF i <= Len(c) THEN c[i] ELSE a[i - Len(c)]
    BY <1>1, <1>3, ConcatIs
  <2>2. Len(c) + Len(a) = Len(s) - k + 1 /\ Len(c) = 1
    BY <1>1, <1>3
  <2> QED  BY <2>1, <2>2
<1>5. ASSUME NEW i \in 1 .. Len(s) - k + 1 PROVE (c \o a)[i] = b[i]
  <2>1. CASE i = 1
    BY <1>1, <1>2, <1>3, <1>4, <2>1
  <2>2. CASE i # 1
    <3>1. i - 1 \in 1 .. Len(s) - k /\ k + (i - 1) = k + i - 1 /\ ~(i <= 1)
      BY <1>1, <2>2
    <3> QED  BY <1>1, <1>2, <1>4, <3>1
  <2> QED  BY <2>1, <2>2
<1> DEFINE d == c \o a
<1>6. d \in Seq(S) /\ Len(d) = Len(b) /\ \A i \in 1 .. Len(b) : d[i] = b[i]
  BY <1>2, <1>4, <1>5
<1> HIDE DEF d
<1>7. d = b
  BY <1>2, <1>6
<1> QED  BY <1>7 DEF a, b, c, d

\* From where nothing is closed any more on, the text is copied.
LEMMA UnclosedCopied ==
  ASSUME NEW S, NEW s \in Seq(S), NEW f,
         \A k \in 1 .. Len(s) + 1 : f[k] = SubstBody(f, s, k)
  PROVE  \A k \in 1 .. Len(s) + 1 : Closings(s, k) = {} => f[k] = SubSeq(s, k, Len(s))
<1> DEFINE Wrong(k) == Closings(s, k) = {} /\ f[k] # SubSeq(s, k, Len(s))
           Bad == {n \in Nat : \E k \in 1 .. Len(s) + 1 : n = Len(s) + 1 - k /\ Wrong(k)}
<1>1. Len(s) \in Nat
  OBVIOUS
<1>2. SUFFICES ASSUME NEW k0 \in 1 .. Len(s) + 1, Wrong(k0) PROVE FALSE
  OBVIOUS
<1> HIDE DEF Wrong
<1>3. Len(s) + 1 - k0 \in Bad
  BY <1>1, <1>2
<1>4. PICK n \in Bad : \A y \in Bad : ~(<<y, n>> \in OpToRel(<, Nat))
  BY <1>3, WFMin, NatLessThanWellFounded
<1>5. n \in Nat /\ \A y \in Bad : ~(y < n)
  BY <1>4 DEF OpToRel
<1>6. PICK k \in 1 .. Len(s) + 1 : n = Len(s) + 1 - k /\ Wrong(k)
  OBVIOUS
<1>7. f[k] = SubstBody(f, s, k) /\ Closings(s, k) = {} /\ f[k] # SubSeq(s, k, Len(s))
  BY <1>6 DEF Wrong
<1>8. CASE k > Len(s)
  <2>1. f[k] = <<>>
    BY <1>7, <1>8 DEF SubstBody
  <2>2. SubSeq(s, k, Len(s)) = <<>>
    BY <1>1, <1>8
  <2> QED  BY <1>7, <2>1, <2>2
<1>9. CASE ~(k > Len(s)) /\ OpensRef(s, k)
  BY <1>7, <1>9 DEF SubstBody
<1>10. CASE ~(k > Len(s)) /\ ~OpensRef(s, k)
  <2>1. k \in 1 .. Len(s) /\ k + 1 \in 1 .. Len(s) + 1
    BY <1>1, <1>10
  <2>2. Closings(s, k + 1) = {}
    <3>1. {j \in k + 2 .. Len(s) : s[j] = RB} = {}
      BY <1>7, ClosingsIs
    <3>2. {j \in (k + 1) + 2 .. Len(s) : s[j] = RB} = {}
      BY <1>1, <3>1
    <3> QED  BY <3>2, ClosingsIs
  <2>3. ~Wrong(k + 1)
    <3>1. Len(s) + 1 - (k + 1) \in Nat /\ Len(s) + 1 - (k + 1) < n
      BY <1>1, <1>6, <2>1
    <3> QED  BY <1>5, <2>1, <3>1
  <2>4. f[k + 1] = SubSeq(s, k + 1, Len(s))
    BY <2>2, <2>3 DEF Wrong
  <2>5. f[k] = <<s[k]>> \o f[k + 1]
    BY <1>7, <1>10 DEF SubstBody
  <2> QED  BY <1>7, <2>1, <2>4, <2>5, SubSeqHead
<1> QED  BY <1>8, <1>9, <1>10

\* What Subst does at a place, with an unclosed reference read symbol by symbol.
LEMMA SubstAt ==
  ASSUME NEW S, NEW s \in Seq(S), NEW f,
         \A k \in 1 .. Len(s) + 1 : f[k] = SubstBody(f, s, k)
  PROVE  /\ f[Len(s) + 1] = <<>>
         /\ \A k \in 1 .. Len(s) :
              f[k] = IF Refers(s, k) THEN ValueOf(s, k, RefEnd(s, k)) \o f[RefEnd(s, k) + 1]
                     ELSE <<s[k]>> \o f[k + 1]
<1>1. Len(s) \in Nat
  OBVIOUS
<1>2. f[Len(s) + 1] = <<>>
  <2>1. Len(s) + 1 \in 1 .. Len(s) + 1 /\ Len(s) + 1 > Len(s)
    BY <1>1
  <2>2. f[Len(s) + 1] = SubstBody(f, s, Len(s) + 1)
    BY <2>1
  <2> QED  BY <2>1, <2>2, Zenon DEF SubstBody
<1>3. ASSUME NEW k \in 1 .. Len(s)
      PROVE  f[k] = IF Refers(s, k) THEN ValueOf(s, k, RefEnd(s, k)) \o f[RefEnd(s, k) + 1]
                    ELSE <<s[k]>> \o f[k + 1]
  <2>1. f[k] = SubstBody(f, s, k) /\ ~(k > Len(s)) /\ k + 1 \in 1 .. Len(s) + 1
    BY <1>1
  <2>2. CASE ~OpensRef(s, k)
    BY <2>1, <2>2 DEF SubstBody, Refers
  <2>3. CASE OpensRef(s, k) /\ Closings(s, k) # {}
    BY <2>1, <2>3 DEF SubstBody, Refers
  <2>4. CASE OpensRef(s, k) /\ Closings(s, k) = {}
    <3>1. f[k] = SubSeq(s, k, Len(s)) /\ ~Refers(s, k)
      BY <2>1, <2>4 DEF SubstBody, Refers
    <3>2. Closings(s, k + 1) = {}
      <4>1. {j \in k + 2 .. Len(s) : s[j] = RB} = {}
        BY <2>4, ClosingsIs
      <4>2. {j \in (k + 1) + 2 .. Len(s) : s[j] = RB} = {}
        BY <1>1, <4>1
      <4> QED  BY <4>2, ClosingsIs
    <3>3. f[k + 1] = SubSeq(s, k + 1, Len(s))
      BY <2>1, <3>2, UnclosedCopied
    <3> QED  BY <3>1, <3>3, SubSeqHead
  <2> QED  BY <2>2, <2>3, <2>4
<1> QED  BY <1>2, <1>3

LEMMA SameSeq ==
  ASSUME NEW S, NEW a \in Seq(S), NEW b \in Seq(S), Len(a) = Len(b),
         \A i \in 1 .. Len(a) : a[i] = b[i]
  PROVE  a = b
  OBVIOUS

\* A reference is replaced as a piece just as Subst does, a single symbol is kept.
LEMMA ReplacedRef ==
  ASSUME NEW S, NEW s \in Seq(S), NEW k \in 1 .. Len(s), NEW j \in k + 2 .. Len(s)
  PROVE  Replaced(SubSeq(s, k, j)) = ValueOf(s, k, j)
<1> DEFINE t == SubSeq(s, k, j)
           a == SubSeq(t, 3, Len(t) - 1)
           b == SubSeq(s, k + 2, j - 1)
<1>1. /\ t \in Seq(S) /\ Len(t) = j - k + 1 /\ Len(s) \in Nat
      /\ \A i \in 1 .. j - k + 1 : t[i] = s[k + i - 1]
  OBVIOUS
<1>2. /\ b \in Seq(S) /\ Len(b) = j - k - 2
      /\ \A i \in 1 .. j - k - 2 : b[i] = s[(k + 2) + i - 1]
  OBVIOUS
<1>3. Len(t) > 2
  BY <1>1
<1> HIDE DEF t
<1>4. /\ a \in Seq(S) /\ Len(a) = Len(t) - 3
      /\ \A i \in 1 .. Len(t) - 3 : a[i] = t[3 + i - 1]
  BY <1>1, <1>3
<1> HIDE DEF a, b
<1>5. Len(a) = Len(b)
  BY <1>1, <1>2, <1>4
<1>6. ASSUME NEW i \in 1 .. Len(a) PROVE a[i] = b[i]
  <2>1. /\ i \in 1 .. Len(t) - 3 /\ i \in 1 .. j - k - 2 /\ 3 + i - 1 \in 1 .. j - k + 1
        /\ k + (3 + i - 1) - 1 = (k + 2) + i - 1
    BY <1>1, <1>4
  <2>2. a[i] = t[3 + i - 1] /\ t[3 + i - 1] = s[k + (3 + i - 1) - 1]
    BY <1>1, <1>4, <2>1
  <2>3. b[i] = s[(k + 2) + i - 1]
    BY <1>2, <2>1
  <2> QED  BY <2>1, <2>2, <2>3
<1>7. a = b
  BY <1>2, <1>4, <1>5, <1>6, SameSeq
<1>8. Replaced(t) = IF a \in DOMAIN Env THEN Env[a] ELSE t
  BY <1>3 DEF Replaced, a
<1>9. ValueOf(s, k, j) = IF b \in DOMAIN Env THEN Env[b] ELSE t
  BY DEF ValueOf, b, t
<1> QED  BY <1>7, <1>8, <1>9 DEF t

LEMMA ReplacedSymbol ==
  ASSUME NEW S, NEW s \in Seq(S), NEW k \in 1 .. Len(s)
  PROVE  Replaced(SubSeq(s, k, k)) = <<s[k]>>
<1> DEFINE t == SubSeq(s, k, k)
           c == <<s[k]>>
<1>0. t \in Seq(S) /\ Len(t) = 1 /\ t[1] = s[k]
  OBVIOUS
<1>a. c \in Seq(S) /\ Len(c) = 1 /\ c[1] = s[k]
  OBVIOUS
<1>1. t = c /\ Len(t) = 1
  <2> HIDE DEF t, c
  <2> QED  BY <1>0, <1>a, SameSeq
<1>2. ~(Len(t) > 2)
  BY <1>1
<1> HIDE DEF t
<1>3. Replaced(t) = t
  BY <1>2 DEF Replaced
<1> QED  BY <1>1, <1>3 DEF t

\* A cut more in front of others leaves the others' next cuts alone.
LEMMA CutInFront ==
  ASSUME NEW n \in Nat, NEW k \in Nat, NEW m \in k + 1 .. n,
         NEW P, P \subseteq m .. n, m \in P
  PROVE  /\ NextCut(P \cup {k}, k) = m
         /\ \A p \in P : NextCut(P \cup {k}, p) = NextCut(P, p)
         /\ \A p \in P \ {n} : n \in P => NextCut(P, p) \in P /\ p < NextCut(P, p)
<1>0. m \in Nat /\ k < m /\ \A x \in P : x \in Nat /\ m <= x /\ x <= n /\ k < x
  OBVIOUS
<1>1. {x \in P \cup {k} : x > k} = P
  <2>1. ~(k > k) /\ \A x \in P : x > k
    BY <1>0
  <2> QED  BY <2>1, Zenon
<1>2. FirstOf(P) = m
  <2>1. P \subseteq Nat /\ P # {}
    OBVIOUS
  <2>2. FirstOf(P) \in P /\ \A z \in P : FirstOf(P) <= z
    BY <2>1, FirstOfIs
  <2>3. FirstOf(P) \in m .. n /\ FirstOf(P) <= m
    BY <2>2
  <2> QED  BY <2>3
<1>3. ASSUME NEW p \in P PROVE NextCut(P \cup {k}, p) = NextCut(P, p)
  <2>1. {x \in P \cup {k} : x > p} = {x \in P : x > p}
    BY <1>0
  <2> QED  BY <2>1, Zenon DEF NextCut
<1>4. ASSUME NEW p \in P \ {n}, n \in P
      PROVE  NextCut(P, p) \in P /\ p < NextCut(P, p)
  <2> DEFINE T == {x \in P : x > p}
  <2>1. T \subseteq Nat /\ n \in T
    <3>1. p \in Nat /\ p <= n /\ p # n
      BY <1>0
    <3>2. n > p
      BY <3>1
    <3> QED  BY <1>0, <1>4, <3>2
  <2>2. FirstOf(T) \in T
    <3> HIDE DEF T
    <3>1. T # {}
      BY <2>1
    <3> QED  BY <2>1, <3>1, FirstOfIs
  <2>3. FirstOf(T) \in P /\ p < FirstOf(T)
    <3> DEFINE y == FirstOf(T)
    <3>1. y \in T
      BY <2>2
    <3> HIDE DEF y
    <3>2. y \in P /\ p < y
      BY <3>1
    <3> QED  BY <3>2 DEF y
  <2> QED  BY <2>3 DEF NextCut
<1> QED  BY <1>1, <1>2, <1>3, <1>4 DEF NextCut

\* Where Subst goes on behind place k.
After(s, k) == IF Refers(s, k) THEN RefEnd(s, k) + 1 ELSE k + 1

LEMMA AfterIs ==
  ASSUME NEW S, NEW s \in Seq(S), NEW k \in 1 .. Len(s), NEW f,
         \A i \in 1 .. Len(s) + 1 : f[i] = SubstBody(f, s, i)
  PROVE  /\ After(s, k) \in k + 1 .. Len(s) + 1
         /\ f[k] = Replaced(SubSeq(s, k, After(s, k) - 1)) \o f[After(s, k)]
         /\ \A P : NextCut(P, k) = After(s, k) => CutAt(s, P, k)
<1>1. Len(s) \in Nat
  OBVIOUS
<1>2. f[k] = IF Refers(s, k) THEN ValueOf(s, k, RefEnd(s, k)) \o f[RefEnd(s, k) + 1]
             ELSE <<s[k]>> \o f[k + 1]
  BY SubstAt
<1>3. CASE Refers(s, k)
  <2>1. /\ RefEnd(s, k) \in k + 2 .. Len(s) /\ s[RefEnd(s, k)] = RB
        /\ \A j \in k .. RefEnd(s, k) - 1 : s[j] # RB
    BY <1>3, RefEndIs
  <2>2. After(s, k) = RefEnd(s, k) + 1
    BY <1>3 DEF After
  <2>3. /\ After(s, k) \in k + 1 .. Len(s) + 1 /\ After(s, k) - 1 = RefEnd(s, k)
        /\ After(s, k) - 2 = RefEnd(s, k) - 1
    BY <1>1, <2>1, <2>2
  <2>4. Replaced(SubSeq(s, k, RefEnd(s, k))) = ValueOf(s, k, RefEnd(s, k))
    BY <2>1, ReplacedRef
  <2>5. ASSUME NEW P, NextCut(P, k) = After(s, k) PROVE CutAt(s, P, k)
    <3>1. s[NextCut(P, k) - 1] = RB /\ \A j \in k .. NextCut(P, k) - 2 : s[j] # RB
      BY <2>1, <2>3, <2>5, Zenon
    <3> QED  BY <1>3, <3>1, CutAtIs, Zenon
  <2> QED  BY <1>2, <1>3, <2>2, <2>3, <2>4, <2>5, Zenon
<1>4. CASE ~Refers(s, k)
  <2>1. After(s, k) = k + 1
    BY <1>4 DEF After
  <2>2. After(s, k) \in k + 1 .. Len(s) + 1 /\ After(s, k) - 1 = k
    BY <1>1, <2>1
  <2>3. Replaced(SubSeq(s, k, k)) = <<s[k]>>
    BY ReplacedSymbol
  <2>4. ASSUME NEW P, NextCut(P, k) = After(s, k) PROVE CutAt(s, P, k)
    BY <1>4, <2>1, <2>4, CutAtIs, Zenon
  <2> QED  BY <1>2, <1>4, <2>1, <2>2, <2>3, <2>4, Zenon
<1> QED  BY <1>3, <1>4

LEMMA CutsIs ==
  ASSUME NEW s, NEW k, NEW P
  PROVE  P \in CutsFrom(s, k) <=>
           /\ P \subseteq k .. Len(s) + 1 /\ k \in P /\ Len(s) + 1 \in P
           /\ \A p \in P \ {Len(s) + 1} : CutAt(s, P, p)
<1> HIDE DEF CutAt
<1> QED  BY Zenon DEF CutsFrom

\* One piece more in front.
LEMMA CutStep ==
  ASSUME NEW S, NEW s \in Seq(S), NEW k \in 1 .. Len(s), NEW f,
         \A i \in 1 .. Len(s) + 1 : f[i] = SubstBody(f, s, i),
         NEW Q \in CutsFrom(s, After(s, k)), NEW g, IsRendering(g, s, Q),
         g[After(s, k)] = f[After(s, k)]
  PROVE  \E P \in CutsFrom(s, k) : \E r : IsRendering(r, s, P) /\ r[k] = f[k]
<1> DEFINE n == Len(s) + 1
           m == After(s, k)
           P == Q \cup {k}
           Piece(p) == Replaced(SubSeq(s, p, NextCut(P, p) - 1))
           r == [p \in P |-> IF p = n THEN <<>> ELSE Piece(p) \o g[NextCut(P, p)]]
<1>1. Len(s) \in Nat /\ n \in Nat /\ k \in Nat /\ k # n
  OBVIOUS
<1>2. /\ m \in k + 1 .. n /\ f[k] = Replaced(SubSeq(s, k, m - 1)) \o f[m]
      /\ \A T : NextCut(T, k) = m => CutAt(s, T, k)
  BY AfterIs
<1> HIDE DEF m
<1>3. /\ Q \subseteq m .. n /\ m \in Q /\ n \in Q
      /\ \A p \in Q \ {n} : CutAt(s, Q, p)
  BY CutsIs, Zenon DEF m
<1> HIDE DEF n
<1>4. /\ NextCut(P, k) = m /\ \A p \in Q : NextCut(P, p) = NextCut(Q, p)
      /\ \A p \in Q \ {n} : NextCut(Q, p) \in Q /\ p < NextCut(Q, p)
  <2>1. /\ NextCut(Q \cup {k}, k) = m
        /\ \A p \in Q : NextCut(Q \cup {k}, p) = NextCut(Q, p)
        /\ \A p \in Q \ {n} : n \in Q => NextCut(Q, p) \in Q /\ p < NextCut(Q, p)
    BY <1>1, <1>2, <1>3, CutInFront, Zenon
  <2> QED  BY <1>3, <2>1, Zenon
<1>5. CutAt(s, P, k)
  BY <1>2, <1>4, Zenon
<1>6. ASSUME NEW p \in Q \ {n} PROVE CutAt(s, P, p)
  <2>1. NextCut(P, p) = NextCut(Q, p) /\ CutAt(s, Q, p)
    BY <1>3, <1>4
  <2> QED  BY <2>1, Zenon DEF CutAt
<1>7. P \subseteq k .. n /\ k \in P /\ n \in P
  BY <1>1, <1>2, <1>3
<1>8. P \in CutsFrom(s, k)
  <2>1. \A p \in P \ {n} : CutAt(s, P, p)
    BY <1>5, <1>6, Zenon
  <2> HIDE DEF P
  <2> QED  BY <1>7, <2>1, CutsIs, Zenon DEF n
<1>9. ASSUME NEW p \in Q PROVE r[p] = g[p]
  <2>1. g[p] = IF p = n THEN <<>> ELSE Replaced(SubSeq(s, p, NextCut(Q, p) - 1)) \o g[NextCut(Q, p)]
    <3> DEFINE B(z) == IF z = n THEN <<>> ELSE Replaced(SubSeq(s, z, NextCut(Q, z) - 1)) \o g[NextCut(Q, z)]
    <3>1. g = [z \in Q |-> B(z)]
      BY Zenon DEF IsRendering, n
    <3> HIDE DEF B
    <3>2. g[p] = B(p)
      BY <3>1
    <3> QED  BY <3>2 DEF B
  <2>2. NextCut(P, p) = NextCut(Q, p) /\ p \in P
    BY <1>4
  <2>3. r[p] = IF p = n THEN <<>> ELSE Piece(p) \o g[NextCut(P, p)]
    <3> HIDE DEF Piece, P
    <3> QED  BY <2>2
  <2> HIDE DEF P, r
  <2> QED  BY <2>1, <2>2, <2>3, Zenon
<1>10. ASSUME NEW p \in P, p # n PROVE r[NextCut(P, p)] = g[NextCut(P, p)]
  <2>1. NextCut(P, p) \in Q
    BY <1>3, <1>4, <1>10
  <2> HIDE DEF P, r
  <2> QED  BY <1>9, <2>1, Zenon
<1>11. IsRendering(r, s, P)
  <2> DEFINE C(p) == IF p = n THEN <<>> ELSE Piece(p) \o g[NextCut(P, p)]
             D(p) == IF p = n THEN <<>> ELSE Piece(p) \o r[NextCut(P, p)]
  <2>1. ASSUME NEW p \in P PROVE C(p) = D(p)
    <3> HIDE DEF r, P
    <3> QED  BY <1>10, Zenon
  <2>2. r = [p \in P |-> C(p)]
    OBVIOUS
  <2>3. r = [p \in P |-> D(p)]
    <3> HIDE DEF r, P, C, D
    <3> QED  BY <2>1, <2>2
  <2> HIDE DEF r, P
  <2> QED  BY <2>3, Zenon DEF IsRendering, n
<1>12. r[k] = f[k]
  <2>1. r[k] = IF k = n THEN <<>> ELSE Piece(k) \o g[NextCut(P, k)]
    <3>1. k \in P
      OBVIOUS
    <3> HIDE DEF Piece, P
    <3> QED  BY <3>1
  <2> HIDE DEF P, r
  <2> QED  BY <1>1, <1>2, <1>4, <2>1, Zenon DEF m
<1> HIDE DEF P, r
<1> QED  BY <1>8, <1>11, <1>12, Zenon

LEMMA Cuttable ==
  ASSUME NEW S, NEW s \in Seq(S), NEW f,
         \A k \in 1 .. Len(s) + 1 : f[k] = SubstBody(f, s, k)
  PROVE  \A k \in 1 .. Len(s) + 1 :
           \E P \in CutsFrom(s, k) : \E r : IsRendering(r, s, P) /\ r[k] = f[k]
<1> DEFINE Cut(k) == \E P \in CutsFrom(s, k) : \E r : IsRendering(r, s, P) /\ r[k] = f[k]
           Bad == {n \in Nat : \E k \in 1 .. Len(s) + 1 : n = Len(s) + 1 - k /\ ~Cut(k)}
<1>1. Len(s) \in Nat
  OBVIOUS
<1>2. Cut(Len(s) + 1)
  <2> DEFINE P == {Len(s) + 1}
             r == [p \in P |-> <<>>]
  <2>1. P \in CutsFrom(s, Len(s) + 1)
    <3>1. P \subseteq Len(s) + 1 .. Len(s) + 1
      BY <1>1
    <3> QED  BY <3>1, CutsIs, Zenon
  <2>2. IsRendering(r, s, P)
    <3>1. r = [p \in P |-> IF p = Len(s) + 1 THEN <<>>
                ELSE Replaced(SubSeq(s, p, NextCut(P, p) - 1)) \o r[NextCut(P, p)]]
      BY Zenon
    <3> QED  BY <3>1, Zenon DEF IsRendering
  <2>3. r[Len(s) + 1] = f[Len(s) + 1]
    <3>1. f[Len(s) + 1] = <<>>
      BY SubstAt
    <3> QED  BY <3>1
  <2> HIDE DEF P, r
  <2> QED  BY <2>1, <2>2, <2>3, Zenon
<1>3. ASSUME NEW k \in 1 .. Len(s), Cut(After(s, k)) PROVE Cut(k)
  <2>1. PICK Q \in CutsFrom(s, After(s, k)) :
          \E r : IsRendering(r, s, Q) /\ r[After(s, k)] = f[After(s, k)]
    BY <1>3, Zenon
  <2>2. PICK g : IsRendering(g, s, Q) /\ g[After(s, k)] = f[After(s, k)]
    BY <2>1, Zenon
  <2> QED  BY <2>2, CutStep
<1> HIDE DEF Cut
<1>4. SUFFICES ASSUME NEW k0 \in 1 .. Len(s) + 1, ~Cut(k0) PROVE FALSE
  BY Zenon DEF Cut
<1>5. Len(s) + 1 - k0 \in Bad
  BY <1>1, <1>4
<1>6. PICK n \in Bad : \A y \in Bad : ~(<<y, n>> \in OpToRel(<, Nat))
  BY <1>5, WFMin, NatLessThanWellFounded
<1>7. n \in Nat /\ \A y \in Bad : ~(y < n)
  BY <1>6 DEF OpToRel
<1>8. PICK k \in 1 .. Len(s) + 1 : n = Len(s) + 1 - k /\ ~Cut(k)
  OBVIOUS
<1>9. k \in 1 .. Len(s)
  <2>1. k # Len(s) + 1
    BY <1>2, <1>8
  <2> QED  BY <1>1, <2>1
<1>10. After(s, k) \in k + 1 .. Len(s) + 1
  BY <1>9, AfterIs
<1>11. Cut(After(s, k))
  <2> DEFINE a == After(s, k)
  <2>1. a \in k + 1 .. Len(s) + 1
    BY <1>10
  <2> HIDE DEF a
  <2>2. a \in 1 .. Len(s) + 1 /\ Len(s) + 1 - a \in Nat /\ Len(s) + 1 - a < n
    BY <1>1, <1>8, <1>9, <2>1
  <2>3. Cut(a)
    BY <1>7, <2>2
  <2> QED  BY <2>3 DEF a
<1> QED  BY <1>3, <1>8, <1>9, <1>11

\* Two renderings of the same cuts agree.
LEMMA RenderingUnique ==
  ASSUME NEW S, NEW s \in Seq(S), NEW P \in CutsFrom(s, 1), NEW f, NEW g,
         IsRendering(f, s, P), IsRendering(g, s, P)
  PROVE  f[1] = g[1]
<1> DEFINE n == Len(s) + 1
           E == P \ {n}
           mu == [p \in P |-> n - p]
           next == [p \in E |-> NextCut(P, p)]
           part == [p \in P |-> IF p = n THEN <<>> ELSE Replaced(SubSeq(s, p, NextCut(P, p) - 1))]
<1>1. Len(s) \in Nat /\ n \in Nat
  OBVIOUS
<1>2. P \subseteq 1 .. n /\ 1 \in P /\ n \in P
  BY CutsIs, Zenon
<1> HIDE DEF n
<1>3. \A p \in E : NextCut(P, p) \in P /\ p < NextCut(P, p)
  <2>1. 0 \in Nat /\ 1 \in 0 + 1 .. n
    BY <1>1, <1>2
  <2> QED  BY <1>1, <1>2, <2>1, CutInFront
<1>4. mu \in [P -> Nat] /\ E \subseteq P
  BY <1>1, <1>2
<1>5. next \in [E -> P]
  BY <1>3
<1>6. ASSUME NEW p \in E PROVE mu[next[p]] < mu[p]
  <2> DEFINE z == NextCut(P, p)
  <2>1. z \in P /\ p < z /\ next[p] = z
    BY <1>3
  <2> HIDE DEF z, next
  <2>2. mu[z] = n - z /\ mu[p] = n - p
    BY <2>1
  <2>3. z \in Nat /\ p \in Nat
    <3>1. \A x \in P : x \in Nat
      BY <1>1, <1>2
    <3>2. p \in P
      OBVIOUS
    <3> QED  BY <2>1, <3>1, <3>2, Zenon
  <2>4. n - z < n - p
    BY <1>1, <2>1, <2>3
  <2> HIDE DEF mu
  <2> QED  BY <2>1, <2>2, <2>4
<1>7. ASSUME NEW h, IsRendering(h, s, P) PROVE IsChain(h, P, E, next, part)
  <2> DEFINE B(p) == IF p = n THEN <<>>
                     ELSE Replaced(SubSeq(s, p, NextCut(P, p) - 1)) \o h[NextCut(P, p)]
             C(p) == IF p \in E THEN part[p] \o h[next[p]] ELSE part[p]
  <2>1. h = [p \in P |-> B(p)]
    BY <1>7, Zenon DEF IsRendering, n
  <2>2. ASSUME NEW p \in P PROVE B(p) = C(p)
    <3>1. CASE p = n
      BY <3>1
    <3>2. CASE p # n
      <4>1. p \in E /\ next[p] = NextCut(P, p)
        BY <3>2
      <4>2. part[p] = Replaced(SubSeq(s, p, NextCut(P, p) - 1))
        BY <3>2
      <4> HIDE DEF E, next, part
      <4> QED  BY <3>2, <4>1, <4>2, Zenon
    <3> QED  BY <3>1, <3>2
  <2>3. h = [p \in P |-> C(p)]
    <3> HIDE DEF B, C
    <3> QED  BY <2>1, <2>2
  <2> HIDE DEF E, next, part
  <2> QED  BY <2>3, Zenon DEF IsChain
<1> HIDE DEF E, mu, next, part
<1>8. IsChain(f, P, E, next, part) /\ IsChain(g, P, E, next, part)
  BY <1>7
<1>9. \A p \in P : f[p] = g[p]
  BY <1>4, <1>5, <1>6, <1>8, ChainUnique
<1> QED  BY <1>2, <1>9

\* subst yields the pieces of a text, each replaced.
LEMMA SubstRenders ==
  ASSUME NEW S, NEW s \in Seq(S)
  PROVE  \E P \in CutsFrom(s, 1) : Subst(s) = Rendered(s, P)
<1>1. PICK f : Subst(s) = f[1] /\ \A k \in 1 .. Len(s) + 1 : f[k] = SubstBody(f, s, k)
  BY SubstIs
<1>2. 1 \in 1 .. Len(s) + 1
  OBVIOUS
<1>3. PICK P \in CutsFrom(s, 1) : \E r : IsRendering(r, s, P) /\ r[1] = f[1]
  <2>1. \A k \in 1 .. Len(s) + 1 :
          \E P \in CutsFrom(s, k) : \E r : IsRendering(r, s, P) /\ r[k] = f[k]
    BY <1>1, Cuttable
  <2> QED  BY <1>2, <2>1, Zenon
<1>4. PICK r : IsRendering(r, s, P) /\ r[1] = f[1]
  BY <1>3, Zenon
<1> DEFINE R == CHOOSE h : IsRendering(h, s, P)
<1>5. IsRendering(R, s, P)
  BY <1>4, Zenon
<1>6. Rendered(s, P) = R[1]
  BY Zenon DEF Rendered, IsRendering
<1> HIDE DEF R
<1>7. R[1] = r[1]
  BY <1>4, <1>5, RenderingUnique
<1> QED  BY <1>1, <1>4, <1>6, <1>7, Zenon

-----------------------------------------------------------------------------

\* The file is what it was at the start until it is read, and then the texts of
\* the configuration are what subst makes of the texts in it.
ConfigInv ==
  /\ main = "args" => \E l \in Launches : disk = l.disk
  /\ main = "dispatch" =>
       \A f \in Texts : disk[f] \in Seq(STRING) /\ cfg[f] = Subst(disk[f])

LEMMA ConfigInit == StartupInit => ConfigInv
  BY DEF StartupInit, ConfigInv

\* interpolate_env goes over all the texts.
LEMMA InterpolatesTexts ==
  ASSUME NEW c, \A f \in Texts : f \in DOMAIN c
  PROVE  \A f \in Texts : InterpolateEnv(c)[f] = Subst(c[f])
  BY DEF InterpolateEnv, Texts

LEMMA ConfigStep == ConfigInv /\ [StartupNext]_allVars => ConfigInv'
<1> SUFFICES ASSUME ConfigInv, [StartupNext]_allVars PROVE ConfigInv'
  OBVIOUS
<1>1. CASE ReadConfig
  <2>1. CASE disk.readable
    <3>1. \A f \in Texts : f \in DOMAIN disk /\ disk[f] \in Seq(STRING)
      <4>1. PICK l \in Launches : disk = l.disk
        BY <1>1 DEF ConfigInv, ReadConfig
      <4> QED  BY <2>1, <4>1, LaunchesAssumption, Zenon
    <3>2. cfg' = InterpolateEnv(disk) /\ disk' = disk /\ main' = "dispatch"
      BY <1>1, <2>1 DEF ReadConfig
    <3>3. \A f \in Texts : cfg'[f] = Subst(disk[f])
      BY <3>1, <3>2, InterpolatesTexts, Zenon
    <3>4. main' # "args"
      BY <3>2
    <3> QED  BY <3>1, <3>2, <3>3, <3>4, Zenon DEF ConfigInv
  <2>2. CASE ~disk.readable
    BY <1>1, <2>2 DEF ReadConfig, Quit, ConfigInv
  <2> QED  BY <2>1, <2>2
<1>2. CASE main' = main /\ disk' = disk /\ cfg' = cfg
  BY <1>2, Zenon DEF ConfigInv
<1>3. CASE main' \notin {"args", "dispatch"}
  BY <1>3 DEF ConfigInv
<1>4. CASE Boot /\ ~ReadConfig
  BY <1>3, <1>4 DEF Boot, PrintAndQuit, RunCheck, RunHealthcheck, ServerFails, BindServer,
     LoadSchema, BindMetrics, SetHandler, NewFails, ExitFailed, Start, Quit
<1>5. CASE Running /\ UNCHANGED bootVars
  <2>1. UNCHANGED <<disk, cfg>>
    BY <1>5 DEF bootVars
  <2>2. main' = main \/ main' \notin {"args", "dispatch"}
    <3>1. ASSUME Worker \/ WorkerExport PROVE main' = main
      BY <3>1 DEF Worker, WorkerCheck, WorkerLeaves, WorkerLock, WorkerRecv, WorkerTimeout,
         WorkerDisconnected, WorkerCount, WorkerParses, WorkerSkips, WorkerPanics,
         WorkerExport, WorkerExports, WorkerExportFails
    <3>2. ASSUME Metrics \/ MetricsAcceptError PROVE main' = main
      BY <3>2 DEF Metrics, MetricsCheck, MetricsAccept, MetricsNoClient, MetricsRead,
         MetricsLock, RenderReceived, RenderExported, RenderErrors, MetricsWrite,
         MetricsAcceptError
    <3>3. ASSUME NEW s \in Sources, Offer(s) PROVE main' = main
      BY <3>3 DEF Offer, Accept, Refuse
    <3>4. ASSUME ServerDropped PROVE main' = main
      BY <3>4 DEF ServerDropped
    <3>5. ASSUME HandleDropped \/ MainPoll \/ JoinWorker PROVE main' \notin {"args", "dispatch"}
      BY <3>5 DEF HandleDropped, MainPoll, JoinWorker
    <3> QED  BY <1>5, <3>1, <3>2, <3>3, <3>4, <3>5, RunningCases
  <2> QED  BY <1>2, <1>3, <2>1, <2>2
<1>6. CASE Exit
  BY <1>3, <1>6 DEF Exit, JoinMetrics
<1>7. CASE UNCHANGED allVars
  BY <1>2, <1>7 DEF allVars, vars, bootVars
<1> QED  BY <1>1, <1>4, <1>5, <1>6, <1>7 DEF StartupNext, Ended

\* DaemonConfig::interpolate_env and subst: every reference to a name that is
\* set is replaced by its value, once, and everything else of the file stays as
\* it was written.
THEOREM ReferencesExact == StartupSpec => []SubstExact
<1>1. ConfigInv => SubstExact
  <2> SUFFICES ASSUME ConfigInv, main = "dispatch", NEW f \in Texts
               PROVE  \E P \in CutsFrom(disk[f], 1) : cfg[f] = Rendered(disk[f], P)
    BY Zenon DEF SubstExact
  <2>1. disk[f] \in Seq(STRING) /\ cfg[f] = Subst(disk[f])
    BY Zenon DEF ConfigInv
  <2>2. \E P \in CutsFrom(disk[f], 1) : Subst(disk[f]) = Rendered(disk[f], P)
    BY <2>1, SubstRenders, Zenon
  <2> QED  BY <2>1, <2>2, Zenon
<1> QED  BY <1>1, ConfigInit, ConfigStep, PTL DEF StartupSpec
=============================================================================
