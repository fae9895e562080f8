------------------------------ MODULE Startup -------------------------------
(***************************************************************************)
(* The tpt-daemon program from its command line to its exit: main with its *)
(* flags, the configuration, Daemon::new step by step, Daemon::start, and  *)
(* from there on the threads of Daemon.  The syslog server receives from   *)
(* the moment it is bound, while the schema is still being loaded; a step  *)
(* of new that fails drops it again.                                       *)
(***************************************************************************)
EXTENDS Daemon, Config

CONSTANT Launches    \* command lines, each with the configuration on disk

\* The settings of a file that can be read and that are interpolated are texts.
ASSUME LaunchesAssumption ==
  \A l \in Launches : l.disk.readable =>
    \A f \in Texts : f \in DOMAIN l.disk /\ l.disk[f] \in Seq(STRING)

VARIABLES
  argv,      \* the arguments
  disk,      \* what the configuration file holds
  cfg,       \* the configuration, interpolated
  server,    \* the settings the syslog server was made with
  exporter,  \* the settings the exporter was made with
  exit       \* how the program ended

bootVars == <<argv, disk, cfg, server, exporter, exit>>
allVars == <<vars, bootVars>>

\* There is no such file, or it is not the TOML of a DaemonConfig.
Unreadable == [readable |-> FALSE]
NoConfig == [readable |-> FALSE, transport |-> "none"]

StartupInit ==
  /\ ThreadsInit
  /\ main = "args"
  /\ \E l \in Launches : argv = l.argv /\ disk = l.disk
  /\ cfg = NoConfig /\ server = NoConfig /\ exporter = NoConfig /\ exit = "none"

threadVars == <<workerVars, metricsVars, lock, counters, peer>>

-----------------------------------------------------------------------------
(* parse_args and main *)

\* The flags on the command line.  --config takes the argument behind it,
\* whatever that is; which file it names makes no difference here.
Flags ==
  LET from[k \in 1 .. Len(argv) + 2] ==
        IF k > Len(argv) THEN {}
        ELSE IF argv[k] = "--config" THEN from[k + 2]
        ELSE {argv[k]} \cup from[k + 1]
  IN from[1]

Quit(how) ==
  /\ main' = "exited"
  /\ exit' = how
  /\ UNCHANGED <<ringVars, threadVars, alive, stop, refs, argv, disk, cfg, server,
                 exporter>>

\* --help and --version need no configuration.
PrintAndQuit ==
  /\ main = "args"
  /\ Flags \cap {"--help", "--version"} # {}
  /\ Quit("ok")

ReadConfig ==
  /\ main = "args"
  /\ Flags \cap {"--help", "--version"} = {}
  /\ IF disk.readable
       THEN /\ cfg' = InterpolateEnv(disk)
            /\ main' = "dispatch"
            /\ UNCHANGED <<ringVars, threadVars, alive, stop, refs, argv, disk,
                           server, exporter, exit>>
       ELSE Quit("error")

\* run_check prints the configuration as it was resolved.
RunCheck ==
  /\ main = "dispatch"
  /\ "--check" \in Flags
  /\ Quit("ok")

\* run_healthcheck: the address must parse, a daemon must answer 200 and ok
\* within the timeouts.
RunHealthcheck ==
  /\ main = "dispatch"
  /\ "--check" \notin Flags /\ "--healthcheck" \in Flags
  /\ Quit("error") \/ (ParsesAddr(cfg.metrics) /\ Quit("ok"))

-----------------------------------------------------------------------------
(* Daemon::new *)

Starting == main = "dispatch" /\ Flags \cap {"--check", "--healthcheck"} = {}

\* An address that does not parse is an expect that fails; one that cannot be
\* bound is an error.  Nothing is running yet.
ServerFails ==
  /\ Starting
  /\ Quit(IF ServerConfigPanics(cfg) THEN "panic" ELSE "error")

\* SyslogServer::new: the receiver threads run.  Arguments and file are not
\* looked at again.
BindServer ==
  /\ Starting
  /\ ~ServerConfigPanics(cfg)
  /\ server' = ServerConfig(cfg)
  /\ open' = TRUE /\ alive' = Sources /\ refs' = {"main"}
  /\ main' = "schema"
  /\ argv' = <<>> /\ disk' = NoConfig
  /\ UNCHANGED <<q, offered, refused, threadVars, stop, cfg, exporter, exit>>

\* load_file and Parser::new succeed; Exporter::new cannot fail.
LoadSchema ==
  /\ main = "schema"
  /\ exporter' = ExporterConfig(cfg)
  /\ main' = "metrics"
  /\ UNCHANGED <<ringVars, threadVars, alive, stop, refs, argv, disk, cfg, server,
                 exit>>

\* The metrics listener is bound; new returns, and has used up the configuration.
BindMetrics ==
  /\ main = "metrics"
  /\ Resolves(cfg.metrics)
  /\ cfg' = NoConfig
  /\ main' = "handler"
  /\ UNCHANGED <<ringVars, threadVars, alive, stop, refs, argv, disk, server, exporter,
                 exit>>

SetHandler ==
  /\ main = "handler"
  /\ main' = "start"
  /\ UNCHANGED <<ringVars, threadVars, alive, stop, refs, bootVars>>

\* load_file, Parser::new, TcpListener::bind or ctrlc::set_handler fails: main
\* returns the error, and the server goes out of scope.
NewFails ==
  /\ main \in {"schema", "metrics", "handler"}
  /\ main' = "failing"
  /\ refs' = {}
  /\ UNCHANGED <<ringVars, threadVars, alive, stop, bootVars>>

ExitFailed ==
  /\ main = "failing"
  /\ ~open
  /\ Quit("error")

\* Daemon::start: the Arc around the server moves to the two threads.
Start ==
  /\ main = "start"
  /\ refs' = {"worker", "metrics"}
  /\ worker' = "check" /\ metrics' = "check"
  /\ main' = "poll"
  /\ UNCHANGED <<ringVars, msg, handed, client, path, answer, page, lock, counters,
                 peer, alive, stop, bootVars>>

-----------------------------------------------------------------------------

\* The metrics port accepts connections once it is bound, the handler catches
\* a signal once it is installed.
Bound == main \notin {"args", "dispatch", "schema", "metrics", "failing", "exited"}
Armed == main \notin {"args", "dispatch", "schema", "metrics", "handler", "failing",
                      "exited"}

Boot ==
  \/ PrintAndQuit \/ ReadConfig \/ RunCheck \/ RunHealthcheck
  \/ ServerFails \/ BindServer \/ LoadSchema \/ BindMetrics \/ SetHandler
  \/ NewFails \/ ExitFailed \/ Start

Running ==
  \/ \E s \in Sources : Offer(s) \/ SourceEnds(s)
  \/ ServerDropped
  \/ Worker \/ WorkerExport
  \/ Metrics \/ MetricsAcceptError
  \/ \E c \in Clients : (Bound /\ ClientConnects(c)) \/ ClientStarts(c) \/ Request(c)
  \/ (Armed /\ Signal) \/ HandleDropped
  \/ MainPoll \/ JoinWorker

Exit == JoinMetrics /\ exit' = "ok" /\ UNCHANGED <<argv, disk, cfg, server, exporter>>

Ended == main = "exited" /\ UNCHANGED allVars

StartupNext ==
  \/ Boot
  \/ Running /\ UNCHANGED bootVars
  \/ Exit
  \/ Ended

StartupSpec == StartupInit /\ [][StartupNext]_allVars

\* Every thread runs, the main thread too, and drops the server if it was the
\* last to use it; export returns over HTTP (Exporter checks that) and may not
\* over gRPC; a client outside Idle finishes what it has begun.  The mutex is
\* std's, which is not fair: a thread waiting for it has only weak fairness.
StartupFairSpec ==
  /\ StartupSpec
  /\ WF_allVars(Boot)
  /\ WF_allVars(Worker /\ UNCHANGED bootVars)
  /\ WF_allVars(exporter.transport = "http" /\ WorkerExport /\ UNCHANGED bootVars)
  /\ WF_allVars(Metrics /\ UNCHANGED bootVars)
  /\ WF_allVars((MainPoll \/ JoinWorker) /\ UNCHANGED bootVars)
  /\ WF_allVars(Exit)
  /\ WF_allVars(ServerDropped /\ UNCHANGED bootVars)
  /\ \A c \in Clients \ Idle : WF_allVars(Request(c) /\ UNCHANGED bootVars)

-----------------------------------------------------------------------------

\* What the program works with is the file with each ${NAME} of a name that is
\* set replaced by its value, taken as it is, and nothing else changed: a
\* value that looks like a reference is not looked up again, and a reference
\* without a name, without an end or within another is kept to the letter.
SubstExact ==
  main = "dispatch" =>
    \A f \in Texts : \E P \in CutsFrom(disk[f], 1) : cfg[f] = Rendered(disk[f], P)
=============================================================================
