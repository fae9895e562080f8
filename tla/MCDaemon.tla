------------------------------ MODULE MCDaemon ------------------------------
(* The instances of Startup that TLC checks.                               *)
EXTENDS Startup, SequencesExt

\* A text that is a socket address, a host name with a port, and neither.
Addr == <<"a">>
Host == <<"h">>
Junk == <<"j">>
RefA == <<"$", "{", "A", "}">>

MCEnv == [t \in {<<"A">>, <<"A", "A">>} |-> IF t = <<"A">> THEN Addr ELSE RefA]
MCParsesAddr(t) == t = Addr
MCResolves(t) == t \in {Addr, Host}

File(udp, metricsBind, header) ==
  [readable |-> TRUE, path |-> Junk, udp |-> udp, tcp |-> Addr, framing |-> "octet",
   endpoint |-> Junk, transport |-> "http", header |-> header, scope |-> RefA,
   requireTls |-> FALSE, metrics |-> metricsBind, level |-> Junk]

Files ==
  {Unreadable} \cup {File(udp, m, <<>>) : udp \in {Addr, RefA, Junk}, m \in {Addr, Host, Junk}}

Args == {"--help", "--version", "--check", "--healthcheck", "--config", "x"}

\* Every command line of two arguments with every file, and --check with every
\* header of five symbols.
MCLaunches ==
  [argv : BoundedSeq(Args, 2), disk : Files]
    \cup [argv : {<<"--check">>},
          disk : {File(Addr, Addr, h) : h \in BoundedSeq({"$", "{", "}", "A"}, 5)}]

\* The daemon alone, from its binding on.
PlainLaunch == [argv : {<<>>}, disk : {File(Addr, Addr, <<>>)}]
=============================================================================
