------------------------------- MODULE Config -------------------------------
(***************************************************************************)
(* The daemon's configuration after the TOML parser: DaemonConfig with its *)
(* ${NAME} interpolation, and the settings of the server and the exporter  *)
(* that are made from it.  A text is a sequence of symbols; of the numbers *)
(* and switches, which are handed through, only the ones that decide       *)
(* something here are kept.                                                *)
(***************************************************************************)
EXTENDS Naturals, Sequences

CONSTANTS
  Env,            \* the environment: the texts that are set, and their values
  ParsesAddr(_),  \* whether a text is a SocketAddr
  Resolves(_)     \* whether a listener can be bound to a text

\* ${ at place k of a text.
OpensRef(s, k) == k < Len(s) /\ s[k] = "$" /\ s[k + 1] = "{"

\* Where a reference opened at k can end.
Closings(s, k) == {j \in k + 2 .. Len(s) : s[j] = "}"}

FirstOf(S) == CHOOSE j \in S : \A k \in S : j <= k

\* Mutation: an unset name leaves its braces behind.
ValueOfBare(s, k, j) ==
  LET name == SubSeq(s, k + 2, j - 1) IN
  IF name \in DOMAIN Env THEN Env[name] ELSE SubSeq(s, k + 1, j)

\* A set name gives its value, an unset one stays as it is written.
ValueOf(s, k, j) ==
  LET name == SubSeq(s, k + 2, j - 1) IN
  IF name \in DOMAIN Env THEN Env[name] ELSE SubSeq(s, k, j)

\* subst: one pass from the left.  A reference ends at the next brace; one
\* that does not end is copied, and the pass is over.
Subst(s) ==
  LET from[k \in 1 .. Len(s) + 1] ==
        IF k > Len(s) THEN <<>>
        ELSE IF ~OpensRef(s, k) THEN <<s[k]>> \o from[k + 1]
        ELSE IF Closings(s, k) = {} THEN SubSeq(s, k, Len(s))
        ELSE LET j == FirstOf(Closings(s, k)) IN ValueOf(s, k, j) \o from[j + 1]
  IN from[1]

\* DaemonConfig::interpolate_env: the scope name and the names of the headers
\* are left out.
InterpolateEnv(c) ==
  [c EXCEPT !.path = Subst(@), !.udp = Subst(@), !.tcp = Subst(@),
            !.endpoint = Subst(@), !.header = Subst(@), !.metrics = Subst(@),
            !.level = Subst(@)]

\* server_config panics on an address that does not parse.
ServerConfigPanics(c) == ~ParsesAddr(c.udp) \/ ~ParsesAddr(c.tcp)

\* From<FramingMode> and From<OtlpTransport>.
TcpFraming(f) ==
  CASE f = "auto" -> "auto" [] f = "octet" -> "octet_counting"
    [] f = "lf" -> "non_transparent"

ServerConfig(c) == [udp |-> c.udp, tcp |-> c.tcp, framing |-> TcpFraming(c.framing)]

ExporterConfig(c) ==
  [transport |-> c.transport, endpoint |-> c.endpoint, header |-> c.header,
   scope |-> c.scope, requireTls |-> c.requireTls]

-----------------------------------------------------------------------------
(* What interpolation should do, as a way to cut the text and a way to      *)
(* replace each piece.                                                      *)

Texts == {"path", "udp", "tcp", "endpoint", "header", "metrics", "level"}

NextCut(P, p) == FirstOf({x \in P : x > p})

\* From p to the next cut is a reference, if one opens at p and is closed, or
\* else a single symbol.
CutAt(s, P, p) ==
  LET n == NextCut(P, p) IN
  IF OpensRef(s, p) /\ Closings(s, p) # {}
  THEN s[n - 1] = "}" /\ \A j \in p .. n - 2 : s[j] # "}"
  ELSE n = p + 1

\* The ways to cut up a text from k on.
CutsFrom(s, k) ==
  {P \in SUBSET (k .. Len(s) + 1) :
     {k, Len(s) + 1} \subseteq P /\ \A p \in P \ {Len(s) + 1} : CutAt(s, P, p)}

\* A piece that has the length of a reference to a name that is set.
Replaced(t) ==
  IF Len(t) > 2 /\ SubSeq(t, 3, Len(t) - 1) \in DOMAIN Env
  THEN Env[SubSeq(t, 3, Len(t) - 1)] ELSE t

\* The pieces between the cuts P, each replaced.
Rendered(s, P) ==
  LET from[p \in P] ==
        IF p = Len(s) + 1 THEN <<>>
        ELSE Replaced(SubSeq(s, p, NextCut(P, p) - 1)) \o from[NextCut(P, p)]
  IN from[1]
=============================================================================
