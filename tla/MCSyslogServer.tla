--------------------------- MODULE MCSyslogServer ---------------------------
(* Instances of SyslogServer for model checking. *)
EXTENDS SyslogServer, TLC

\* Clients are interchangeable (only sound for the safety runs).
ClientSymmetry == Permutations(Conns)
=============================================================================
