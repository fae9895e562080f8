----------------------------- MODULE MCExporter -----------------------------
(* The instances of Exporter that TLC checks.  Times are scaled: the cap of *)
(* the backoff is 4 instead of 30000, and a u64 has 5 bits.                 *)
EXTENDS Exporter
=============================================================================
