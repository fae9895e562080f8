---------------------------- MODULE MCTcpDecoder ----------------------------
(***************************************************************************)
(* The instance of TcpDecoder for model checking.  Its alphabet has the    *)
(* bytes framing tells apart: LF, CR, a space, a plus sign and the digits  *)
(* 0 and 2, of which lengths of zero, at the ceiling (2), beyond it (20)   *)
(* and beyond usize (22) are made.                                         *)
(***************************************************************************)
EXTENDS TcpDecoder
=============================================================================
