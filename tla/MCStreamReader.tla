--------------------------- MODULE MCStreamReader ---------------------------
(* The instances of StreamReader that TLC checks, and a second definition   *)
(* of the lines of a stream, by recursion, that has to agree with IsLine.   *)
EXTENDS StreamReader

\* The lines of s, each ended by a newline; what follows the last newline is
\* left out.
RECURSIVE LinesOf(_)
LinesOf(s) ==
  IF ~HasLF(s) THEN <<>>
  ELSE LET i == Position(s) IN
       <<LineBefore(s, i)>> \o LinesOf(SubSeq(s, i + 1, Len(s)))

\* Bound: the streams on which the two definitions are compared.
MaxCompared == 5

ASSUME LinesAgree ==
  \A s \in UNION {[1 .. n -> Alphabet] : n \in 0 .. MaxCompared} :
    LET lines == LinesOf(s) IN
    /\ Len(lines) = Newlines(s, Len(s))
    /\ \A n \in 1 .. Len(s) : \A line \in {lines[k] : k \in 1 .. Len(lines)} :
         IsLine(s, n, line) <=> n <= Len(lines) /\ lines[n] = line
=============================================================================
