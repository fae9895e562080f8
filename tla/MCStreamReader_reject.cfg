SPECIFICATION Spec
CONSTANTS
  Alphabet = {lf, cr, a}
  LF = lf
  CR = cr
  NUL = nul
  InitialCap = 1
  MaxLineLen = 1
  MaxStream = 3
PROPERTY StopsAfterReject
