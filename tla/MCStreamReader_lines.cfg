SPECIFICATION Spec
CONSTANTS
  Alphabet = {lf, cr, a}
  LF = lf
  CR = cr
  NUL = nul
  InitialCap = 1
  MaxLineLen = 3
  MaxStream = 7
INVARIANTS GrowthBounded BufferIsRest NoneIsCleanEnd LinesExact
