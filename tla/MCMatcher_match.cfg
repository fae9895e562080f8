SPECIFICATION FairSpec
CONSTANTS
  MaxChars = 4
  Wide = TRUE
  MaxCalls = 2
  Continuation = {"A9"}
  Star = "*"
  U8 = 2
  I64 = 8
  ParsesAs <- MCParsesAs
  Usize <- MCUsize
  Upper <- MCUpper
  NumberOf <- MCNumberOf
  IsTrue <- MCIsTrue
  Display <- MCDisplay
  Lines <- MCLines
  Formats <- Mixed
INVARIANTS CapsTile FirstLongest ExportedAsDeclared RedactedEverywhere
PROPERTY MatchEnds
