SPECIFICATION Spec
CONSTANTS
  MaxChars = 2
  Wide = TRUE
  MaxCalls = 1
  Continuation = {"A9"}
  Star = "*"
  U8 = 2
  I64 = 8
  ParsesAs <- MCParsesAs
  Usize <- MCUsize
  Upper <- MCUpper
  NumberOf <- MCNumberOf
  IsTrue <- MCIsTrue
  Display <- MCDisplay
  Lines <- MCLines
  Formats <- Suffix
INVARIANT FullMatchFound
