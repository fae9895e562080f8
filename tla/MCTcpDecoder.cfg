SPECIFICATION FairSpec
CONSTANTS
  Framings = {"Auto", "OctetCounting", "NonTransparent"}
  MaxFrame = 2
  UsizeMax = 20
  Alphabet = {10, 13, 32, 43, 48, 50}
  MaxChunk = 3
  MaxStream = 6
INVARIANTS
  StreamAccounted
  OversizeBounded
  BoundedWhenMeasured
  ChunkingIrrelevant
PROPERTIES
  PushReturns
