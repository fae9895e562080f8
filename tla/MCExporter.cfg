SPECIFICATION FairSpec
CONSTANTS
  MaxRecords = 2
  BatchSizes = {0, 2}
  Retries = {0, 2}
  Backoffs = {3, 17}
  BackoffCap = 4
  U64 = 32
  Timeout = 3
  Transports = {"http", "grpc"}
  Schemes = {"http", "https"}
  Builds = {"default", "grpc", "tls"}
INVARIANTS
  PrefixOnly
  DuplicatesBounded
  BlockedBound
  SecretsStayHome
PROPERTY HttpExportReturns
