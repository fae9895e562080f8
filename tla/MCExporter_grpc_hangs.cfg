SPECIFICATION FairSpec
CONSTANTS
  MaxRecords = 1
  BatchSizes = {1}
  Retries = {1}
  Backoffs = {3}
  BackoffCap = 4
  U64 = 32
  Timeout = 3
  Transports = {"grpc"}
  Schemes = {"https"}
  Builds = {"tls"}
PROPERTY ExportReturns
