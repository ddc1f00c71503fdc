SPECIFICATION FairSpec

CONSTANTS
  MaxPipeline = 8
  MaxRequest = 4096
  MaxResponse = 128
  CallHeader = 40
  AcceptHeader = 24
  MismatchSize = 32
  Functions <- MCTexts
  SocketBuffer = 4096
  Segment = 4096
  MaxCalls = 8
  CanStop = FALSE

PROPERTIES
  FlushReturns
