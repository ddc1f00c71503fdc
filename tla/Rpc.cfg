SPECIFICATION FairSpec

CONSTANTS
  MaxPipeline = 3
  MaxRequest = 4
  MaxResponse = 4
  CallHeader = 2
  AcceptHeader = 2
  MismatchSize = 3
  Functions <- MCFunctions
  SocketBuffer = 5
  Segment = 1
  MaxCalls = 4
  CanStop = TRUE

INVARIANTS
  TypeOK
  RepliesInOrder
  ExecutedInOrder
  AllSettled
  NoSpuriousError
  NoCallWaits

PROPERTIES
  FlushReturns
  ConnectionReaped
  CallsQueueUp
