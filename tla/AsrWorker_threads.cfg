SPECIFICATION Spec
CONSTANTS
  MaxChunks = 3
  SharedModel = FALSE
  RecognizerMayFail = TRUE
  JoinMayTimeOut = TRUE
  NoResult = NoResult
INVARIANT TypeOK
INVARIANT QueueInOrder
INVARIANT NothingLost
INVARIANT NoTextTwice
INVARIANT Drained
INVARIANT NoneOnlyWhenDue
PROPERTY RefinesTranscript
PROPERTY FinishReturns
PROPERTY FinishEndsWorker
PROPERTY StopEndsWorker
