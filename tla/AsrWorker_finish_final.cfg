SPECIFICATION Spec
CONSTANTS
  MaxChunks = 2
  SharedModel = TRUE
  RecognizerMayFail = FALSE
  JoinMayTimeOut = FALSE
  NoResult = NoResult
INVARIANT FinishReturnsFinal
