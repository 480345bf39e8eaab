SPECIFICATION Spec
CONSTANTS
  PrebufferFrames = 2
  MaxLiveFrames = 2
  Cycle = 3
  MaxLost = 1
  MaxGaps = 1
  StreamIds = {1, 65535, 2147483647}
  Frame <- MCFrame
  Zero <- MCZero
  Capacity = 3
  Score = {0, 3}
  Window = 2
  Threshold = 2
INVARIANT TypeOK
INVARIANT SmoothsLatest
INVARIANT ExtractsLatest
INVARIANT OneStreamPerDetection
INVARIANT StreamIsTheCapture
INVARIANT FramesUnderstood
INVARIANT AckedMeansReady
PROPERTY RefinesWindow
PROPERTY StreamingEnds
PROPERTY ReadyAgain
