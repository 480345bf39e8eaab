SPECIFICATION Spec
CONSTANTS
  MaxFrames = 6
  PrebufferFrames = 2
INVARIANT TypeOK
INVARIANT WireIsTheCapture
INVARIANT SavedIsSent
PROPERTY ShutsDown
