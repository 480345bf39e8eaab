SPECIFICATION Spec
CONSTANTS
  FrameSamples = 2
  MaxSamples = 10
  MaxGap = 3
  SilenceFrames = 2
  MaxOffset = 13
INVARIANT TypeOK
INVARIANT PlacedAtOffset
INVARIANT Contiguous
INVARIANT EndpointExact
