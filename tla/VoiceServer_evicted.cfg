SPECIFICATION Spec
CONSTANTS
  Conns = {c1}
  Ids = {a}
  MaxStreams = 2
  MaxFrames = 1
  NoStream = NoStream
INVARIANT ClosureEndsEveryStream
