SPECIFICATION Spec
CONSTANTS
  Conns = {c1}
  Ids = {a}
  MaxStreams = 1
  MaxFrames = 1
  NoStream = NoStream
PROPERTY InactivityEndsStreams
