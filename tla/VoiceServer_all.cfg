SPECIFICATION Spec
CONSTANTS
  Conns = {c1}
  Ids = {a, b}
  MaxStreams = 2
  MaxFrames = 2
  NoStream = NoStream
INVARIANT TypeOK
INVARIANT OneRecordingOneReply
INVARIANT NoWorkerLeaks
INVARIANT ClosureEndsStreams
INVARIANT TranscriptInOrder
PROPERTY SpeechIsAnswered
PROPERTY StreamEnds
