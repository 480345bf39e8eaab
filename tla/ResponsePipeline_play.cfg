SPECIFICATION Spec
CONSTANTS
  s1 = s1
  s2 = s2
  s3 = s3
  c1 = c1
  c2 = c2
  Stream = {s1, s2, s3}
  Conn = {c1, c2}
  ConnOf <- MCConnOf
  PoolSize = 2
  MaxFrames = 3
  MaxSeq = 1
INVARIANT TypeOK
INVARIANT PlaybackInOrder
INVARIANT AnswerComplete
INVARIANT NoTempLeft
PROPERTY PipelineEnds
CHECK_DEADLOCK FALSE
