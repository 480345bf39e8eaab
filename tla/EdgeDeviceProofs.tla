--------------------------- MODULE EdgeDeviceProofs ---------------------------
(***************************************************************************)
(* Theorems about EdgeDevice, for every size of the ring and of a stream,  *)
(* every scoring of frames and whatever link, events and microphone do.    *)
(***************************************************************************)
EXTENDS EdgeDevice, AudioRingProofs, WireProtocolProofs

-----------------------------------------------------------------------------
(* The keyword engine *)

LEMMA EngineStarts == EngineInit => EngineOK
  <1> USE EngineAssumption
  <1>1. Cleared \in [0..(Window - 1) -> Score]
    BY DEF Cleared
  <1>2. <<>> \in Seq(Score) /\ 0 \in 0..(Window - 1) /\ 0 \in 0..Window
    OBVIOUS
  <1> QED BY <1>1, <1>2, Zenon DEF EngineInit, EngineOK

LEMMA EngineSteps ==
  ASSUME EngineOK, NEW score \in Score, ProcessFrame(score) PROVE EngineOK'
  <1> USE EngineAssumption
  <1>1. history' \in [0..(Window - 1) -> Score]
    BY DEF EngineOK, ProcessFrame, Recorded
  <1>2. history_idx' \in 0..(Window - 1)
    BY DEF EngineOK, ProcessFrame
  <1>3. history_count' \in 0..Window
    BY DEF EngineOK, ProcessFrame, CountAfter
  <1>4. is_triggered' \in BOOLEAN
    BY DEF ProcessFrame
  <1>5. scored' \in Seq(Score)
    <2> DEFINE longer == Append(scored, score)
    <2>1. longer \in Seq(Score) /\ longer # <<>>
      BY DEF EngineOK
    <2>2. scored' = IF Len(longer) <= Window THEN longer ELSE Tail(longer)
      BY DEF ProcessFrame
    <2> HIDE DEF longer
    <2>3. Tail(longer) \in Seq(Score)
      BY <2>1
    <2> QED BY <2>1, <2>2, <2>3
  <1> QED BY <1>1, <1>2, <1>3, <1>4, <1>5 DEF EngineOK

LEMMA EngineResets == ResetTrigger => EngineOK'
  <1> SUFFICES ASSUME ResetTrigger PROVE EngineOK'
    OBVIOUS
  <1> USE EngineAssumption
  <1>1. Cleared \in [0..(Window - 1) -> Score]
    BY DEF Cleared
  <1>2. <<>> \in Seq(Score) /\ 0 \in 0..(Window - 1) /\ 0 \in 0..Window
    OBVIOUS
  <1> QED BY <1>1, <1>2, Zenon DEF ResetTrigger, EngineOK, IdxAfterReset

\* The slot of the i-th of the scores kept, oldest first.
ScoreSlot(i) ==
  IF history_count < Window THEN i - 1
  ELSE IF history_idx + i - 1 < Window THEN history_idx + i - 1
  ELSE history_idx + i - 1 - Window

\* The slots filled since the last reset hold the latest scores, each in one.
LatestScores ==
  /\ history_count = Len(scored)
  /\ history_count < Window => history_idx = history_count
  /\ \A i \in 1..history_count : scored[i] = history[ScoreSlot(i)]

LEMMA LatestStart == EngineInit => LatestScores
  <1> SUFFICES ASSUME EngineInit PROVE LatestScores
    OBVIOUS
  <1>1. scored = <<>> /\ Len(scored) = 0 /\ history_count = 0 /\ history_idx = 0
    BY DEF EngineInit
  <1> QED BY <1>1 DEF LatestScores

LEMMA LatestReset == ResetTrigger => LatestScores'
  <1> SUFFICES ASSUME ResetTrigger PROVE LatestScores'
    OBVIOUS
  <1>1. scored' = <<>> /\ Len(scored') = 0 /\ history_count' = 0 /\ history_idx' = 0
    BY DEF ResetTrigger, IdxAfterReset
  <1> QED BY <1>1 DEF LatestScores

LEMMA LatestSteps ==
  ASSUME EngineOK, LatestScores, NEW score \in Score, ProcessFrame(score)
  PROVE  LatestScores'
  <1> USE EngineAssumption
  <1> DEFINE n == history_count
             x == history_idx
             longer == Append(scored, score)
  <1>1. /\ n \in Nat /\ n <= Window /\ x \in Nat /\ x < Window
        /\ scored \in Seq(Score) /\ Len(scored) = n
        /\ (n < Window => x = n)
    BY DEF EngineOK, LatestScores
  <1>2. /\ longer \in Seq(Score) /\ Len(longer) = n + 1 /\ longer[n + 1] = score
        /\ \A i \in 1..n : longer[i] = scored[i]
    BY <1>1
  <1>3. history_idx' = IF x + 1 < Window THEN x + 1 ELSE 0
    <2>1. history_idx' = (x + 1) % Window
      BY DEF ProcessFrame
    <2>2. CASE x + 1 < Window
      BY <1>1, <2>1, <2>2
    <2>3. CASE x + 1 = Window
      BY <1>1, <2>1, <2>3
    <2> QED BY <1>1, <2>2, <2>3
  <1>4. /\ history'[x] = score
        /\ \A k \in 0..(Window - 1) : k # x => history'[k] = history[k]
    BY <1>1 DEF EngineOK, ProcessFrame, Recorded
  <1>5. scored' = IF n + 1 <= Window THEN longer ELSE Tail(longer)
    BY <1>2 DEF ProcessFrame
  <1> HIDE DEF longer
  <1>6. CASE n < Window
    <2>1. history_count' = n + 1 /\ scored' = longer
      BY <1>1, <1>5, <1>6 DEF ProcessFrame, CountAfter
    <2>2. \A i \in 1..n : scored[i] = history[i - 1]
      BY <1>6 DEF LatestScores, ScoreSlot
    <2>3. ASSUME NEW i \in 1..(n + 1) PROVE longer[i] = history'[i - 1]
      <3>1. CASE i = n + 1
        BY <1>1, <1>2, <1>4, <1>6, <3>1
      <3>2. CASE i # n + 1
        <4>1. i \in 1..n /\ i - 1 \in 0..(Window - 1) /\ i - 1 # x
          BY <1>1, <1>6, <3>2
        <4> QED BY <1>2, <1>4, <2>2, <4>1
      <3> QED BY <3>1, <3>2
    <2>4. CASE n + 1 < Window
      <3>1. history_idx' = n + 1
        BY <1>1, <1>3, <1>6, <2>4
      <3> QED BY <1>2, <2>1, <2>3, <2>4, <3>1 DEF LatestScores, ScoreSlot
    <2>5. CASE n + 1 = Window
      <3>1. history_idx' = 0
        BY <1>1, <1>3, <1>6, <2>5
      <3>2. \A i \in 1..(n + 1) : ScoreSlot(i)' = i - 1
        BY <1>1, <2>1, <2>5, <3>1 DEF ScoreSlot
      <3> QED BY <1>1, <1>2, <2>1, <2>3, <2>5, <3>2 DEF LatestScores
    <2> QED BY <1>1, <1>6, <2>4, <2>5
  <1>7. CASE n = Window
    <2>1. history_count' = Window /\ scored' = Tail(longer)
      BY <1>1, <1>5, <1>7 DEF ProcessFrame, CountAfter
    <2>2. longer # <<>>
      BY <1>1, <1>2
    <2>3. /\ Len(scored') = Window
          /\ \A i \in 1..Window : scored'[i] = longer[i + 1]
      BY <1>1, <1>2, <1>7, <2>1, <2>2
    <2>4. ASSUME NEW i \in 1..Window PROVE scored'[i] = history'[ScoreSlot(i)']
      <3>1. ScoreSlot(i)' = IF x + i < Window THEN x + i ELSE x + i - Window
        BY <1>1, <1>3, <2>1 DEF ScoreSlot
      <3>2. CASE i = Window
        <4>1. ScoreSlot(i)' = x
          BY <1>1, <3>1, <3>2
        <4> QED BY <1>2, <1>4, <1>7, <2>3, <3>2, <4>1
      <3>3. CASE i # Window
        <4>1. i + 1 \in 1..n /\ i \in Nat /\ i < Window
          BY <1>1, <1>7, <3>3
        <4>2. scored'[i] = scored[i + 1]
          BY <1>2, <2>3, <4>1
        <4>3. ScoreSlot(i + 1) = ScoreSlot(i)'
          BY <1>1, <1>7, <3>1, <4>1 DEF ScoreSlot
        <4>4. ScoreSlot(i)' \in 0..(Window - 1) /\ ScoreSlot(i)' # x
          BY <1>1, <3>1, <4>1
        <4>5. scored[i + 1] = history[ScoreSlot(i + 1)]
          BY <4>1 DEF LatestScores
        <4> QED BY <1>4, <4>2, <4>3, <4>4, <4>5
      <3> QED BY <3>2, <3>3
    <2> QED BY <1>1, <2>1, <2>3, <2>4 DEF LatestScores
  <1> QED BY <1>1, <1>6, <1>7

-----------------------------------------------------------------------------
(* The link *)

ControlOK ==
  /\ status \in {"disconnected", "connecting", "connected", "ready", "streaming"}
  /\ boot \in {"client", "init", "mic", "audio", "deaf"}
  /\ client \in BOOLEAN /\ link \in BOOLEAN
  /\ event \in {"none", "connected", "hello", "disconnected"}
  /\ ackDue \in BOOLEAN /\ acked \in BOOLEAN
  /\ pc \in {"read", "start", "mark", "prebuffer", "stop", "end"}
  /\ is_streaming \in BOOLEAN
  /\ startedHere \in BOOLEAN /\ disordered \in BOOLEAN

\* An acknowledged hello belongs to the link that is up, and its event is handled.
LinkInv ==
  /\ acked => link /\ event = "none"
  /\ event = "disconnected" => ~link
  /\ AckedMeansReady

\* No step of boot, WebSocket task or audio task breaks either.
LEMMA LinkSteps == ControlOK /\ LinkInv /\ [Next]_vars => ControlOK' /\ LinkInv'
  <1> SUFFICES ASSUME ControlOK, LinkInv, [Next]_vars PROVE ControlOK' /\ LinkInv'
    OBVIOUS
  <1> USE DEF ControlOK, LinkInv, AckedMeansReady, bootVars, linkVars, pastVars, taskVars,
              audioVars
  <1>1. CASE StartClient \/ InitReturns \/ InitMicrophone
    <2>1. CASE StartClient
      <3>1. LinkInv'
        BY <2>1, ZenonT(30) DEF StartClient
      <3>2. client' \in BOOLEAN /\ boot' \in {"client", "init", "mic", "audio", "deaf"}
        BY <2>1, ZenonT(30) DEF StartClient
      <3>3. UNCHANGED <<status, linkVars, pc, is_streaming, pastVars>>
        BY <2>1, ZenonT(30) DEF StartClient
      <3>4. ControlOK'
        BY <3>2, <3>3, ZenonT(30)
      <3> QED BY <3>1, <3>4
    <2>2. CASE InitReturns
      BY <2>2, ZenonT(30) DEF InitReturns
    <2>3. CASE InitMicrophone
      <3>1. LinkInv'
        BY <2>3, ZenonT(30) DEF InitMicrophone
      <3>2. ControlOK'
        BY <2>3 DEF InitMicrophone
      <3> QED BY <3>1, <3>2
    <2> QED BY <1>1, <2>1, <2>2, <2>3
  <1>2. CASE LinkUp \/ LinkDown
    <2>1. CASE LinkUp
      <3>1. LinkInv'
        BY <2>1, ZenonT(30) DEF LinkUp
      <3>2. ControlOK'
        BY <2>1, ZenonT(30) DEF LinkUp
      <3> QED BY <3>1, <3>2
    <2>2. CASE LinkDown
      <3>1. LinkInv'
        BY <2>2, ZenonT(30) DEF LinkDown
      <3>2. ControlOK'
        BY <2>2, ZenonT(30) DEF LinkDown
      <3> QED BY <3>1, <3>2
    <2> QED BY <1>2, <2>1, <2>2
  <1>3. CASE EventStep
    <2>1. CASE OnConnected
      <3>1. LinkInv'
        BY <2>1, ZenonT(30) DEF OnConnected
      <3>2. ControlOK'
        BY <2>1, ZenonT(30) DEF OnConnected
      <3> QED BY <3>1, <3>2
    <2>2. CASE SendHello
      <3>1. LinkInv'
        BY <2>2, ZenonT(30) DEF SendHello
      <3>2. ControlOK'
        BY <2>2, ZenonT(30) DEF SendHello
      <3> QED BY <3>1, <3>2
    <2>3. CASE OnHelloAck
      <3>1. LinkInv'
        BY <2>3, ZenonT(30) DEF OnHelloAck
      <3>2. ControlOK'
        BY <2>3, ZenonT(30) DEF OnHelloAck
      <3> QED BY <3>1, <3>2
    <2>4. CASE OnDisconnected
      <3>1. LinkInv'
        BY <2>4, ZenonT(30) DEF OnDisconnected
      <3>2. ControlOK'
        BY <2>4, ZenonT(30) DEF OnDisconnected
      <3> QED BY <3>1, <3>2
    <2> QED BY <1>3, <2>1, <2>2, <2>3, <2>4 DEF EventStep
  <1>4. CASE ReadQuiet
    BY <1>4, ZenonT(30) DEF ReadQuiet
  <1>5. ASSUME NEW score \in Score, ReadLoud(score) PROVE ControlOK' /\ LinkInv'
    BY <1>5, ZenonT(30) DEF ReadLoud
  <1>6. CASE SendStart
    <2>1. LinkInv'
      BY <1>6, ZenonT(30) DEF SendStart
    <2>2. /\ startedHere' \in BOOLEAN /\ disordered' \in BOOLEAN
          /\ pc' \in {"mark", "prebuffer"}
      <3>1. CASE UNCHANGED pastVars
        BY <1>6, <3>1, ZenonT(30) DEF SendStart
      <3>2. CASE ~UNCHANGED pastVars
        BY <1>6, <3>2, ZenonT(30) DEF SendStart
      <3> QED BY <3>1, <3>2
    <2>3. UNCHANGED <<bootVars, status, linkVars, is_streaming>>
      BY <1>6, ZenonT(30) DEF SendStart
    <2>4. ControlOK'
      BY <2>2, <2>3, ZenonT(30)
    <2> QED BY <2>1, <2>4
  <1>7. CASE MarkStreaming
    BY <1>7, ZenonT(30) DEF MarkStreaming
  <1>8. CASE SendPrebuffer
    <2>1. LinkInv'
      BY <1>8, ZenonT(30) DEF SendPrebuffer, Send
    <2>2. disordered' \in BOOLEAN /\ pc' \in {"read", "prebuffer"}
          /\ is_streaming' \in BOOLEAN
      BY <1>8, ZenonT(30) DEF SendPrebuffer, Send
    <2>3. UNCHANGED <<bootVars, status, linkVars, startedHere>>
      BY <1>8, ZenonT(30) DEF SendPrebuffer
    <2>4. ControlOK'
      BY <2>2, <2>3, ZenonT(30)
    <2> QED BY <2>1, <2>4
  <1>9. CASE SendLive
    <2>1. LinkInv'
      BY <1>9, ZenonT(30) DEF SendLive, Send
    <2>2. ControlOK'
      BY <1>9 DEF SendLive, Send
    <2> QED BY <2>1, <2>2
  <1>10. CASE SendStop \/ EndStream
    <2>1. CASE SendStop
      <3>1. LinkInv'
        BY <2>1, ZenonT(30) DEF SendStop
      <3>2. ControlOK'
        BY <2>1 DEF SendStop
      <3> QED BY <3>1, <3>2
    <2>2. CASE EndStream
      <3>1. LinkInv'
        BY <2>2, ZenonT(30) DEF EndStream, StatusAfterStop
      <3>2. ControlOK'
        BY <2>2 DEF EndStream, StatusAfterStop
      <3> QED BY <3>1, <3>2
    <2> QED BY <1>10, <2>1, <2>2
  <1>11. CASE Idle \/ UNCHANGED vars
    <2>1. UNCHANGED vars
      BY <1>11 DEF Idle
    <2>2. UNCHANGED <<bootVars, status, linkVars, pc, is_streaming, pastVars>>
      BY <2>1 DEF vars
    <2>3. ControlOK'
      BY <2>2
    <2>4. LinkInv'
      BY <2>2, ZenonT(30)
    <2> QED BY <2>3, <2>4
  <1> QED BY <1>1, <1>2, <1>3, <1>4, <1>5, <1>6, <1>7, <1>8, <1>9, <1>10, <1>11
      DEF Next, AudioStep, BootStep

-----------------------------------------------------------------------------
(* The capture in the ring *)

\* The frames of a sequence follow each other in the capture, up to the last one
\* read; the first one is the first ever unless older ones were overwritten.
Stretch(r, last) ==
  /\ \A i \in 2..Len(r) : Continues(r[i - 1], r[i])
  /\ IF r = <<>> THEN last = Zero ELSE r[Len(r)] = last
  /\ r # <<>> /\ Len(r) < Capacity => Continues(Zero, r[1])

\* The next frame goes on where the capture had come to.
LEMMA CapturedContinues ==
  ASSUME NEW f \in Frame, Captured(f) PROVE Continues(frame_samples, f)
  BY DEF Captured, Continues

\* A window on the capture stays one when it moves on by a frame.
LEMMA StretchGrows ==
  ASSUME NEW r \in Seq(Frame), Len(r) <= Capacity, NEW last, Stretch(r, last),
         NEW f \in Frame, Continues(last, f)
  PROVE  Stretch(Past!Remember(Append(r, f)), f)
  <1> USE CapacityAssumption
  <1> DEFINE longer == Append(r, f)
             n == Len(r)
  <1>1. /\ n \in Nat /\ longer \in Seq(Frame) /\ Len(longer) = n + 1
        /\ longer[n + 1] = f /\ \A i \in 1..n : longer[i] = r[i]
    OBVIOUS
  <1>2. /\ \A i \in 2..n : Continues(r[i - 1], r[i])
        /\ n = 0 => last = Zero
        /\ n # 0 => r[n] = last
        /\ n # 0 /\ n < Capacity => Continues(Zero, r[1])
    BY <1>1 DEF Stretch
  <1> HIDE DEF longer, n
  <1>3. ASSUME NEW i \in 2..(n + 1) PROVE Continues(longer[i - 1], longer[i])
    <2>1. CASE i = n + 1
      <3>1. i - 1 = n /\ n \in 1..n /\ n # 0
        BY <1>1, <2>1
      <3> QED BY <1>1, <1>2, <2>1, <3>1
    <2>2. CASE i # n + 1
      <3>1. i \in 2..n /\ i \in 1..n /\ i - 1 \in 1..n
        BY <1>1, <2>2
      <3> QED BY <1>1, <1>2, <3>1
    <2> QED BY <2>1, <2>2
  <1>4. CASE n + 1 <= Capacity
    <2>1. Past!Remember(longer) = longer
      BY <1>1, <1>4 DEF Past!Remember
    <2>2. Continues(Zero, longer[1])
      <3>1. CASE n = 0
        BY <1>1, <1>2, <3>1
      <3>2. CASE n # 0
        <4>1. 1 \in 1..n /\ n < Capacity
          BY <1>1, <1>4, <3>2
        <4> QED BY <1>1, <1>2, <3>2, <4>1
      <3> QED BY <3>1, <3>2
    <2>3. longer # <<>>
      BY <1>1
    <2> QED BY <1>1, <1>3, <2>1, <2>2, <2>3 DEF Stretch, longer
  <1>5. CASE n + 1 > Capacity
    <2> DEFINE t == Tail(longer)
    <2>1. Past!Remember(longer) = t
      BY <1>1, <1>5 DEF Past!Remember
    <2>2. /\ n = Capacity /\ Len(t) = n /\ n \in 1..n /\ t # <<>>
          /\ \A i \in 1..n : t[i] = longer[i + 1]
      BY <1>1, <1>5 DEF n
    <2> HIDE DEF t
    <2>3. ASSUME NEW i \in 2..Len(t) PROVE Continues(t[i - 1], t[i])
      <3>1. /\ i \in 1..n /\ i - 1 \in 1..n /\ i + 1 \in 2..(n + 1)
            /\ (i - 1) + 1 = i /\ (i + 1) - 1 = i
        BY <1>1, <2>2
      <3>2. Continues(longer[(i + 1) - 1], longer[i + 1])
        BY <1>3, <3>1
      <3> QED BY <2>2, <3>1, <3>2
    <2>4. t[Len(t)] = f
      BY <1>1, <2>2
    <2>5. ~(Len(t) < Capacity)
      BY <1>1, <2>2
    <2> QED BY <2>1, <2>2, <2>3, <2>4, <2>5 DEF Stretch, longer
  <1> QED BY <1>1, <1>4, <1>5

\* What holds of the ring and the frame read last.
RingInv == RingOK /\ frame_samples \in Frame /\ Stretch(Contents, frame_samples)

LEMMA RingInvStarts == RingInit /\ frame_samples = Zero => RingInv
  <1> SUFFICES ASSUME RingInit, frame_samples = Zero PROVE RingInv
    OBVIOUS
  <1>1. RingOK /\ count = 0
    BY RingInitTypes DEF RingInit
  <1>2. Contents = <<>>
    BY <1>1, ContentsValue DEF ContentsBySlot
  <1>3. Stretch(<<>>, Zero)
    BY DEF Stretch
  <1> QED BY <1>1, <1>2, <1>3, ZeroAssumption DEF RingInv

\* What Read does, loud or not.
ReadsNext == \E f \in Frame : Captured(f) /\ frame_samples' = f /\ Push(f)

\* A frame read and pushed goes on where the capture had come to.
LEMMA ReadSteps ==
  ASSUME RingInv, ReadsNext
  PROVE  RingInv' /\ Continues(frame_samples, frame_samples')
  <1>1. PICK f \in Frame : Captured(f) /\ frame_samples' = f /\ Push(f)
    BY DEF ReadsNext
  <1>2. RingOK' /\ Continues(frame_samples, f)
    BY <1>1, PushTypes, CapturedContinues DEF RingInv
  <1>3. Contents' = Past!Remember(Append(Contents, f))
    BY <1>1, PushRefines DEF RingInv, Past!Push
  <1>4. Contents \in Seq(Frame) /\ Len(Contents) <= Capacity
    BY ContentsValue, CapacityAssumption DEF RingInv, ContentsBySlot, RingOK
  <1>5. Stretch(Contents', f)
    BY <1>2, <1>3, <1>4, StretchGrows DEF RingInv
  <1>6. Stretch(Contents, frame_samples)'
    BY <1>1, <1>5 DEF Stretch, Continues
  <1> QED BY <1>1, <1>2, <1>6 DEF RingInv

\* The pre-buffer extracted is a stretch of the capture up to the frame read last.
LEMMA PrebufferIsStretch ==
  ASSUME RingInv
  PROVE  LET x == Extract(PrebufferFrames)
         IN  /\ \A i \in 1..PrebufferFrames : x[i] \in Frame
             /\ \A i \in 2..PrebufferFrames : Continues(x[i - 1], x[i])
             /\ x[PrebufferFrames] = frame_samples
  <1> USE FramesAssumption, CapacityAssumption
  <1> DEFINE p == PrebufferFrames
             x == Extract(p)
             r == Contents
             n == Len(r)
  <1>1. p \in 1..(Capacity + 1) /\ p \in Nat /\ p >= 1 /\ p <= Capacity
    OBVIOUS
  <1>2. /\ r \in Seq(Frame) /\ n \in Nat
        /\ \A i \in 2..n : Continues(r[i - 1], r[i])
        /\ n = 0 => frame_samples = Zero
        /\ n # 0 => r[n] = frame_samples
        /\ n # 0 /\ n < Capacity => Continues(Zero, r[1])
    BY ContentsValue DEF RingInv, Stretch, ContentsBySlot, RingOK
  <1>3. x = Past!Latest(p)
    BY <1>1, RingShowsLatest DEF RingInv, ExtractsLatest
  <1>4. \A i \in 1..p : x[i] = IF n - p + i >= 1 THEN r[n - p + i] ELSE Zero
    BY <1>3 DEF Past!Latest
  <1>5. \A i \in 1..n : r[i] \in Frame
    BY <1>2
  <1> HIDE DEF x, r, n
  <1>6. ASSUME NEW i \in 1..p PROVE x[i] \in Frame
    <2>1. n - p + i >= 1 => n - p + i \in 1..n
      BY <1>1, <1>2
    <2> QED BY <1>4, <1>5, <2>1, ZeroAssumption
  <1>7. ASSUME NEW i \in 2..p PROVE Continues(x[i - 1], x[i])
    <2> DEFINE k == n - p + i
    <2>1. /\ i \in 1..p /\ i - 1 \in 1..p /\ k \in Int /\ k <= n
          /\ n - p + (i - 1) = k - 1
      BY <1>1, <1>2
    <2>2. /\ x[i] = IF k >= 1 THEN r[k] ELSE Zero
          /\ x[i - 1] = IF k - 1 >= 1 THEN r[k - 1] ELSE Zero
      BY <1>4, <2>1
    <2>3. k = 1 => n # 0 /\ n < Capacity
      BY <1>1, <1>2
    <2> HIDE DEF k
    <2>4. CASE k >= 2
      <3>1. k \in 2..n
        BY <1>2, <2>1, <2>4
      <3> QED BY <1>2, <2>1, <2>2, <2>4, <3>1
    <2>5. CASE k = 1
      BY <1>2, <2>2, <2>3, <2>5
    <2>6. CASE k < 1
      <3>1. x[i] = Zero /\ x[i - 1] = Zero
        BY <2>1, <2>2, <2>6
      <3> QED BY <3>1 DEF Continues
    <2> QED BY <2>1, <2>4, <2>5, <2>6
  <1>8. x[p] = frame_samples
    <2>1. p \in 1..p /\ n - p + p = n
      BY <1>1, <1>2
    <2> QED BY <1>2, <1>4, <2>1
  <1> QED BY <1>6, <1>7, <1>8 DEF x

-----------------------------------------------------------------------------
(* The stream *)

Total == PrebufferFrames + MaxLiveFrames

\* What OneStreamPerDetection says of the i-th frame, and of a sequence of frames.
Numbered(e, i) ==
  e = [seq |-> i - 1, first |-> i = 1, prebuf |-> i <= PrebufferFrames,
       last |-> i = Total, frame |-> e.frame]
AllNumbered(l) == \A i \in 1..Len(l) : Numbered(l[i], i)

\* How far the stream is, by where the audio task is.
PhaseInv ==
  /\ pc \in {"start", "mark"} => Len(log) = 0 /\ ~is_streaming
  /\ pc = "prebuffer" => Len(log) < PrebufferFrames /\ ~is_streaming
  /\ pc = "read" /\ ~is_streaming => Len(log) \in {0, Total}
  /\ pc = "read" /\ is_streaming =>
       /\ Len(log) = PrebufferFrames + live_frames_sent
       /\ current_seq = Len(log) /\ live_frames_sent < MaxLiveFrames
  /\ pc \in {"stop", "end"} => Len(log) = Total /\ is_streaming

LogInv ==
  /\ log \in Seq(FrameRecord)
  /\ live_frames_sent \in 0..MaxLiveFrames /\ current_seq \in Nat
  /\ AllNumbered(log) /\ PhaseInv

\* While the pre-buffer is sent the ring is what it is taken from.
PrebufferInv ==
  pc = "prebuffer" =>
    \A i \in 1..Len(log) : log[i].frame = Extract(PrebufferFrames)[i]

StreamInv == LogInv /\ RingInv /\ PrebufferInv /\ StreamIsTheCapture

\* The records of SendPrebuffer and SendLive are numbered by their place.
LEMMA PrebufferFrame ==
  ASSUME NEW n \in Nat, n < PrebufferFrames, NEW f \in Frame, NEW e,
         e = [seq |-> n, first |-> n = 0, prebuf |-> TRUE, last |-> FALSE, frame |-> f]
  PROVE  e \in FrameRecord /\ e.frame = f /\ Numbered(e, n + 1)
  <1> USE FramesAssumption
  <1> DEFINE starts == (n = 0)
             a == (n + 1 = 1)
             b == (n + 1 <= PrebufferFrames)
             c == (n + 1 = Total)
  <1>1. e \in FrameRecord /\ e.frame = f
    BY DEF FrameRecord
  <1>2. n = (n + 1) - 1 /\ starts = a
    OBVIOUS
  <1>3. TRUE = b
    OBVIOUS
  <1>4. FALSE = c
    BY DEF Total
  <1>5. e = [seq |-> n, first |-> starts, prebuf |-> TRUE, last |-> FALSE, frame |-> f]
    OBVIOUS
  <1> HIDE DEF starts, a, b, c
  <1>6. e = [seq |-> (n + 1) - 1, first |-> a, prebuf |-> b, last |-> c, frame |-> f]
    BY <1>2, <1>3, <1>4, <1>5, Zenon
  <1> QED BY <1>1, <1>6, Zenon DEF Numbered, a, b, c

LEMMA LiveFrame ==
  ASSUME NEW n \in Nat, n >= PrebufferFrames, NEW f \in Frame,
         NEW l \in BOOLEAN, l = (n + 1 = Total), NEW e,
         e = [seq |-> n, first |-> FALSE, prebuf |-> FALSE, last |-> l, frame |-> f]
  PROVE  e \in FrameRecord /\ e.frame = f /\ Numbered(e, n + 1)
  <1> USE FramesAssumption
  <1>1. e \in FrameRecord /\ e.frame = f
    BY DEF FrameRecord
  <1>2. n = (n + 1) - 1
    OBVIOUS
  <1>3. FALSE = (n + 1 = 1)
    OBVIOUS
  <1>4. FALSE = (n + 1 <= PrebufferFrames)
    OBVIOUS
  <1>5. e = [seq |-> (n + 1) - 1, first |-> n + 1 = 1, prebuf |-> n + 1 <= PrebufferFrames,
             last |-> n + 1 = Total, frame |-> f]
    BY <1>2, <1>3, <1>4, Zenon
  <1> QED BY <1>1, <1>5, Zenon DEF Numbered

\* One more frame, with the number that is its place.
LEMMA LogGrows ==
  ASSUME LogInv, NEW e \in FrameRecord, Numbered(e, Len(log) + 1),
         log' = Append(log, e)
  PROVE  /\ log' \in Seq(FrameRecord) /\ Len(log') = Len(log) + 1
         /\ Len(log) \in Nat
         /\ log'[Len(log) + 1] = e /\ \A i \in 1..Len(log) : log'[i] = log[i]
         /\ AllNumbered(log')
  <1> DEFINE n == Len(log)
  <1>1. n \in Nat
    BY DEF LogInv
  <1>3. /\ log' \in Seq(FrameRecord) /\ Len(log') = n + 1 /\ log'[n + 1] = e
        /\ \A i \in 1..n : log'[i] = log[i]
    BY DEF LogInv
  <1> HIDE DEF n
  <1>4. ASSUME NEW i \in 1..Len(log') PROVE Numbered(log'[i], i)
    <2>1. CASE i = n + 1
      BY <1>3, <2>1 DEF n
    <2>2. CASE i # n + 1
      <3>1. i \in 1..n
        BY <1>1, <1>3, <2>2
      <3> QED BY <1>3, <3>1 DEF LogInv, AllNumbered, n
    <2> QED BY <2>1, <2>2
  <1> QED BY <1>1, <1>3, <1>4 DEF AllNumbered, n

\* Steps that leave the audio task alone leave its stream alone.
LEMMA OthersKeepStream ==
  ASSUME StreamInv, UNCHANGED <<audioVars, readVars>> PROVE StreamInv'
  <1>1. Contents' = Contents /\ UNCHANGED <<frame_samples, buffer, write_idx, count>>
    BY DEF readVars, ringVars, Contents, StartSlot
  <1>2. Extract(PrebufferFrames)' = Extract(PrebufferFrames)
    BY <1>1 DEF Extract, Padding, StartSlot
  <1>3. UNCHANGED <<pc, is_streaming, live_frames_sent, current_seq, log>>
    BY DEF audioVars
  <1>4. RingInv'
    BY <1>1 DEF StreamInv, RingInv, RingOK, Stretch, Continues
  <1>5. LogInv'
    BY <1>3 DEF StreamInv, LogInv, AllNumbered, Numbered, PhaseInv
  <1>6. PrebufferInv'
    BY <1>2, <1>3 DEF StreamInv, PrebufferInv
  <1>7. StreamIsTheCapture'
    BY <1>1, <1>3 DEF StreamInv, StreamIsTheCapture, Continues
  <1> QED BY <1>4, <1>5, <1>6, <1>7 DEF StreamInv

\* A frame read while nothing is streamed, which may start a stream.
LEMMA ListeningKeepsStream ==
  ASSUME StreamInv, ~is_streaming, pc = "read", ReadsNext,
         UNCHANGED <<is_streaming, live_frames_sent, current_seq>>,
         \/ pc' = "start" /\ log' = <<>>
         \/ UNCHANGED <<pc, log>>
  PROVE  StreamInv'
  <1>1. RingInv'
    BY ReadSteps DEF StreamInv
  <1>2. PrebufferInv'
    BY DEF PrebufferInv
  <1>3. CASE pc' = "start" /\ log' = <<>>
    <2>1. Len(log') = 0 /\ log' \in Seq(FrameRecord)
      BY <1>3
    <2>2. LogInv'
      BY <1>3, <2>1 DEF StreamInv, LogInv, AllNumbered, PhaseInv
    <2>3. StreamIsTheCapture'
      BY <2>1 DEF StreamIsTheCapture
    <2> QED BY <1>1, <1>2, <2>2, <2>3 DEF StreamInv
  <1>4. CASE UNCHANGED <<pc, log>>
    <2>1. LogInv'
      BY <1>4 DEF StreamInv, LogInv, AllNumbered, Numbered, PhaseInv
    <2>2. StreamIsTheCapture'
      BY <1>4 DEF StreamInv, StreamIsTheCapture, Continues
    <2> QED BY <1>1, <1>2, <2>1, <2>2 DEF StreamInv
  <1> QED BY <1>3, <1>4

\* A step of the audio task that reads and sends nothing.
LEMMA ControlKeepsStream ==
  ASSUME StreamInv, UNCHANGED <<log, current_seq, live_frames_sent, readVars>>,
         \/ pc = "start" /\ pc' \in {"mark", "prebuffer"} /\ UNCHANGED is_streaming
         \/ pc = "mark" /\ pc' = "prebuffer" /\ UNCHANGED is_streaming
         \/ pc = "stop" /\ pc' = "end" /\ UNCHANGED is_streaming
         \/ pc = "end" /\ pc' = "read" /\ is_streaming' = FALSE
  PROVE  StreamInv'
  <1>1. Contents' = Contents /\ UNCHANGED <<frame_samples, buffer, write_idx, count>>
    BY DEF readVars, ringVars, Contents, StartSlot
  <1>2. RingInv'
    BY <1>1 DEF StreamInv, RingInv, RingOK, Stretch, Continues
  <1>3. PhaseInv'
    BY FramesAssumption DEF StreamInv, LogInv, PhaseInv
  <1>4. LogInv'
    BY <1>3 DEF StreamInv, LogInv, AllNumbered, Numbered
  <1>5. PrebufferInv'
    BY DEF StreamInv, LogInv, PhaseInv, PrebufferInv
  <1>6. StreamIsTheCapture'
    BY <1>1 DEF StreamInv, StreamIsTheCapture, Continues
  <1> QED BY <1>2, <1>4, <1>5, <1>6 DEF StreamInv

LEMMA PrebufferKeepsStream == ASSUME StreamInv, SendPrebuffer PROVE StreamInv'
  <1> USE FramesAssumption
  <1> DEFINE n == Len(log)
             x == Extract(PrebufferFrames)
  <1>1. /\ pc = "prebuffer" /\ UNCHANGED readVars
        /\ log' = Append(log, [seq |-> n, first |-> n = 0, prebuf |-> TRUE,
                               last |-> FALSE, frame |-> x[n + 1]])
        /\ n + 1 = PrebufferFrames =>
             /\ pc' = "read" /\ is_streaming' = TRUE
             /\ live_frames_sent' = 0 /\ current_seq' = PrebufferFrames
        /\ n + 1 # PrebufferFrames =>
             /\ pc' = pc /\ is_streaming' = is_streaming
             /\ live_frames_sent' = live_frames_sent /\ current_seq' = current_seq
    BY DEF SendPrebuffer, Send, FirstLive
  <1>2. /\ n \in Nat /\ n < PrebufferFrames /\ ~is_streaming
        /\ n + 1 \in 1..PrebufferFrames
    BY <1>1 DEF StreamInv, LogInv, PhaseInv
  <1>3. /\ \A i \in 1..PrebufferFrames : x[i] \in Frame
        /\ \A i \in 2..PrebufferFrames : Continues(x[i - 1], x[i])
        /\ x[PrebufferFrames] = frame_samples
    BY PrebufferIsStretch DEF StreamInv
  <1>4. /\ Contents' = Contents /\ x' = x
        /\ UNCHANGED <<frame_samples, buffer, write_idx, count>>
    BY <1>1 DEF readVars, ringVars, Contents, StartSlot, Extract, Padding
  <1>5. RingInv'
    BY <1>4 DEF StreamInv, RingInv, RingOK, Stretch, Continues
  <1> HIDE DEF x
  <1>6. PICK e \in FrameRecord : /\ log' = Append(log, e)
                                 /\ e.frame = x[n + 1] /\ Numbered(e, n + 1)
    <2>1. PICK e : e = [seq |-> n, first |-> n = 0, prebuf |-> TRUE, last |-> FALSE,
                        frame |-> x[n + 1]]
      OBVIOUS
    <2>2. log' = Append(log, e)
      BY <1>1, <2>1
    <2>3. e \in FrameRecord /\ e.frame = x[n + 1] /\ Numbered(e, n + 1)
      <3>1. x[n + 1] \in Frame
        BY <1>2, <1>3
      <3> HIDE DEF n
      <3> QED BY <1>2, <2>1, <3>1, PrebufferFrame
    <2> QED BY <2>2, <2>3
  <1>7. /\ log' \in Seq(FrameRecord) /\ Len(log') = n + 1
        /\ log'[n + 1] = e /\ \A i \in 1..n : log'[i] = log[i]
        /\ AllNumbered(log')
    BY <1>1, <1>6, LogGrows DEF StreamInv
  <1> HIDE DEF n
  <1>8. PhaseInv'
    BY <1>1, <1>2, <1>7 DEF PhaseInv
  <1>9. LogInv'
    <2>1. live_frames_sent' \in 0..MaxLiveFrames /\ current_seq' \in Nat
      BY <1>1 DEF StreamInv, LogInv
    <2>2. AllNumbered(log)'
      BY <1>7 DEF AllNumbered, Numbered
    <2> QED BY <1>7, <1>8, <2>1, <2>2 DEF LogInv
  <1>10. \A i \in 1..(n + 1) : log'[i].frame = x[i]
    <2>1. ASSUME NEW i \in 1..(n + 1) PROVE log'[i].frame = x[i]
      <3>1. CASE i = n + 1
        BY <1>6, <1>7, <3>1
      <3>2. CASE i # n + 1
        <4>1. i \in 1..n
          BY <1>2, <3>2
        <4> QED BY <1>1, <1>7, <4>1 DEF StreamInv, PrebufferInv, n, x
      <3> QED BY <3>1, <3>2
    <2> QED BY <2>1
  <1>11. PrebufferInv'
    BY <1>4, <1>7, <1>10 DEF PrebufferInv, x
  <1>12. StreamIsTheCapture'
    <2>1. ASSUME NEW i \in 2..Len(log')
          PROVE  Continues(log'[i - 1].frame, log'[i].frame)
      <3>1. i \in 2..PrebufferFrames /\ i \in 1..(n + 1) /\ i - 1 \in 1..(n + 1)
        BY <1>2, <1>7
      <3> QED BY <1>3, <1>10, <3>1
    <2>2. is_streaming' => log'[Len(log')].frame = frame_samples'
      <3>1. is_streaming' => n + 1 = PrebufferFrames
        BY <1>1, <1>8 DEF PhaseInv
      <3> QED BY <1>2, <1>3, <1>4, <1>7, <1>10, <3>1
    <2> QED BY <2>1, <2>2 DEF StreamIsTheCapture, Continues
  <1> QED BY <1>5, <1>9, <1>11, <1>12 DEF StreamInv

LEMMA LiveKeepsStream == ASSUME StreamInv, SendLive PROVE StreamInv'
  <1> USE FramesAssumption
  <1> DEFINE n == Len(log)
             l == live_frames_sent + 1
  <1>1. /\ pc = "read" /\ is_streaming /\ is_streaming' = is_streaming
        /\ live_frames_sent' = l /\ current_seq' = current_seq + 1
        /\ ReadsNext
        /\ log' = Append(log, [seq |-> current_seq, first |-> FALSE, prebuf |-> FALSE,
                               last |-> IsLast(l), frame |-> frame_samples'])
        /\ pc' = IF IsLast(l) THEN "stop" ELSE "read"
    <2>1. pc = "read" /\ is_streaming
      BY DEF SendLive, IsLive
    <2>2. live_frames_sent' = l /\ current_seq' = current_seq + 1
      BY DEF SendLive
    <2>3. ReadsNext
      BY DEF SendLive, Read, PushRead, ReadsNext
    <2>4. log' = Append(log, [seq |-> current_seq, first |-> FALSE, prebuf |-> FALSE,
                              last |-> IsLast(l), frame |-> frame_samples'])
      BY DEF SendLive, Send
    <2>5. pc' = IF IsLast(l) THEN "stop" ELSE "read"
      BY DEF SendLive
    <2>6. is_streaming' = is_streaming
      BY DEF SendLive
    <2> QED BY <2>1, <2>2, <2>3, <2>4, <2>5, <2>6
  <1>2. /\ n \in Nat /\ live_frames_sent \in Nat /\ n = PrebufferFrames + live_frames_sent
        /\ current_seq = n /\ l <= MaxLiveFrames /\ n + 1 <= Total
        /\ (IsLast(l) <=> n + 1 = Total)
    BY <1>1 DEF StreamInv, LogInv, PhaseInv, Total, IsLast
  <1>3. RingInv' /\ Continues(frame_samples, frame_samples') /\ frame_samples' \in Frame
    <2>1. RingInv' /\ Continues(frame_samples, frame_samples')
      BY <1>1, ReadSteps DEF StreamInv
    <2> QED BY <2>1 DEF RingInv
  <1>4. PICK e \in FrameRecord : /\ log' = Append(log, e)
                                 /\ e.frame = frame_samples' /\ Numbered(e, n + 1)
    <2>1. PICK e : e = [seq |-> current_seq, first |-> FALSE, prebuf |-> FALSE,
                        last |-> IsLast(l), frame |-> frame_samples']
      OBVIOUS
    <2>2. log' = Append(log, e)
      BY <1>1, <2>1
    <2>3. e \in FrameRecord /\ e.frame = frame_samples' /\ Numbered(e, n + 1)
      <3>1. IsLast(l) = (n + 1 = Total) /\ IsLast(l) \in BOOLEAN /\ n >= PrebufferFrames
        BY <1>2 DEF IsLast
      <3> HIDE DEF n, l
      <3> QED BY <1>2, <1>3, <2>1, <3>1, LiveFrame
    <2> QED BY <2>2, <2>3
  <1>5. /\ log' \in Seq(FrameRecord) /\ Len(log') = n + 1
        /\ log'[n + 1] = e /\ \A i \in 1..n : log'[i] = log[i]
        /\ AllNumbered(log')
    BY <1>1, <1>3, <1>4, LogGrows DEF StreamInv
  <1>6. PhaseInv'
    <2>1. is_streaming' /\ Len(log') = PrebufferFrames + live_frames_sent'
          /\ current_seq' = Len(log')
      BY <1>1, <1>2, <1>5
    <2>2. CASE IsLast(l)
      <3>1. pc' = "stop" /\ Len(log') = Total
        BY <1>1, <1>2, <1>5, <2>2
      <3> QED BY <2>1, <3>1 DEF PhaseInv
    <2>3. CASE ~IsLast(l)
      <3>1. pc' = "read" /\ live_frames_sent' < MaxLiveFrames
        BY <1>1, <1>2, <2>3 DEF IsLast
      <3> QED BY <2>1, <3>1 DEF PhaseInv
    <2> QED BY <2>2, <2>3
  <1>7. LogInv'
    <2>1. live_frames_sent' \in 0..MaxLiveFrames /\ current_seq' \in Nat
      BY <1>1, <1>2
    <2>2. AllNumbered(log)'
      BY <1>5 DEF AllNumbered, Numbered
    <2> QED BY <1>5, <1>6, <2>1, <2>2 DEF LogInv
  <1>8. PrebufferInv'
    BY <1>1 DEF PrebufferInv
  <1>9. StreamIsTheCapture'
    <2>1. ASSUME NEW i \in 2..Len(log')
          PROVE  Continues(log'[i - 1].frame, log'[i].frame)
      <3>1. CASE i = n + 1
        <4>1. i - 1 = n /\ n \in 1..n
          BY <1>2, <3>1
        <4>2. log'[i - 1].frame = frame_samples
          BY <1>1, <1>5, <4>1 DEF StreamInv, StreamIsTheCapture
        <4> QED BY <1>3, <1>4, <1>5, <3>1, <4>2
      <3>2. CASE i # n + 1
        <4>1. i \in 2..n /\ i \in 1..n /\ i - 1 \in 1..n
          BY <1>2, <1>5, <3>2
        <4> QED BY <1>5, <4>1 DEF StreamInv, StreamIsTheCapture
      <3> QED BY <3>1, <3>2
    <2>2. log'[Len(log')].frame = frame_samples'
      BY <1>4, <1>5
    <2> QED BY <2>1, <2>2 DEF StreamIsTheCapture, Continues
  <1> QED BY <1>3, <1>7, <1>8, <1>9 DEF StreamInv

-----------------------------------------------------------------------------
(* The whole device *)

DeviceInv == ControlOK /\ LinkInv /\ EngineOK /\ StreamInv

LEMMA InitDeviceInv == Init => DeviceInv
  <1> SUFFICES ASSUME Init PROVE DeviceInv
    OBVIOUS
  <1>1. ControlOK /\ LinkInv
    BY DEF Init, ControlOK, LinkInv, AckedMeansReady
  <1>2. EngineOK /\ RingInv
    BY EngineStarts, RingInvStarts DEF Init
  <1>3. LogInv /\ PrebufferInv /\ StreamIsTheCapture
    <2>1. /\ log \in Seq(FrameRecord) /\ Len(log) = 0 /\ pc = "read" /\ ~is_streaming
          /\ live_frames_sent = 0 /\ current_seq = 0
      BY DEF Init
    <2> QED BY <2>1, FramesAssumption
        DEF LogInv, AllNumbered, PhaseInv, PrebufferInv, StreamIsTheCapture
  <1> QED BY <1>1, <1>2, <1>3 DEF DeviceInv, StreamInv

\* Every step of the three tasks, the link and the microphone keeps the invariant.
LEMMA NextDeviceInv == DeviceInv /\ [Next]_vars => DeviceInv'
  <1> SUFFICES ASSUME DeviceInv, [Next]_vars PROVE DeviceInv'
    OBVIOUS
  <1> USE DEF DeviceInv
  <1>1. ControlOK' /\ LinkInv'
    BY LinkSteps
  <1>2. CASE UNCHANGED taskVars
    <2>1. EngineOK'
      BY <1>2 DEF taskVars, engineVars, EngineOK
    <2>2. StreamInv'
      BY <1>2, OthersKeepStream DEF taskVars
    <2> QED BY <1>1, <2>1, <2>2
  <1>3. CASE BootStep \/ Idle \/ LinkUp \/ LinkDown \/ EventStep \/ UNCHANGED vars
    <2>1. UNCHANGED taskVars
      BY <1>3 DEF BootStep, StartClient, InitReturns, InitMicrophone, Idle, LinkUp, LinkDown,
        EventStep, OnConnected, SendHello, OnHelloAck, OnDisconnected, vars
    <2> QED BY <1>2, <2>1
  <1>4. CASE ReadQuiet
    <2>1. /\ ~is_streaming /\ pc = "read" /\ ReadsNext
          /\ UNCHANGED <<is_streaming, live_frames_sent, current_seq, pc, log>>
      BY <1>4 DEF ReadQuiet, Read, PushRead, ReadsNext, audioVars
    <2>2. StreamInv'
      BY <2>1, ListeningKeepsStream
    <2>3. EngineOK'
      BY <1>4 DEF ReadQuiet, engineVars, EngineOK
    <2> QED BY <1>1, <2>2, <2>3
  <1>5. ASSUME NEW score \in Score, ReadLoud(score) PROVE DeviceInv'
    <2>1. /\ ~is_streaming /\ pc = "read" /\ ReadsNext
          /\ UNCHANGED <<is_streaming, live_frames_sent, current_seq>>
      BY <1>5 DEF ReadLoud, Read, PushRead, ReadsNext
    <2>2. (pc' = "start" /\ log' = <<>>) \/ UNCHANGED <<pc, log>>
      BY <1>5 DEF ReadLoud
    <2>3. StreamInv'
      BY <2>1, <2>2, ListeningKeepsStream
    <2>4. EngineOK'
      BY <1>5, EngineSteps DEF ReadLoud
    <2> QED BY <1>1, <2>3, <2>4
  <1>6. CASE SendStart \/ MarkStreaming \/ SendStop
    <2>1. /\ UNCHANGED <<log, current_seq, live_frames_sent, readVars, is_streaming>>
          /\ \/ pc = "start" /\ pc' \in {"mark", "prebuffer"}
             \/ pc = "mark" /\ pc' = "prebuffer"
             \/ pc = "stop" /\ pc' = "end"
      BY <1>6 DEF SendStart, MarkStreaming, SendStop
    <2>2. StreamInv'
      BY <2>1, ControlKeepsStream
    <2>3. EngineOK'
      BY <1>6 DEF SendStart, MarkStreaming, SendStop, engineVars, EngineOK
    <2> QED BY <1>1, <2>2, <2>3
  <1>7. CASE EndStream
    <2>1. /\ UNCHANGED <<log, current_seq, live_frames_sent, readVars>>
          /\ pc = "end" /\ pc' = "read" /\ is_streaming' = FALSE
      BY <1>7 DEF EndStream
    <2>2. StreamInv'
      BY <2>1, ControlKeepsStream
    <2>3. EngineOK'
      BY <1>7, EngineResets DEF EndStream
    <2> QED BY <1>1, <2>2, <2>3
  <1>8. CASE SendPrebuffer
    <2>1. EngineOK'
      BY <1>8 DEF SendPrebuffer, engineVars, EngineOK
    <2> QED BY <1>1, <1>8, <2>1, PrebufferKeepsStream
  <1>9. CASE SendLive
    <2>1. EngineOK'
      BY <1>9 DEF SendLive, engineVars, EngineOK
    <2> QED BY <1>1, <1>9, <2>1, LiveKeepsStream
  <1> QED BY <1>3, <1>4, <1>5, <1>6, <1>7, <1>8, <1>9 DEF Next, AudioStep

LEMMA Invariant == Spec => []DeviceInv
  BY InitDeviceInv, NextDeviceInv, PTL DEF Spec

-----------------------------------------------------------------------------
(* Numbers on the wire *)

LEMMA NumberIsPlace == ASSUME NEW e, NEW i \in Nat, Numbered(e, i) PROVE e.seq = i - 1
  BY DEF Numbered

LEMMA FitsSeq == ASSUME NEW q \in Nat, q < 65536 PROVE U16(q)
  <1>1. High(q) \in Nat /\ High(q) < 256
    BY DEF High
  <1> QED BY <1>1 DEF U16, Byte

LEMMA FitsOffset == ASSUME NEW q \in Nat, q < 65536 PROVE U32(q * SAMPLES_PER_FRAME)
  <1> USE DEF SAMPLES_PER_FRAME
  <1>1. q * 320 \in Nat /\ q * 320 < 256 * 81920
    OBVIOUS
  <1>2. High(q * 320) \in Nat /\ High(q * 320) < 81920
    BY <1>1 DEF High
  <1>3. High(High(q * 320)) \in Nat /\ High(High(q * 320)) < 320
    BY <1>2 DEF High
  <1>4. High(High(High(q * 320))) \in Nat /\ High(High(High(q * 320))) < 256
    BY <1>3 DEF High
  <1> QED BY <1>1, <1>4 DEF U32, Byte

-----------------------------------------------------------------------------
(* Theorems *)

\* Types; in particular no more live frames are counted than are due.
THEOREM DeviceTypes == Spec => []TypeOK
  <1>1. DeviceInv => TypeOK
    BY DEF DeviceInv, StreamInv, LogInv, RingInv, ControlOK, TypeOK
  <1> QED BY Invariant, <1>1, PTL

\* A detection yields one stream, flagged, numbered and as long as it has to be,
\* whatever becomes of the link.
THEOREM OneStream == Spec => []OneStreamPerDetection
  <1>1. DeviceInv => OneStreamPerDetection
    <2> SUFFICES ASSUME DeviceInv PROVE OneStreamPerDetection
      OBVIOUS
    <2>1. Len(log) \in Nat /\ Len(log) <= Total
      BY FramesAssumption DEF DeviceInv, StreamInv, LogInv, PhaseInv, Total, ControlOK
    <2>2. \A i \in 1..Len(log) : Numbered(log[i], i)
      BY DEF DeviceInv, StreamInv, LogInv, AllNumbered
    <2>3. pc = "read" /\ ~is_streaming => Len(log) \in {0, Total}
      BY DEF DeviceInv, StreamInv, LogInv, PhaseInv
    <2> QED BY <2>1, <2>2, <2>3, Zenon DEF OneStreamPerDetection, Total, Numbered
  <1> QED BY Invariant, <1>1, PTL

\* A stream is an unbroken stretch of what the microphone delivered, for every
\* size of ring, pre-buffer and stream.
THEOREM StreamUnbroken == Spec => []StreamIsTheCapture
  <1>1. DeviceInv => StreamIsTheCapture
    BY DEF DeviceInv, StreamInv
  <1> QED BY Invariant, <1>1, PTL

\* The backend reads every frame the device sends as it was meant.
THEOREM StreamUnderstood == Spec => []FramesUnderstood
  <1>1. DeviceInv => FramesUnderstood
    <2> SUFFICES ASSUME DeviceInv, NEW i \in 1..Len(log), NEW id \in StreamIds
                 PROVE  BackendUnderstands(HeaderOf(log[i], id))
      BY DEF FramesUnderstood
    <2> DEFINE h == HeaderOf(log[i], id)
    <2>1. Len(log) \in Nat /\ Len(log) <= Total
      BY FramesAssumption DEF DeviceInv, StreamInv, LogInv, PhaseInv, Total, ControlOK
    <2>2. log[i].seq = i - 1
      <3>1. Numbered(log[i], i)
        BY DEF DeviceInv, StreamInv, LogInv, AllNumbered
      <3> QED BY <2>1, <3>1, NumberIsPlace
    <2>3. i - 1 \in Nat /\ i - 1 < 65536
      BY <2>1, WireAssumption, FramesAssumption DEF Total
    <2>4. h.seq = i - 1 /\ U16(h.seq)
      BY <2>2, <2>3, FitsSeq DEF HeaderOf
    <2>5. U32(h.sample_offset)
      <3>1. h.sample_offset = (i - 1) * SAMPLES_PER_FRAME
        BY <2>2 DEF HeaderOf
      <3> HIDE DEF h
      <3> QED BY <2>3, <3>1, FitsOffset
    <2>6. U32(h.stream_id)
      BY WireAssumption DEF HeaderOf
    <2>7. h.flags \in Byte /\ h.codec \in Byte /\ h.codec = CODEC_PCM
      BY DEF HeaderOf, Byte, CODEC_PCM, FLAG_FIRST, FLAG_LAST, FLAG_PREBUF
    <2>8. h = [codec |-> h.codec, flags |-> h.flags, seq |-> h.seq,
               stream_id |-> h.stream_id, sample_offset |-> h.sample_offset]
      BY DEF HeaderOf
    <2> HIDE DEF h
    <2>9. IsHeader(h)
      BY <2>4, <2>5, <2>6, <2>7, <2>8 DEF IsHeader
    <2> QED BY <2>7, <2>9, FirmwareIsUnderstood DEF h
  <1> QED BY Invariant, <1>1, PTL

\* A client whose hello was acknowledged is ready while its link is up, but for
\* the late line of ws_client_init.
THEOREM AckedIsReady == Spec => []AckedMeansReady
  <1>1. DeviceInv => AckedMeansReady
    BY DEF DeviceInv, LinkInv
  <1> QED BY Invariant, <1>1, PTL

\* All the device does to its ring is to push frames.
LEMMA DeviceRing == Spec => RingSpec
  <1>1. Init => RingInit
    BY DEF Init
  <1>2. [Next]_vars => [RingNext]_ringVars
    <2> SUFFICES ASSUME [Next]_vars PROVE RingNext \/ UNCHANGED ringVars
      OBVIOUS
    <2>1. CASE BootStep \/ Idle \/ LinkUp \/ LinkDown \/ EventStep \/ UNCHANGED vars
      <3>1. UNCHANGED taskVars
        BY <2>1 DEF BootStep, StartClient, InitReturns, InitMicrophone, Idle, LinkUp, LinkDown,
          EventStep, OnConnected, SendHello, OnHelloAck, OnDisconnected, vars
      <3> QED BY <3>1 DEF taskVars, readVars
    <2>2. CASE ReadQuiet
      BY <2>2 DEF ReadQuiet, Read, PushRead, RingNext
    <2>3. ASSUME NEW score \in Score, ReadLoud(score) PROVE RingNext
      BY <2>3 DEF ReadLoud, Read, PushRead, RingNext
    <2>4. CASE SendLive
      BY <2>4 DEF SendLive, Read, PushRead, RingNext
    <2>5. CASE SendStart \/ MarkStreaming \/ SendPrebuffer \/ SendStop \/ EndStream
      BY <2>5 DEF SendStart, MarkStreaming, SendPrebuffer, SendStop, EndStream, readVars
    <2> QED BY <2>1, <2>2, <2>3, <2>4, <2>5 DEF Next, AudioStep
  <1> QED BY <1>1, <1>2, PTL DEF Spec, RingSpec

\* In the device, too, the ring is a window on the latest frames.
THEOREM DeviceRingIsWindow == Spec => RefinesWindow
  BY DeviceRing, RingIsWindow, PTL

\* ... and every extraction shows them in order.
THEOREM DeviceExtractsLatest == Spec => []ExtractsLatest
  BY DeviceRing, ExtractionShowsLatest, PTL

LEMMA NextLatestScores == DeviceInv /\ LatestScores /\ [Next]_vars => LatestScores'
  <1> SUFFICES ASSUME DeviceInv, LatestScores, [Next]_vars PROVE LatestScores'
    OBVIOUS
  <1>1. CASE UNCHANGED engineVars
    BY <1>1 DEF engineVars, LatestScores, ScoreSlot
  <1>2. CASE BootStep \/ Idle \/ LinkUp \/ LinkDown \/ EventStep \/ UNCHANGED vars
    <2>1. UNCHANGED taskVars
      BY <1>2 DEF BootStep, StartClient, InitReturns, InitMicrophone, Idle, LinkUp, LinkDown,
        EventStep, OnConnected, SendHello, OnHelloAck, OnDisconnected, vars
    <2> QED BY <1>1, <2>1 DEF taskVars
  <1>3. ASSUME NEW score \in Score, ReadLoud(score) PROVE LatestScores'
    <2>1. ProcessFrame(score)
      BY <1>3 DEF ReadLoud
    <2> QED BY <2>1, LatestSteps DEF DeviceInv
  <1>4. CASE ReadQuiet \/ SendStart \/ MarkStreaming \/ SendPrebuffer \/ SendStop \/ SendLive
    BY <1>1, <1>4 DEF ReadQuiet, SendStart, MarkStreaming, SendPrebuffer, SendStop, SendLive
  <1>5. CASE EndStream
    BY <1>5, LatestReset DEF EndStream
  <1> QED BY <1>2, <1>3, <1>4, <1>5 DEF Next, AudioStep

\* The slots of the latest scores are those summed, one for each.
LEMMA LatestSmooth ==
  ASSUME EngineOK, LatestScores PROVE SmoothsLatest
  <1> DEFINE n == history_count
             slot == [i \in 1..n |-> ScoreSlot(i)]
  <1>0. /\ n \in 0..Window /\ Window \in Nat \ {0} /\ history_idx \in 0..(Window - 1)
        /\ n < Window => history_idx = n
    BY EngineAssumption DEF EngineOK, LatestScores
  <1>1. \A i \in 1..n : ScoreSlot(i) \in 0..(n - 1)
    BY <1>0 DEF ScoreSlot
  <1>2. \A i, j \in 1..n : ScoreSlot(i) = ScoreSlot(j) => i = j
    BY <1>0 DEF ScoreSlot
  <1>3. slot \in [1..n -> 0..(n - 1)]
    BY <1>1
  <1>4. /\ \A i, j \in 1..n : slot[i] = slot[j] => i = j
        /\ \A i \in 1..n : scored[i] = history[slot[i]]
    BY <1>2 DEF LatestScores
  <1>5. n = Len(scored)
    BY DEF LatestScores
  <1> HIDE DEF slot
  <1> QED BY <1>3, <1>4, <1>5 DEF SmoothsLatest

\* The scores that kws_engine.c averages are those of the latest frames since the
\* last stream, each once: none of an earlier stream, no empty slot, none missing.
THEOREM EngineSmoothsLatest == Spec => []SmoothsLatest
  <1>1. Init => LatestScores
    BY LatestStart DEF Init
  <1>2. DeviceInv /\ LatestScores => SmoothsLatest
    BY LatestSmooth DEF DeviceInv
  <1> QED BY <1>1, <1>2, Invariant, NextLatestScores, PTL DEF Spec
-----------------------------------------------------------------------------
(* That a stream ends, without fairness *)

\* The audio task is at a stream.
Active == pc # "read" \/ is_streaming

Ahead(p) ==
  CASE p = "start" -> 5 [] p = "mark" -> 4 [] p = "prebuffer" -> 3
  []   p = "read" -> 3 [] p = "stop" -> 2 [] p = "end" -> 1 [] OTHER -> 0

\* The frames it has still to send, and the turns between.
StepsLeft == IF Active THEN Total - Len(log) + Ahead(pc) ELSE 0

\* Every step of the audio task brings a stream nearer to its end, and nothing
\* that becomes of link, events or status takes it back.
StreamRunsOut ==
  Active => IF AudioStep THEN StepsLeft' < StepsLeft ELSE StepsLeft' = StepsLeft

\* The only step of a stream that could have to wait is SendLive, and it never
\* has to: the task runs, and the microphone has a next frame.
NeverHeldUp == Active => boot = "audio" /\ \E f \in Frame : Captured(f)

LogBounded == Len(log) \in Nat /\ Len(log) <= Total

LEMMA OnlyAudioIsActive ==
  ASSUME DeviceInv, Active => boot = "audio", [Next]_vars
  PROVE  Active' => boot' = "audio"
  <1>1. CASE Idle \/ LinkUp \/ LinkDown \/ EventStep \/ UNCHANGED vars
    BY <1>1 DEF Idle, LinkUp, LinkDown, EventStep, OnConnected, SendHello, OnHelloAck,
      OnDisconnected, vars, bootVars, taskVars, audioVars, Active
  <1>2. CASE BootStep
    BY <1>2 DEF BootStep, StartClient, InitReturns, InitMicrophone, taskVars, audioVars, Active
  <1>3. CASE ReadQuiet
    BY <1>3 DEF ReadQuiet, bootVars
  <1>4. ASSUME NEW score \in Score, ReadLoud(score) PROVE boot' = "audio"
    BY <1>4 DEF ReadLoud, bootVars
  <1>5. CASE AudioStep
    <2>1. Active /\ UNCHANGED boot
      BY <1>5 DEF AudioStep, SendStart, MarkStreaming, SendPrebuffer, SendLive, IsLive, SendStop,
        EndStream, bootVars, Active
    <2> QED BY <2>1
  <1> QED BY <1>1, <1>2, <1>3, <1>4, <1>5 DEF Next

\* A stream can always take its next step.
THEOREM StreamNeverHeldUp == Spec => []NeverHeldUp
  <1>1. Init => (Active => boot = "audio")
    BY DEF Init, Active
  <1>2. DeviceInv /\ (Active => boot = "audio") /\ [Next]_vars => (Active => boot = "audio")'
    BY OnlyAudioIsActive
  <1>3. DeviceInv => \E f \in Frame : Captured(f)
    <2> SUFFICES ASSUME DeviceInv PROVE \E f \in Frame : Captured(f)
      OBVIOUS
    <2> USE CaptureAssumption
    <2>1. frame_samples.captured \in Nat
      BY DEF DeviceInv, StreamInv, RingInv
    <2>2. After(frame_samples.captured, 0) \in 0..Cycle
      BY <2>1 DEF After
    <2>3. PICK f : f = [captured |-> After(frame_samples.captured, 0), lost |-> 0]
      OBVIOUS
    <2>4. f \in Frame
      <3>1. f \in [captured : 0..Cycle, lost : 0..MaxLost]
        BY <2>2, <2>3
      <3> QED BY <3>1
    <2>5. Captured(f)
      BY <2>3 DEF Captured
    <2> QED BY <2>4, <2>5
  <1>4. DeviceInv /\ (Active => boot = "audio") => NeverHeldUp
    BY <1>3 DEF NeverHeldUp
  <1> QED BY <1>1, <1>2, <1>4, Invariant, PTL DEF Spec

\* A stream ends after at most as many steps as it has frames, and five more.
THEOREM StreamsRunOut == Spec => [][StreamRunsOut]_vars
  <1>0. DeviceInv => LogBounded
    BY FramesAssumption
    DEF DeviceInv, StreamInv, LogInv, PhaseInv, Total, ControlOK, LogBounded
  <1>1. ASSUME DeviceInv, DeviceInv', LogBounded, LogBounded', [Next]_vars, Active
        PROVE  IF AudioStep THEN StepsLeft' < StepsLeft ELSE StepsLeft' = StepsLeft
    <2> USE FramesAssumption
    <2>0. /\ Len(log) \in Nat /\ Len(log') \in Nat /\ Total \in Nat
          /\ Len(log) <= Total /\ Len(log') <= Total
      BY <1>1 DEF LogBounded, Total
    <2>1. CASE SendStart \/ MarkStreaming \/ SendStop
      <3>1. /\ log' = log
            /\ \/ pc = "start" /\ pc' \in {"mark", "prebuffer"}
               \/ pc = "mark" /\ pc' = "prebuffer"
               \/ pc = "stop" /\ pc' = "end"
        BY <2>1 DEF SendStart, MarkStreaming, SendStop
      <3> QED BY <2>0, <2>1, <3>1 DEF StepsLeft, Active, Ahead, AudioStep
    <2>2. CASE EndStream
      <3>1. pc = "end" /\ StepsLeft' = 0
        BY <2>2 DEF EndStream, StepsLeft, Active
      <3> QED BY <2>0, <2>2, <3>1 DEF StepsLeft, Active, Ahead, AudioStep
    <2>3. CASE SendPrebuffer \/ SendLive
      <3>1. Len(log') = Len(log) + 1
        <4>1. log \in Seq(FrameRecord)
          BY <1>1 DEF DeviceInv, StreamInv, LogInv
        <4>2. PICK e : log' = Append(log, e)
          BY <2>3 DEF SendPrebuffer, SendLive, Send
        <4>3. log' \in Seq(FrameRecord)
          BY <1>1 DEF DeviceInv, StreamInv, LogInv
        <4> QED BY <4>1, <4>2, <4>3
      <3>2. pc \in {"prebuffer", "read"} /\ pc' \in {"prebuffer", "read", "stop"}
        BY <2>3 DEF SendPrebuffer, SendLive
      <3> QED BY <1>1, <2>0, <2>3, <3>1, <3>2 DEF StepsLeft, Ahead, AudioStep
    <2>4. CASE BootStep \/ Idle \/ LinkUp \/ LinkDown \/ EventStep \/ UNCHANGED vars
      <3>1. UNCHANGED <<pc, is_streaming, log>>
        BY <2>4 DEF BootStep, StartClient, InitReturns, InitMicrophone, Idle, LinkUp, LinkDown,
          EventStep, OnConnected, SendHello, OnHelloAck, OnDisconnected, vars, taskVars, audioVars
      <3>2. StepsLeft' = StepsLeft
        BY <3>1 DEF StepsLeft, Active
      <3> QED BY <2>1, <2>2, <2>3, <3>2 DEF AudioStep
    <2>5. CASE ReadQuiet \/ \E score \in Score : ReadLoud(score)
      BY <1>1, <2>5 DEF ReadQuiet, ReadLoud, Active
    <2> QED BY <1>1, <2>1, <2>2, <2>3, <2>4, <2>5 DEF Next, AudioStep
  <1>2. DeviceInv /\ DeviceInv' /\ LogBounded /\ LogBounded' /\ [Next]_vars
          => [StreamRunsOut]_vars
    BY <1>1 DEF StreamRunsOut
  <1> QED BY Invariant, <1>0, <1>2, PTL DEF Spec
=============================================================================
