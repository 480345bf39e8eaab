-------------------------- MODULE StreamAudioProofs --------------------------
(* Theorems about StreamAudio, for every frame size, maximum and gap limit. *)
EXTENDS StreamAudio, TLAPS

\* The recording has reached the offset expected next, unless it is full and its
\* last frame was pulled back to its end.
OffsetInv == pcmLen = expected \/ (pcmLen = MaxSamples /\ pcmLen < expected)

IInv == TypeOK /\ OffsetInv /\ Contiguous /\ PlacedAtOffset

\* The initial state satisfies the invariant.
LEMMA InitIInv == Init => IInv
  <1> SUFFICES ASSUME Init PROVE IInv
    OBVIOUS
  <1> USE SizesAssumption DEF Init
  <1>1. TypeOK
    <2>1. /\ listed \in BOOLEAN /\ finalizing \in BOOLEAN /\ finalized \in BOOLEAN
          /\ speechActive \in BOOLEAN /\ triggered \in BOOLEAN
      OBVIOUS
    <2>2. /\ pcmLen \in 0..MaxSamples /\ expected \in 0..(MaxOffset + FrameSamples)
          /\ silenceCount \in Nat /\ placed \in Seq(Entry)
      OBVIOUS
    <2> QED BY <2>1, <2>2 DEF TypeOK
  <1>2. OffsetInv
    BY DEF OffsetInv
  <1>3. Contiguous /\ PlacedAtOffset
    BY DEF Contiguous, PlacedAtOffset
  <1> QED BY <1>1, <1>2, <1>3 DEF IInv

\* Where an accepted frame goes: the recording was at its expected offset, and
\* the frame follows after the silence inserted, within the maximum.
LEMMA AcceptPlaces ==
  ASSUME IInv, NEW f \in Frame, Accept(f)
  PROVE  /\ pcmLen = expected
         /\ f.offset \in Nat /\ pcmLen \in Nat
         /\ Inserted(f) \in 0..MaxGap
         /\ pcmLen + Inserted(f) + FrameSamples <= MaxSamples
         /\ \/ pcmLen + Inserted(f) = f.offset
            \/ /\ pcmLen + Inserted(f) < f.offset
               /\ pcmLen + Inserted(f) + FrameSamples = MaxSamples
  <1> USE SizesAssumption DEF IInv
  <1>1. /\ f.offset \in 0..MaxOffset /\ f.speech \in BOOLEAN
        /\ pcmLen \in Nat /\ expected \in Nat
    BY DEF Frame, TypeOK
  <1>2. pcmLen + FrameSamples <= MaxSamples
    BY <1>1 DEF Accept, Full
  <1>3. pcmLen = expected
    BY <1>1, <1>2 DEF OffsetInv
  <1>4. f.offset >= expected /\ f.offset <= expected + MaxGap
    BY <1>1 DEF Accept, InWindow
  <1> QED BY <1>1, <1>2, <1>3, <1>4 DEF Inserted

\* An accepted frame keeps the invariant.
LEMMA AcceptIInv == ASSUME IInv, NEW f \in Frame, Accept(f) PROVE IInv'
  <1> USE SizesAssumption
  <1> DEFINE e == [at |-> pcmLen + Inserted(f), offset |-> f.offset, speech |-> f.speech]
             n == Len(placed)
  <1>1. /\ pcmLen = expected
        /\ f.offset \in Nat /\ pcmLen \in Nat
        /\ Inserted(f) \in 0..MaxGap
        /\ pcmLen + Inserted(f) + FrameSamples <= MaxSamples
        /\ \/ pcmLen + Inserted(f) = f.offset
           \/ /\ pcmLen + Inserted(f) < f.offset
              /\ pcmLen + Inserted(f) + FrameSamples = MaxSamples
    BY AcceptPlaces
  <1>2. /\ placed' = Append(placed, e)
        /\ pcmLen' = pcmLen + Inserted(f) + FrameSamples
        /\ expected' = f.offset + FrameSamples
    BY DEF Accept, ExpectedAfter
  <1>3. placed \in Seq(Entry) /\ e \in Entry
    BY <1>1 DEF IInv, TypeOK, Frame, Entry
  <1>4. /\ n \in Nat /\ Len(placed') = n + 1 /\ placed'[n + 1] = e
        /\ \A i \in 1..n : placed'[i] = placed[i]
    BY <1>2, <1>3
  <1>5. TypeOK'
    <2>1. pcmLen' \in 0..MaxSamples /\ expected' \in 0..(MaxOffset + FrameSamples)
      <3>1. pcmLen + Inserted(f) + FrameSamples \in 0..MaxSamples
        BY <1>1, SMTT(30)
      <3>2. f.offset + FrameSamples \in 0..(MaxOffset + FrameSamples)
        BY <1>1, SMTT(30) DEF Frame
      <3> QED BY <1>2, <3>1, <3>2
    <2>2. placed' \in Seq(Entry)
      BY <1>2, <1>3
    <2>3. silenceCount' \in Nat
      BY DEF Accept, Detect, SilenceAfter, IInv, TypeOK
    <2>4. speechActive' \in BOOLEAN /\ triggered' \in BOOLEAN /\ finalizing' \in BOOLEAN
          /\ listed' \in BOOLEAN /\ finalized' \in BOOLEAN
      BY DEF Accept, Detect, IInv, TypeOK, Frame
    <2> QED BY <2>1, <2>2, <2>3, <2>4 DEF TypeOK
  <1>6. OffsetInv'
    BY <1>1, <1>2 DEF OffsetInv
  <1>7. \A i \in 1..n : placed[i].at \in Nat /\ placed[i].offset \in Nat
    <2>1. ASSUME NEW i \in 1..n PROVE placed[i] \in Entry
      BY <1>3, <1>4
    <2> QED BY <2>1 DEF Entry
  <1>8. Contiguous'
    <2>1. pcmLen = IF placed = <<>> THEN 0 ELSE End(n)
      BY DEF IInv, Contiguous
    <2>2. pcmLen' = End(Len(placed))' /\ placed' # <<>>
      <3>1. placed'[n + 1].at = pcmLen + Inserted(f)
        BY <1>4
      <3> QED BY <1>1, <1>2, <1>4, <3>1 DEF End
    <2>3. ASSUME NEW i \in 1..(n + 1)
          PROVE  LET before == IF i = 1 THEN 0 ELSE End(i - 1)'
                 IN  before <= placed'[i].at /\ placed'[i].at <= before + MaxGap
      <3>1. CASE i = n + 1
        <4>1. pcmLen = IF i = 1 THEN 0 ELSE End(i - 1)'
          BY <1>4, <2>1, <3>1, <1>3 DEF End
        <4> QED BY <1>1, <1>4, <3>1, <4>1
      <3>2. CASE i \in 1..n
        <4>1. i # 1 => End(i - 1)' = End(i - 1)
          BY <1>4, <3>2 DEF End
        <4> QED BY <1>4, <3>2, <4>1 DEF IInv, Contiguous
      <3> QED BY <1>4, <3>1, <3>2
    <2> QED BY <1>4, <2>2, <2>3 DEF Contiguous
  <1>9. PlacedAtOffset'
    <2>1. ASSUME NEW i \in 1..n PROVE placed[i].at = placed[i].offset
      <3>1. i = n /\ placed[i].at + FrameSamples = MaxSamples => pcmLen = MaxSamples
        BY <1>4 DEF IInv, Contiguous, End
      <3> QED BY <1>1, <3>1 DEF IInv, PlacedAtOffset
    <2>2. ASSUME NEW i \in 1..(n + 1)
          PROVE  \/ placed'[i].at = placed'[i].offset
                 \/ /\ i = n + 1
                    /\ placed'[i].at + FrameSamples = MaxSamples
                    /\ placed'[i].at < placed'[i].offset
      <3>1. CASE i \in 1..n
        BY <1>4, <2>1, <3>1
      <3>2. CASE i = n + 1
        BY <1>1, <1>4, <3>2
      <3> QED BY <1>4, <3>1, <3>2
    <2> QED BY <1>4, <2>2 DEF PlacedAtOffset
  <1> QED BY <1>5, <1>6, <1>8, <1>9 DEF IInv

\* The invariant is inductive: the other steps do not touch the recording.
LEMMA NextIInv == IInv /\ [Next]_vars => IInv'
  <1> SUFFICES ASSUME IInv, [Next]_vars PROVE IInv'
    OBVIOUS
  <1>1. ASSUME NEW f \in Frame, Accept(f) PROVE IInv'
    BY <1>1, AcceptIInv
  <1>2. ASSUME \/ \E f \in Frame : MaxDuration(f)
               \/ Stop \/ PipelineFinalize \/ Abandon \/ Finished \/ UNCHANGED vars
        PROVE  IInv'
    <2>1. UNCHANGED audioVars
      BY <1>2 DEF MaxDuration, Stop, PipelineFinalize, Abandon, Finished, vars
    <2>2. listed' \in BOOLEAN /\ finalizing' \in BOOLEAN /\ finalized' \in BOOLEAN
      BY <1>2 DEF IInv, TypeOK, MaxDuration, Stop, PipelineFinalize, Abandon,
        Finished, vars, stateVars
    <2>3. TypeOK'
      BY <2>1, <2>2 DEF IInv, TypeOK, audioVars
    <2>4. OffsetInv' /\ Contiguous' /\ PlacedAtOffset'
      BY <2>1 DEF IInv, audioVars, OffsetInv, Contiguous, PlacedAtOffset, End
    <2> QED BY <2>3, <2>4 DEF IInv
  <1> QED BY <1>1, <1>2 DEF Next

\* Every accepted frame lies in the recording at its own sample offset, except
\* the last one of a full recording, which is pulled back to its end.
THEOREM FramesInPlace == Spec => []PlacedAtOffset
  <1>1. IInv => PlacedAtOffset
    BY DEF IInv
  <1> QED BY InitIInv, NextIInv, <1>1, PTL DEF Spec

\* The recorded frames never overlap and never lie more than MaxGap apart.
THEOREM RecordingContiguous == Spec => []Contiguous
  <1>1. IInv => Contiguous
    BY DEF IInv
  <1> QED BY InitIInv, NextIInv, <1>1, PTL DEF Spec

\* The types hold; in particular a recording never exceeds MaxSamples.
THEOREM TypesHold == Spec => []TypeOK
  <1>1. IInv => TypeOK
    BY DEF IInv
  <1> QED BY InitIInv, NextIInv, <1>1, PTL DEF Spec

-----------------------------------------------------------------------------
(* The endpoint *)

\* What the detector's fields say of the frames recorded: whether any had speech,
\* and how many came since the last one that had.
DetectorInv ==
  /\ speechActive <=> \E i \in 1..Len(placed) : placed[i].speech
  /\ silenceCount \in 0..Len(placed)
  /\ \A i \in (Len(placed) - silenceCount + 1)..Len(placed) : ~placed[i].speech
  /\ silenceCount < Len(placed) => placed[Len(placed) - silenceCount].speech
  /\ triggered <=> speechActive /\ silenceCount >= SilenceFrames
  /\ triggered => finalizing

LEMMA InitDetectorInv == Init => DetectorInv
  BY SizesAssumption DEF Init, DetectorInv

\* One more frame.
LEMMA AcceptDetectorInv ==
  ASSUME IInv, DetectorInv, NEW f \in Frame, Accept(f) PROVE DetectorInv'
  <1> USE SizesAssumption
  <1> DEFINE e == [at |-> pcmLen + Inserted(f), offset |-> f.offset, speech |-> f.speech]
             n == Len(placed)
  <1>1. /\ placed \in Seq(Entry) /\ n \in Nat /\ placed' = Append(placed, e)
        /\ f.speech \in BOOLEAN /\ e.speech = f.speech
        /\ silenceCount \in Nat /\ speechActive \in BOOLEAN /\ triggered \in BOOLEAN
        /\ ~finalizing /\ ~triggered
    BY DEF Accept, Admissible, IInv, TypeOK, Frame, DetectorInv
  <1>2. /\ Len(placed') = n + 1 /\ placed'[n + 1] = e
        /\ \A i \in 1..n : placed'[i] = placed[i]
    BY <1>1
  <1> HIDE DEF e, n
  <1>3. /\ silenceCount' = IF f.speech THEN 0 ELSE silenceCount + 1
        /\ speechActive' = (speechActive \/ f.speech)
        /\ triggered' = (speechActive' /\ silenceCount' >= SilenceFrames)
        /\ finalizing' = triggered'
    BY <1>1 DEF Accept, Detect, SilenceAfter
  <1>4. /\ speechActive <=> \E i \in 1..n : placed[i].speech
        /\ silenceCount \in 0..n
        /\ \A i \in (n - silenceCount + 1)..n : ~placed[i].speech
        /\ silenceCount < n => placed[n - silenceCount].speech
    BY DEF DetectorInv, n
  <1>5. speechActive' <=> \E i \in 1..(n + 1) : placed'[i].speech
    <2>1. \A i \in 1..(n + 1) : i \in 1..n \/ i = n + 1
      BY <1>1
    <2>2. n + 1 \in 1..(n + 1) /\ \A i \in 1..n : i \in 1..(n + 1)
      BY <1>1
    <2> QED BY <1>1, <1>2, <1>3, <1>4, <2>1, <2>2
  <1>6. /\ triggered' <=> speechActive' /\ silenceCount' >= SilenceFrames
        /\ triggered' => finalizing'
    BY <1>3
  <1>7. ASSUME silenceCount' \in 0..Len(placed'),
               \A i \in (Len(placed') - silenceCount' + 1)..Len(placed') :
                 ~placed'[i].speech,
               silenceCount' < Len(placed') =>
                 placed'[Len(placed') - silenceCount'].speech
        PROVE  DetectorInv'
    <2>1. speechActive' <=> \E i \in 1..Len(placed') : placed'[i].speech
      BY <1>2, <1>5, Zenon
    <2> QED BY <1>6, <1>7, <2>1, Zenon DEF DetectorInv
  <1>8. CASE f.speech
    <2>1. silenceCount' = 0
      BY <1>3, <1>8
    <2>2. silenceCount' \in 0..Len(placed')
      BY <1>1, <1>2, <2>1
    <2>3. \A i \in (Len(placed') - silenceCount' + 1)..Len(placed') : ~placed'[i].speech
      BY <1>1, <1>2, <2>1
    <2>4. placed'[Len(placed') - silenceCount'].speech
      <3>1. Len(placed') - silenceCount' = n + 1
        BY <1>1, <1>2, <2>1
      <3>2. placed'[n + 1].speech
        BY <1>1, <1>2, <1>8, Zenon
      <3> QED BY <3>1, <3>2, Zenon
    <2> QED BY <1>7, <2>2, <2>3, <2>4
  <1>9. CASE ~f.speech
    <2>1. silenceCount' = silenceCount + 1 /\ silenceCount' \in 0..Len(placed')
      BY <1>1, <1>2, <1>3, <1>4, <1>9
    <2>2. ASSUME NEW i \in (Len(placed') - silenceCount' + 1)..Len(placed')
          PROVE  ~placed'[i].speech
      <3>1. CASE i = n + 1
        BY <1>1, <1>2, <1>9, <3>1, Zenon
      <3>2. CASE i # n + 1
        <4>1. i \in (n - silenceCount + 1)..n /\ i \in 1..n
          BY <1>1, <1>2, <1>4, <2>1, <3>2
        <4> QED BY <1>2, <1>4, <4>1, Zenon
      <3> QED BY <3>1, <3>2
    <2>3. silenceCount' < Len(placed') => placed'[Len(placed') - silenceCount'].speech
      <3>1. silenceCount' < Len(placed') =>
              /\ silenceCount < n /\ n - silenceCount \in 1..n
              /\ Len(placed') - silenceCount' = n - silenceCount
        BY <1>1, <1>2, <1>4, <2>1
      <3> QED BY <1>2, <1>4, <3>1, Zenon
    <2> QED BY <1>7, <2>1, <2>2, <2>3
  <1> QED BY <1>8, <1>9

LEMMA NextDetectorInv == IInv /\ DetectorInv /\ [Next]_vars => DetectorInv'
  <1> SUFFICES ASSUME IInv, DetectorInv, [Next]_vars PROVE DetectorInv'
    OBVIOUS
  <1>1. ASSUME NEW f \in Frame, Accept(f) PROVE DetectorInv'
    BY <1>1, AcceptDetectorInv
  <1>2. ASSUME \/ \E f \in Frame : MaxDuration(f)
               \/ Stop \/ PipelineFinalize \/ Abandon \/ Finished \/ UNCHANGED vars
        PROVE  DetectorInv'
    <2>1. UNCHANGED audioVars /\ (finalizing => finalizing')
      BY <1>2 DEF MaxDuration, Stop, PipelineFinalize, Abandon, Finished, vars, stateVars
    <2> QED BY <2>1 DEF DetectorInv, audioVars
  <1> QED BY <1>1, <1>2 DEF Next

\* The endpoint fires exactly when the recording first ends in enough silence
\* after speech, for every frame size, limit and sequence of frames.
THEOREM EndpointIsExact == Spec => []EndpointExact
  <1>1. IInv /\ DetectorInv => EndpointExact
    <2> SUFFICES ASSUME IInv, DetectorInv PROVE EndpointExact
      OBVIOUS
    <2> DEFINE n == Len(placed)
    <2>1. /\ n \in Nat /\ SilenceFrames \in Nat \ {0} /\ silenceCount \in 0..n
          /\ triggered <=> speechActive /\ silenceCount >= SilenceFrames
          /\ speechActive <=> \E i \in 1..n : placed[i].speech
          /\ \A i \in (n - silenceCount + 1)..n : ~placed[i].speech
          /\ silenceCount < n => placed[n - silenceCount].speech
      BY SizesAssumption DEF IInv, TypeOK, DetectorInv
    <2> HIDE DEF n
    <2>2. ASSUME triggered PROVE EndsInSilence(placed)
      <3>1. PICK i \in 1..n : placed[i].speech
        BY <2>1, <2>2
      <3>2. silenceCount >= SilenceFrames /\ ~(i \in (n - silenceCount + 1)..n)
        BY <2>1, <2>2, <3>1
      <3>3. n > SilenceFrames /\ i \in 1..(n - SilenceFrames)
        BY <2>1, <3>2
      <3>4. \A j \in (n - SilenceFrames + 1)..n : ~placed[j].speech
        BY <2>1, <3>2
      <3> QED BY <3>1, <3>3, <3>4 DEF EndsInSilence, n
    <2>3. ASSUME EndsInSilence(placed) PROVE triggered
      <3>1. /\ n > SilenceFrames
            /\ \A j \in (n - SilenceFrames + 1)..n : ~placed[j].speech
            /\ \E j \in 1..(n - SilenceFrames) : placed[j].speech
        BY <2>3 DEF EndsInSilence, n
      <3>2. speechActive
        BY <2>1, <3>1
      <3>3. silenceCount >= SilenceFrames
        <4>1. SUFFICES ASSUME silenceCount < SilenceFrames PROVE FALSE
          BY <2>1
        <4>2. silenceCount < n /\ n - silenceCount \in (n - SilenceFrames + 1)..n
          BY <2>1, <3>1, <4>1
        <4> QED BY <2>1, <3>1, <4>2
      <3> QED BY <2>1, <3>2, <3>3
    <2> QED BY <2>2, <2>3 DEF EndpointExact
  <1> QED BY InitIInv, NextIInv, InitDetectorInv, NextDetectorInv, <1>1, PTL DEF Spec
=============================================================================
