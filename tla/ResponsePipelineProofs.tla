------------------------ MODULE ResponsePipelineProofs ------------------------
(***************************************************************************)
(* Theorems about ResponsePipeline, for any number of streams, connections *)
(* and threads, and answers of any length.                                 *)
(***************************************************************************)
EXTENDS ResponsePipeline, FiniteSetTheorems, TLAPS

\* The stages in which a pipeline awaits a job of the pool.
Pooled == {"asr", "llm", "tts", "piper"}
Stages == {"idle", "play", "done"} \cup Pooled

\* The jobs: none is twice in the pool, and a running synthesis has its thread.
PoolOK ==
  /\ stage \in [Stream -> Stages]
  /\ queue \in Seq(Stream)
  /\ \A i, j \in 1..Len(queue) : queue[i] = queue[j] => i = j
  /\ busy \subseteq Stream /\ IsFiniteSet(busy) /\ Cardinality(busy) <= PoolSize
  /\ busy \cap Queued = {}
  /\ busy \cup Queued = {s \in Stream : stage[s] \in Pooled}
  /\ \A s \in Stream : stage[s] = "piper" => s \in busy

\* Only a running synthesis has a temporary file, or hangs.
SynthOK ==
  /\ hung \subseteq {s \in Stream : stage[s] = "piper"}
  /\ tmp \subseteq {s \in Stream : stage[s] = "piper"}

PlayTypeOK ==
  /\ audio \in [Stream -> 0..MaxFrames] /\ sent \in [Stream -> 0..(MaxFrames + 2)]
  /\ open \subseteq Conn /\ wire \in [Conn -> Seq(Message)]

\* How far a playback is, by the stage of its pipeline: none before the play
\* stage; in it, there is a message left to send or one that pack refuses.
ProgressOK ==
  \A s \in Stream :
    /\ stage[s] \notin {"play", "done"} => sent[s] = 0 /\ audio[s] = 0
    /\ stage[s] = "play" =>
         /\ audio[s] >= 1 /\ sent[s] <= audio[s] + 1
         /\ audio[s] > MaxSeq + 1 => sent[s] <= MaxSeq + 2
    /\ stage[s] = "done" =>
         \/ sent[s] = (IF audio[s] = 0 THEN 0 ELSE audio[s] + 2)
         \/ ConnOf[s] \notin open
         \/ audio[s] > MaxSeq + 1 /\ sent[s] = MaxSeq + 2

\* Nothing is under a stream's id but what its pipeline has counted as sent.
CountOK ==
  \A s \in Stream : Heard(wire[ConnOf[s]], s, Len(wire[ConnOf[s]])) = sent[s]

\* A message on a connection is from a pipeline that has come to play there, and
\* is the one of the playback that its rank among the messages of its id says.
MessageOK(c, i) ==
  LET s == wire[c][i].audio_id
      k == Heard(wire[c], s, i)
  IN  /\ ConnOf[s] = c /\ stage[s] \in {"play", "done"} /\ audio[s] >= 1
      /\ k \in 1..(audio[s] + 2) /\ wire[c][i] = Playback(s, audio[s])[k]

WireOK == \A c \in Conn : \A i \in 1..Len(wire[c]) : MessageOK(c, i)

PlayOK == PlayTypeOK /\ ProgressOK /\ CountOK /\ WireOK

IInv == PoolOK /\ SynthOK /\ PlayOK

-----------------------------------------------------------------------------
(* The operators *)

\* The length of a playback: play_start, the frames, play_stop; nothing for none.
LEMMA PlaybackLength ==
  ASSUME NEW s, NEW n \in Nat
  PROVE  Len(Playback(s, n)) = IF n = 0 THEN 0 ELSE n + 2
  <1>1. CASE n = 0
    BY <1>1 DEF Playback
  <1>2. CASE n # 0
    BY <1>2 DEF Playback
  <1> QED BY <1>1, <1>2

\* Nothing is heard of no messages.
LEMMA HeardNothing ==
  ASSUME NEW w, NEW s PROVE Heard(w, s, 0) = 0
  BY FS_EmptySet DEF Heard

\* One message more counts for the stream whose id it has.
LEMMA HeardMore ==
  ASSUME NEW w, NEW s, NEW n \in Nat
  PROVE  /\ Heard(w, s, n) \in Nat
         /\ Heard(w, s, n + 1) = Heard(w, s, n) + IF w[n + 1].audio_id = s THEN 1 ELSE 0
  <1> DEFINE P(k) == {i \in 1..k : w[i].audio_id = s}
  <1>1. IsFiniteSet(P(n))
    <2>1. IsFiniteSet(1..n)
      BY FS_Interval
    <2> QED BY <2>1, FS_Subset
  <1>2. Heard(w, s, n) = Cardinality(P(n)) /\ Heard(w, s, n + 1) = Cardinality(P(n + 1))
    BY DEF Heard
  <1>3. Cardinality(P(n)) \in Nat
    BY <1>1, FS_CardinalityType
  <1>4. CASE w[n + 1].audio_id = s
    <2>1. P(n + 1) = P(n) \cup {n + 1} /\ n + 1 \notin P(n)
      BY <1>4
    <2>2. Cardinality(P(n + 1)) = Cardinality(P(n)) + 1
      BY <1>1, <2>1, FS_AddElement
    <2> HIDE DEF P
    <2> QED BY <1>2, <1>3, <1>4, <2>2
  <1>5. CASE w[n + 1].audio_id # s
    <2>1. P(n + 1) = P(n)
      BY <1>5
    <2> HIDE DEF P
    <2> QED BY <1>2, <1>3, <1>5, <2>1
  <1> QED BY <1>4, <1>5

\* Sending adds a message at the end of one connection and leaves the counts of
\* what was there, on this and on the others.
LEMMA SendAppends ==
  ASSUME NEW c \in Conn, NEW m \in Message, PlayTypeOK,
         wire' = [wire EXCEPT ![c] = Append(@, m)]
  PROVE  /\ wire' \in [Conn -> Seq(Message)]
         /\ Len(wire[c]) \in Nat /\ Len(wire'[c]) = Len(wire[c]) + 1
         /\ wire'[c][Len(wire[c]) + 1] = m
         /\ \A d \in Conn \ {c} : wire'[d] = wire[d]
         /\ \A d \in Conn : \A i \in 1..Len(wire[d]) : wire'[d][i] = wire[d][i]
         /\ \A d \in Conn : \A s : \A n \in 0..Len(wire[d]) : Heard(wire'[d], s, n) = Heard(wire[d], s, n)
  <1>0. wire \in [Conn -> Seq(Message)] /\ wire[c] \in Seq(Message)
    BY DEF PlayTypeOK
  <1>1. wire' \in [Conn -> Seq(Message)] /\ wire'[c] = Append(wire[c], m)
    BY <1>0
  <1>2. Len(wire[c]) \in Nat /\ Len(wire'[c]) = Len(wire[c]) + 1
    BY <1>0, <1>1
  <1>3. wire'[c][Len(wire[c]) + 1] = m
    BY <1>0, <1>1
  <1>4. \A d \in Conn \ {c} : wire'[d] = wire[d]
    BY <1>0
  <1>5. ASSUME NEW d \in Conn, NEW i \in 1..Len(wire[d])
        PROVE  wire'[d][i] = wire[d][i]
    <2>1. CASE d = c
      BY <1>0, <1>1, <2>1
    <2>2. CASE d # c
      BY <1>4, <2>2
    <2> QED BY <2>1, <2>2
  <1>6. ASSUME NEW d \in Conn, NEW s, NEW n \in 0..Len(wire[d])
        PROVE  Heard(wire'[d], s, n) = Heard(wire[d], s, n)
    <2>1. \A i \in 1..n : wire'[d][i] = wire[d][i]
      <3>1. Len(wire[d]) \in Nat
        BY <1>0
      <3> QED BY <1>5, <3>1
    <2>2. {i \in 1..n : wire'[d][i].audio_id = s} = {i \in 1..n : wire[d][i].audio_id = s}
      BY <2>1
    <2> QED BY <2>2 DEF Heard
  <1> QED BY <1>1, <1>2, <1>3, <1>4, <1>5, <1>6

-----------------------------------------------------------------------------
(* The jobs *)

\* A job is put behind those that wait, and its stream was not among them.
LEMMA SubmitPool ==
  ASSUME PoolOK, NEW s \in Stream, NEW next \in {"asr", "llm", "tts"},
         s \in busy \/ stage[s] = "idle", Submit(s, next)
  PROVE  PoolOK'
  <1>0. /\ queue \in Seq(Stream) /\ stage \in [Stream -> Stages] /\ busy \subseteq Stream
        /\ queue' = Append(queue, s) /\ busy' = busy \ {s}
        /\ stage' = [stage EXCEPT ![s] = next]
    BY DEF PoolOK, Submit, GoesTo
  <1>1. Len(queue) \in Nat /\ Len(queue') = Len(queue) + 1 /\ queue' \in Seq(Stream)
    BY <1>0
  <1>2. /\ \A i \in 1..Len(queue) : queue'[i] = queue[i]
        /\ queue'[Len(queue) + 1] = s
    BY <1>0, <1>1
  <1>3. s \notin Queued
    BY DEF PoolOK, Pooled
  <1>4. Queued' = Queued \cup {s}
    BY <1>1, <1>2 DEF Queued
  <1>5. stage' \in [Stream -> Stages]
    BY <1>0 DEF Stages, Pooled
  <1>6. \A i, j \in 1..Len(queue') : queue'[i] = queue'[j] => i = j
    <2>1. \A i \in 1..Len(queue) : queue[i] # s
      BY <1>3 DEF Queued
    <2>2. \A i, j \in 1..Len(queue) : queue[i] = queue[j] => i = j
      BY DEF PoolOK
    <2>3. \A i \in 1..Len(queue') : i \in 1..Len(queue) \/ i = Len(queue) + 1
      BY <1>1
    <2> QED BY <1>2, <2>1, <2>2, <2>3
  <1>7. busy' \subseteq Stream /\ IsFiniteSet(busy') /\ Cardinality(busy') <= PoolSize
    <2>1. IsFiniteSet(busy) /\ Cardinality(busy) <= PoolSize /\ Cardinality(busy) \in Nat
      BY FS_CardinalityType DEF PoolOK
    <2>2. PoolSize \in Nat
      BY PipelineAssumption
    <2>3. IsFiniteSet(busy') /\ Cardinality(busy') <= Cardinality(busy)
      <3>1. busy' \in SUBSET busy
        BY <1>0
      <3> QED BY <2>1, <3>1, FS_Subset
    <2>4. Cardinality(busy') \in Nat
      BY <2>3, FS_CardinalityType
    <2> QED BY <1>0, <2>1, <2>2, <2>3, <2>4
  <1>8. busy' \cap Queued' = {}
    BY <1>0, <1>4 DEF PoolOK
  <1>9. busy' \cup Queued' = {t \in Stream : stage'[t] \in Pooled}
    <2>1. busy \cup Queued = {t \in Stream : stage[t] \in Pooled}
      BY DEF PoolOK
    <2>2. \A t \in Stream : t # s => stage'[t] = stage[t]
      BY <1>0
    <2>3. stage'[s] = next /\ next \in Pooled
      BY <1>0 DEF Pooled
    <2>4. busy' \cup Queued' = busy \cup Queued \cup {s}
      BY <1>0, <1>4
    <2> QED BY <2>1, <2>2, <2>3, <2>4
  <1>10. \A t \in Stream : stage'[t] = "piper" => t \in busy'
    <2>1. \A t \in Stream : stage[t] = "piper" => t \in busy
      BY DEF PoolOK
    <2> QED BY <1>0, <2>1
  <1> QED BY <1>1, <1>5, <1>6, <1>7, <1>8, <1>9, <1>10 DEF PoolOK

\* A pipeline that leaves the pool has no job there.
LEMMA LeavePool ==
  ASSUME PoolOK, NEW s \in Stream, NEW next \in {"play", "done"},
         s \in busy \/ stage[s] = "idle", Leave(s, next)
  PROVE  PoolOK'
  <1>0. /\ stage \in [Stream -> Stages] /\ busy \subseteq Stream
        /\ queue' = queue /\ busy' = busy \ {s}
        /\ stage' = [stage EXCEPT ![s] = next]
    BY DEF PoolOK, Leave, GoesTo
  <1>1. s \notin Queued
    BY DEF PoolOK, Pooled
  <1>2. Queued' = Queued
    BY <1>0 DEF Queued
  <1>3. stage' \in [Stream -> Stages]
    BY <1>0 DEF Stages, Pooled
  <1>4. busy' \subseteq Stream /\ IsFiniteSet(busy') /\ Cardinality(busy') <= PoolSize
    <2>1. IsFiniteSet(busy) /\ Cardinality(busy) <= PoolSize /\ Cardinality(busy) \in Nat
      BY FS_CardinalityType DEF PoolOK
    <2>2. PoolSize \in Nat
      BY PipelineAssumption
    <2>3. IsFiniteSet(busy') /\ Cardinality(busy') <= Cardinality(busy)
      <3>1. busy' \in SUBSET busy
        BY <1>0
      <3> QED BY <2>1, <3>1, FS_Subset
    <2>4. Cardinality(busy') \in Nat
      BY <2>3, FS_CardinalityType
    <2> QED BY <1>0, <2>1, <2>2, <2>3, <2>4
  <1>5. busy' \cap Queued' = {}
    BY <1>0, <1>2 DEF PoolOK
  <1>6. busy' \cup Queued' = {t \in Stream : stage'[t] \in Pooled}
    <2>1. busy \cup Queued = {t \in Stream : stage[t] \in Pooled}
      BY DEF PoolOK
    <2>2. \A t \in Stream : t # s => stage'[t] = stage[t]
      BY <1>0
    <2>3. stage'[s] = next /\ next \notin Pooled
      BY <1>0 DEF Pooled
    <2>4. busy' \cup Queued' = (busy \cup Queued) \ {s}
      BY <1>0, <1>1, <1>2
    <2> QED BY <2>1, <2>2, <2>3, <2>4
  <1>7. \A t \in Stream : stage'[t] = "piper" => t \in busy'
    <2>1. \A t \in Stream : stage[t] = "piper" => t \in busy
      BY DEF PoolOK
    <2> QED BY <1>0, <2>1
  <1>8. /\ queue' \in Seq(Stream)
        /\ \A i, j \in 1..Len(queue') : queue'[i] = queue'[j] => i = j
    BY <1>0 DEF PoolOK
  <1> QED BY <1>3, <1>4, <1>5, <1>6, <1>7, <1>8 DEF PoolOK

\* A job that is taken leaves the queue for a thread that is free.
LEMMA TakeJobPool ==
  ASSUME PoolOK, TakeJob PROVE PoolOK'
  <1>0. /\ queue \in Seq(Stream) /\ stage' = stage /\ queue # <<>>
        /\ queue' = Tail(queue) /\ busy' = busy \cup {Head(queue)}
    BY DEF PoolOK, TakeJob
  <1>1. /\ Len(queue) \in Nat \ {0} /\ Head(queue) = queue[1] /\ Head(queue) \in Stream
        /\ queue' \in Seq(Stream) /\ Len(queue') = Len(queue) - 1
        /\ \A i \in 1..Len(queue') : queue'[i] = queue[i + 1]
    BY <1>0
  <1>2. \A i, j \in 1..Len(queue) : queue[i] = queue[j] => i = j
    BY DEF PoolOK
  <1>3. \A i, j \in 1..Len(queue') : queue'[i] = queue'[j] => i = j
    <2>1. \A i \in 1..Len(queue') : i \in Nat /\ i + 1 \in 1..Len(queue)
      BY <1>1
    <2>2. SUFFICES ASSUME NEW i \in 1..Len(queue'), NEW j \in 1..Len(queue'),
                          queue'[i] = queue'[j]
                   PROVE  i = j
      OBVIOUS
    <2>3. i + 1 = j + 1
      BY <1>1, <1>2, <2>1, <2>2
    <2> QED BY <2>1, <2>3
  <1>4. Head(queue) \in Queued
    BY <1>1 DEF Queued
  <1>5. Queued' = Queued \ {Head(queue)}
    <2>1. ASSUME NEW t \in Queued' PROVE t \in Queued \ {Head(queue)}
      <3>1. PICK i \in 1..Len(queue') : t = queue'[i]
        BY DEF Queued
      <3>2. i + 1 \in 1..Len(queue) /\ i + 1 # 1 /\ t = queue[i + 1]
        BY <1>1, <3>1
      <3>3. t # queue[1]
        <4>1. 1 \in 1..Len(queue)
          BY <1>1
        <4> QED BY <1>2, <3>2, <4>1
      <3> QED BY <1>1, <3>2, <3>3 DEF Queued
    <2>2. ASSUME NEW t \in Queued \ {Head(queue)} PROVE t \in Queued'
      <3>1. PICK i \in 1..Len(queue) : t = queue[i]
        BY DEF Queued
      <3>2. i # 1
        BY <1>1, <2>2, <3>1
      <3>3. i - 1 \in 1..Len(queue') /\ (i - 1) + 1 = i
        BY <1>1, <3>1, <3>2
      <3>4. t = queue'[i - 1]
        BY <1>1, <3>1, <3>3
      <3> QED BY <3>3, <3>4 DEF Queued
    <2> QED BY <2>1, <2>2
  <1>6. busy' \subseteq Stream /\ IsFiniteSet(busy') /\ Cardinality(busy') <= PoolSize
    <2>1. busy \subseteq Stream /\ IsFiniteSet(busy) /\ Cardinality(busy) \in Nat
      BY FS_CardinalityType DEF PoolOK
    <2>2. Cardinality(busy) < PoolSize /\ PoolSize \in Nat
      BY PipelineAssumption DEF TakeJob
    <2>3. /\ IsFiniteSet(busy')
          /\ Cardinality(busy') = Cardinality(busy) \/ Cardinality(busy') = Cardinality(busy) + 1
      BY <1>0, <2>1, FS_AddElement
    <2> QED BY <1>0, <1>1, <2>1, <2>2, <2>3
  <1>7. busy' \cap Queued' = {} /\ busy' \cup Queued' = busy \cup Queued
    BY <1>0, <1>4, <1>5 DEF PoolOK
  <1>8. \A t \in Stream : stage'[t] = "piper" => t \in busy'
    BY <1>0 DEF PoolOK
  <1>9. stage' \in [Stream -> Stages] /\ busy \cup Queued = {t \in Stream : stage'[t] \in Pooled}
    BY <1>0 DEF PoolOK
  <1> QED BY <1>1, <1>3, <1>6, <1>7, <1>8, <1>9 DEF PoolOK

-----------------------------------------------------------------------------
(* Synthesis and playback *)

\* A step outside of the playback: a pipeline that has not come to play goes on
\* to a stage before it, or ends.
LEMMA QuietPlay ==
  ASSUME PlayOK, NEW s \in Stream, NEW next \in {"done"} \cup Pooled,
         stage \in [Stream -> Stages], stage[s] \notin {"play", "done"},
         stage' = [stage EXCEPT ![s] = next], UNCHANGED <<audio, playVars, open>>
  PROVE  PlayOK'
  <1>0. UNCHANGED <<audio, sent, wire, open>>
    BY DEF playVars
  <1>1. stage'[s] = next /\ \A t \in Stream : t # s => stage'[t] = stage[t]
    OBVIOUS
  <1>2. PlayTypeOK'
    BY <1>0 DEF PlayOK, PlayTypeOK
  <1>3. ProgressOK'
    <2>1. SUFFICES ASSUME NEW t \in Stream
                   PROVE  /\ stage'[t] \notin {"play", "done"} => sent[t] = 0 /\ audio[t] = 0
                          /\ stage'[t] = "play" =>
                               /\ audio[t] >= 1 /\ sent[t] <= audio[t] + 1
                               /\ audio[t] > MaxSeq + 1 => sent[t] <= MaxSeq + 2
                          /\ stage'[t] = "done" =>
                               \/ sent[t] = (IF audio[t] = 0 THEN 0 ELSE audio[t] + 2)
                               \/ ConnOf[t] \notin open
                               \/ audio[t] > MaxSeq + 1 /\ sent[t] = MaxSeq + 2
      BY <1>0 DEF ProgressOK
    <2>2. CASE t = s
      <3>1. sent[s] = 0 /\ audio[s] = 0
        BY DEF PlayOK, ProgressOK
      <3>2. stage'[s] # "play"
        BY <1>1 DEF Pooled
      <3> QED BY <2>2, <3>1, <3>2
    <2>3. CASE t # s
      <3>1. stage'[t] = stage[t]
        BY <1>1, <2>3
      <3> QED BY <3>1 DEF PlayOK, ProgressOK
    <2> QED BY <2>2, <2>3
  <1>4. CountOK'
    BY <1>0 DEF PlayOK, CountOK, Heard
  <1>5. WireOK'
    <2>1. SUFFICES ASSUME NEW c \in Conn, NEW i \in 1..Len(wire[c])
                   PROVE  MessageOK(c, i)'
      BY <1>0 DEF WireOK
    <2>2. MessageOK(c, i)
      BY DEF PlayOK, WireOK
    <2>3. wire[c][i].audio_id \in Stream
      <3>1. wire[c][i] \in Message
        BY DEF PlayOK, PlayTypeOK
      <3> QED BY <3>1 DEF Message
    <2>4. wire[c][i].audio_id # s
      BY <2>2 DEF MessageOK
    <2>5. stage'[wire[c][i].audio_id] = stage[wire[c][i].audio_id]
      BY <1>1, <2>3, <2>4
    <2> QED BY <1>0, <2>2, <2>5 DEF MessageOK, Heard
  <1> QED BY <1>2, <1>3, <1>4, <1>5 DEF PlayOK

\* Piper has ended: the answer is there before any of it is sent.
LEMMA PiperEndsPlay ==
  ASSUME IInv, NEW s \in Stream, NEW n \in 0..MaxFrames, PiperEnds(s, n)
  PROVE  PlayOK'
  <1>0. /\ stage \in [Stream -> Stages] /\ stage[s] = "piper"
        /\ stage' = [stage EXCEPT ![s] = IF n = 0 THEN "done" ELSE "play"]
        /\ audio' = [audio EXCEPT ![s] = n] /\ UNCHANGED <<sent, wire, open>>
        /\ audio \in [Stream -> 0..MaxFrames] /\ MaxFrames \in Nat /\ MaxSeq \in Nat
    BY PipelineAssumption
       DEF IInv, PoolOK, PlayOK, PlayTypeOK, PiperEnds, Leave, GoesTo, playVars
  <1>1. /\ stage'[s] = (IF n = 0 THEN "done" ELSE "play") /\ audio'[s] = n
        /\ \A t \in Stream : t # s => stage'[t] = stage[t] /\ audio'[t] = audio[t]
    BY <1>0
  <1>2. PlayTypeOK'
    BY <1>0 DEF IInv, PlayOK, PlayTypeOK
  <1>3. sent[s] = 0
    BY <1>0 DEF IInv, PlayOK, ProgressOK
  <1>4. ProgressOK'
    <2>1. SUFFICES ASSUME NEW t \in Stream
                   PROVE  /\ stage'[t] \notin {"play", "done"} => sent[t] = 0 /\ audio'[t] = 0
                          /\ stage'[t] = "play" =>
                               /\ audio'[t] >= 1 /\ sent[t] <= audio'[t] + 1
                               /\ audio'[t] > MaxSeq + 1 => sent[t] <= MaxSeq + 2
                          /\ stage'[t] = "done" =>
                               \/ sent[t] = (IF audio'[t] = 0 THEN 0 ELSE audio'[t] + 2)
                               \/ ConnOf[t] \notin open
                               \/ audio'[t] > MaxSeq + 1 /\ sent[t] = MaxSeq + 2
      BY <1>0 DEF ProgressOK
    <2>2. CASE t = s
      BY <1>0, <1>1, <1>3, <2>2
    <2>3. CASE t # s
      <3>1. stage'[t] = stage[t] /\ audio'[t] = audio[t]
        BY <1>1, <2>3
      <3> QED BY <3>1 DEF IInv, PlayOK, ProgressOK
    <2> QED BY <2>2, <2>3
  <1>5. CountOK'
    BY <1>0 DEF IInv, PlayOK, CountOK, Heard
  <1>6. WireOK'
    <2>1. SUFFICES ASSUME NEW c \in Conn, NEW i \in 1..Len(wire[c])
                   PROVE  MessageOK(c, i)'
      BY <1>0 DEF WireOK
    <2>2. MessageOK(c, i)
      BY DEF IInv, PlayOK, WireOK
    <2>3. wire[c][i].audio_id \in Stream
      <3>1. wire[c][i] \in Message
        BY DEF IInv, PlayOK, PlayTypeOK
      <3> QED BY <3>1 DEF Message
    <2>4. wire[c][i].audio_id # s
      BY <1>0, <2>2 DEF MessageOK
    <2>5. /\ stage'[wire[c][i].audio_id] = stage[wire[c][i].audio_id]
          /\ audio'[wire[c][i].audio_id] = audio[wire[c][i].audio_id]
      BY <1>1, <2>3, <2>4
    <2> QED BY <1>0, <2>2, <2>5 DEF MessageOK, Heard
  <1> QED BY <1>2, <1>4, <1>5, <1>6 DEF PlayOK

\* The message that is due is the next of the playback.
LEMMA DueIsNext ==
  ASSUME IInv, NEW s \in Stream, stage[s] = "play", Packs(s)
  PROVE  /\ Due(s) \in Message /\ Due(s).audio_id = s
         /\ sent[s] + 1 \in 1..(audio[s] + 2)
         /\ Due(s) = Playback(s, audio[s])[sent[s] + 1]
  <1>0. /\ audio[s] \in Nat /\ audio[s] >= 1 /\ sent[s] \in Nat /\ sent[s] <= audio[s] + 1
        /\ MaxSeq \in Nat
    BY PipelineAssumption DEF IInv, PlayOK, PlayTypeOK, ProgressOK
  <1>1. /\ sent[s] + 1 \in 1..(audio[s] + 2)
        /\ Playback(s, audio[s])[sent[s] + 1] =
             CASE sent[s] + 1 = 1            -> Control("play_start", s)
             []   sent[s] + 1 = audio[s] + 2 -> Control("play_stop", s)
             []   OTHER -> FrameMessage(s, (sent[s] + 1) - 2, sent[s] + 1 = 2,
                                        sent[s] + 1 = audio[s] + 1)
    BY <1>0 DEF Playback
  <1>2. CASE sent[s] = 0
    <2>1. Due(s) = Control("play_start", s)
      BY <1>0, <1>2 DEF Due, AudioId
    <2>2. Playback(s, audio[s])[sent[s] + 1] = Control("play_start", s)
      <3>1. sent[s] + 1 = 1 /\ sent[s] + 1 # audio[s] + 2
        BY <1>0, <1>2
      <3> QED BY <1>1, <3>1
    <2> QED BY <1>1, <2>1, <2>2 DEF Control, Message
  <1>3. CASE sent[s] > audio[s]
    <2>1. Due(s) = Control("play_stop", s)
      BY <1>0, <1>3 DEF Due, AudioId
    <2>2. sent[s] + 1 # 1 /\ sent[s] + 1 = audio[s] + 2
      BY <1>0, <1>3
    <2>3. Playback(s, audio[s])[sent[s] + 1] = Control("play_stop", s)
      BY <1>1, <2>2
    <2> QED BY <1>1, <2>1, <2>3 DEF Control, Message
  <1>4. CASE sent[s] # 0 /\ sent[s] <= audio[s]
    <2>0. /\ ~(sent[s] > audio[s]) /\ sent[s] + 1 # 1 /\ sent[s] + 1 # audio[s] + 2
          /\ (sent[s] + 1) - 2 = sent[s] - 1
          /\ (sent[s] + 1 = 2) = (sent[s] = 1)
          /\ (sent[s] + 1 = audio[s] + 1) = (sent[s] - 1 = audio[s] - 1)
          /\ sent[s] - 1 \in 0..MaxSeq
      BY <1>0, <1>4 DEF Packs
    <2>1. Due(s) = FrameMessage(s, sent[s] - 1, sent[s] = 1, sent[s] - 1 = audio[s] - 1)
      BY <1>4, <2>0 DEF Due, AudioId, LastFrame
    <2>2. Playback(s, audio[s])[sent[s] + 1] =
            FrameMessage(s, (sent[s] + 1) - 2, sent[s] + 1 = 2, sent[s] + 1 = audio[s] + 1)
      BY <1>1, <2>0
    <2>3. Due(s) = Playback(s, audio[s])[sent[s] + 1]
      BY <2>0, <2>1, <2>2
    <2>4. ASSUME NEW first \in BOOLEAN, NEW last \in BOOLEAN, NEW seq \in 0..MaxSeq
          PROVE  FrameMessage(s, seq, first, last) \in Message
      BY DEF FrameMessage, Message
    <2>5. Due(s) \in Message
      BY <2>0, <2>1, <2>4
    <2>6. Due(s).audio_id = s
      BY <2>1 DEF FrameMessage
    <2> QED BY <1>1, <2>3, <2>5, <2>6
  <1> QED BY <1>0, <1>2, <1>3, <1>4

\* A message sent: on its own connection, behind what is there, counted once.
LEMMA SendNextPlay ==
  ASSUME IInv, NEW s \in Stream, SendNext(s)
  PROVE  PlayOK'
  <1> DEFINE c == ConnOf[s]
             m == Due(s)
  <1>0. /\ stage \in [Stream -> Stages] /\ stage[s] = "play" /\ ConnOf[s] \in open /\ Packs(s)
        /\ wire' = [wire EXCEPT ![c] = Append(@, m)]
        /\ sent' = [sent EXCEPT ![s] = @ + 1]
        /\ stage' = [stage EXCEPT ![s] = IF sent[s] > audio[s] THEN "done" ELSE "play"]
        /\ UNCHANGED <<audio, open>>
    BY DEF IInv, PoolOK, SendNext, Finished, GoesTo, synthVars
  <1>1. /\ c \in Conn /\ MaxSeq \in Nat /\ MaxFrames \in Nat
        /\ PlayTypeOK /\ audio[s] \in 0..MaxFrames /\ sent[s] \in 0..(MaxFrames + 2)
    BY PipelineAssumption DEF IInv, PlayOK, PlayTypeOK
  <1>2. /\ m \in Message /\ m.audio_id = s /\ sent[s] + 1 \in 1..(audio[s] + 2)
        /\ m = Playback(s, audio[s])[sent[s] + 1]
    BY <1>0, DueIsNext
  <1>3. /\ wire' \in [Conn -> Seq(Message)]
        /\ Len(wire[c]) \in Nat /\ Len(wire'[c]) = Len(wire[c]) + 1
        /\ wire'[c][Len(wire[c]) + 1] = m
        /\ \A d \in Conn \ {c} : wire'[d] = wire[d]
        /\ \A d \in Conn : \A i \in 1..Len(wire[d]) : wire'[d][i] = wire[d][i]
        /\ \A d \in Conn : \A t : \A n \in 0..Len(wire[d]) : Heard(wire'[d], t, n) = Heard(wire[d], t, n)
    <2> HIDE DEF c, m
    <2> QED BY <1>0, <1>1, <1>2, SendAppends
  <1>4. audio[s] >= 1 /\ sent[s] <= audio[s] + 1
        /\ (audio[s] > MaxSeq + 1 => sent[s] <= MaxSeq + 2)
    BY <1>0 DEF IInv, PlayOK, ProgressOK
  <1>5. /\ sent'[s] = sent[s] + 1
        /\ stage'[s] = (IF sent[s] > audio[s] THEN "done" ELSE "play")
        /\ \A t \in Stream : t # s => stage'[t] = stage[t] /\ sent'[t] = sent[t]
    BY <1>0, <1>1 DEF PlayTypeOK
  <1>6. PlayTypeOK'
    <2>1. sent[s] + 1 \in 0..(MaxFrames + 2)
      BY <1>1, <1>4
    <2>2. sent' \in [Stream -> 0..(MaxFrames + 2)]
      BY <1>0, <1>1, <2>1 DEF PlayTypeOK
    <2> QED BY <1>0, <1>1, <1>3, <2>2 DEF PlayTypeOK
  <1>7. ProgressOK'
    <2>1. SUFFICES ASSUME NEW t \in Stream
                   PROVE  /\ stage'[t] \notin {"play", "done"} => sent'[t] = 0 /\ audio[t] = 0
                          /\ stage'[t] = "play" =>
                               /\ audio[t] >= 1 /\ sent'[t] <= audio[t] + 1
                               /\ audio[t] > MaxSeq + 1 => sent'[t] <= MaxSeq + 2
                          /\ stage'[t] = "done" =>
                               \/ sent'[t] = (IF audio[t] = 0 THEN 0 ELSE audio[t] + 2)
                               \/ ConnOf[t] \notin open
                               \/ audio[t] > MaxSeq + 1 /\ sent'[t] = MaxSeq + 2
      BY <1>0 DEF ProgressOK
    <2>2. CASE t = s /\ sent[s] > audio[s]
      BY <1>1, <1>4, <1>5, <2>2
    <2>3. CASE t = s /\ ~(sent[s] > audio[s])
      <3>1. sent[s] \in 1..audio[s] => sent[s] <= MaxSeq + 1
        BY <1>0, <1>1 DEF Packs
      <3>2. stage'[s] = "play"
        BY <1>5, <2>3
      <3> QED BY <1>1, <1>4, <1>5, <2>3, <3>1, <3>2
    <2>4. CASE t # s
      <3>1. stage'[t] = stage[t] /\ sent'[t] = sent[t]
        BY <1>5, <2>4
      <3> QED BY <3>1 DEF IInv, PlayOK, ProgressOK
    <2> QED BY <2>2, <2>3, <2>4
  <1>8. ASSUME NEW t
        PROVE  Heard(wire'[c], t, Len(wire'[c]))
                 = Heard(wire[c], t, Len(wire[c])) + IF t = s THEN 1 ELSE 0
    <2> DEFINE n == Len(wire[c])
    <2>1. Heard(wire'[c], t, n) = Heard(wire[c], t, n) /\ n \in Nat
      BY <1>1, <1>3, SMTT(30)
    <2>2. Heard(wire'[c], t, n + 1)
            = Heard(wire'[c], t, n) + IF wire'[c][n + 1].audio_id = t THEN 1 ELSE 0
      <3> HIDE DEF n
      <3> QED BY <2>1, HeardMore
    <2>3. Len(wire'[c]) = n + 1 /\ wire'[c][n + 1].audio_id = s
      BY <1>2, <1>3
    <2> QED BY <2>1, <2>2, <2>3
  <1>9. CountOK'
    <2>1. SUFFICES ASSUME NEW t \in Stream
                   PROVE  Heard(wire'[ConnOf[t]], t, Len(wire'[ConnOf[t]])) = sent'[t]
      BY DEF CountOK
    <2>2. /\ Heard(wire[ConnOf[t]], t, Len(wire[ConnOf[t]])) = sent[t]
          /\ ConnOf[t] \in Conn /\ sent[t] \in Nat
      BY PipelineAssumption DEF IInv, PlayOK, PlayTypeOK, CountOK
    <2>3. CASE t = s
      BY <1>5, <1>8, <2>2, <2>3
    <2>4. CASE t # s /\ ConnOf[t] = c
      BY <1>5, <1>8, <2>2, <2>4
    <2>5. CASE t # s /\ ConnOf[t] # c
      BY <1>3, <1>5, <2>2, <2>5
    <2> QED BY <2>3, <2>4, <2>5
  <1>10. ASSUME NEW d \in Conn, NEW i \in 1..Len(wire[d])
         PROVE  MessageOK(d, i)'
    <2>1. MessageOK(d, i) /\ wire'[d][i] = wire[d][i]
      BY <1>3 DEF IInv, PlayOK, WireOK
    <2>2. wire[d][i].audio_id \in Stream
      <3>1. wire[d][i] \in Message
        BY <1>1 DEF PlayTypeOK
      <3> QED BY <3>1 DEF Message
    <2>3. stage'[wire[d][i].audio_id] \in {"play", "done"}
      BY <1>5, <2>1, <2>2 DEF MessageOK
    <2>4. Heard(wire'[d], wire[d][i].audio_id, i) = Heard(wire[d], wire[d][i].audio_id, i)
      <3>1. Len(wire[d]) \in Nat
        BY <1>1 DEF PlayTypeOK
      <3> QED BY <1>3, <3>1
    <2> QED BY <1>0, <2>1, <2>3, <2>4 DEF MessageOK
  <1>11. ASSUME NEW k, k = Len(wire[c]) + 1
         PROVE  MessageOK(c, k)'
    <2>1. wire'[c][k] = m /\ wire'[c][k].audio_id = s /\ Len(wire'[c]) = k
      BY <1>2, <1>3, <1>11
    <2>2. Heard(wire'[c], s, k) = sent[s] + 1
      <3>1. Heard(wire[c], s, Len(wire[c])) = sent[s]
        BY DEF IInv, PlayOK, CountOK
      <3> QED BY <1>8, <2>1, <3>1
    <2>3. stage'[s] \in {"play", "done"}
      BY <1>5
    <2> HIDE DEF m
    <2>4. /\ ConnOf[s] = c /\ audio[s] >= 1 /\ audio'[s] = audio[s]
          /\ Heard(wire'[c], s, k) \in 1..(audio[s] + 2)
          /\ wire'[c][k] = Playback(s, audio[s])[Heard(wire'[c], s, k)]
      BY <1>0, <1>2, <1>4, <2>1, <2>2
    <2> QED BY <2>1, <2>3, <2>4 DEF MessageOK
  <1>12. WireOK'
    <2>1. SUFFICES ASSUME NEW d \in Conn, NEW i \in 1..Len(wire'[d])
                   PROVE  MessageOK(d, i)'
      BY DEF WireOK
    <2>2. CASE i \in 1..Len(wire[d])
      BY <1>10, <2>2
    <2>3. CASE i \notin 1..Len(wire[d])
      <3>1. d = c
        BY <1>3, <2>3
      <3>2. i = Len(wire[c]) + 1
        BY <1>3, <2>3, <3>1
      <3> QED BY <1>11, <3>1, <3>2
    <2> QED BY <2>2, <2>3
  <1> QED BY <1>6, <1>7, <1>9, <1>12 DEF PlayOK

\* A send that raises ends the pipeline: the connection is closed, or there is no
\* seq left for the frame.
LEMMA SendRaisesPlay ==
  ASSUME IInv, NEW s \in Stream, SendRaises(s)
  PROVE  PlayOK'
  <1>0. /\ stage \in [Stream -> Stages] /\ stage[s] = "play" /\ Fails(s)
        /\ stage' = [stage EXCEPT ![s] = "done"] /\ UNCHANGED <<audio, sent, wire, open>>
    BY DEF IInv, PoolOK, SendRaises, GoesTo, synthVars, playVars
  <1>1. stage'[s] = "done" /\ \A t \in Stream : t # s => stage'[t] = stage[t]
    BY <1>0
  <1>2. PlayTypeOK'
    BY <1>0 DEF IInv, PlayOK, PlayTypeOK
  <1>3. ProgressOK'
    <2>1. SUFFICES ASSUME NEW t \in Stream
                   PROVE  /\ stage'[t] \notin {"play", "done"} => sent[t] = 0 /\ audio[t] = 0
                          /\ stage'[t] = "play" =>
                               /\ audio[t] >= 1 /\ sent[t] <= audio[t] + 1
                               /\ audio[t] > MaxSeq + 1 => sent[t] <= MaxSeq + 2
                          /\ stage'[t] = "done" =>
                               \/ sent[t] = (IF audio[t] = 0 THEN 0 ELSE audio[t] + 2)
                               \/ ConnOf[t] \notin open
                               \/ audio[t] > MaxSeq + 1 /\ sent[t] = MaxSeq + 2
      BY <1>0 DEF ProgressOK
    <2>2. CASE t = s /\ ConnOf[s] \notin open
      BY <1>1, <2>2
    <2>3. CASE t = s /\ ~Packs(s)
      <3>1. /\ audio[s] \in Nat /\ sent[s] \in Nat /\ MaxSeq \in Nat
            /\ audio[s] > MaxSeq + 1 => sent[s] <= MaxSeq + 2
        BY <1>0, PipelineAssumption DEF IInv, PlayOK, PlayTypeOK, ProgressOK
      <3>2. sent[s] \in 1..audio[s] /\ sent[s] - 1 > MaxSeq
        BY <2>3 DEF Packs
      <3>3. audio[s] > MaxSeq + 1 /\ sent[s] = MaxSeq + 2
        BY <3>1, <3>2
      <3> QED BY <1>1, <2>3, <3>3
    <2>4. CASE t # s
      <3>1. stage'[t] = stage[t]
        BY <1>1, <2>4
      <3> QED BY <3>1 DEF IInv, PlayOK, ProgressOK
    <2> QED BY <1>0, <2>2, <2>3, <2>4 DEF Fails
  <1>4. CountOK'
    BY <1>0 DEF IInv, PlayOK, CountOK
  <1>5. WireOK'
    <2>1. SUFFICES ASSUME NEW c \in Conn, NEW i \in 1..Len(wire[c])
                   PROVE  MessageOK(c, i)'
      BY <1>0 DEF WireOK
    <2>2. MessageOK(c, i)
      BY DEF IInv, PlayOK, WireOK
    <2>3. wire[c][i].audio_id \in Stream
      <3>1. wire[c][i] \in Message
        BY DEF IInv, PlayOK, PlayTypeOK
      <3> QED BY <3>1 DEF Message
    <2>4. stage'[wire[c][i].audio_id] \in {"play", "done"}
      BY <1>1, <2>2, <2>3 DEF MessageOK
    <2> QED BY <1>0, <2>2, <2>4 DEF MessageOK
  <1> QED BY <1>2, <1>3, <1>4, <1>5 DEF PlayOK

\* A connection that closes excuses its pipelines, and takes nothing back.
LEMMA ClosePlay ==
  ASSUME PlayOK, NEW c \in Conn, Close(c)
  PROVE  PlayOK'
  <1>0. open' = open \ {c} /\ UNCHANGED <<stage, audio, sent, wire>>
    BY DEF Close, synthVars, playVars
  <1>1. PlayTypeOK'
    BY <1>0 DEF PlayOK, PlayTypeOK
  <1>2. ProgressOK'
    BY <1>0 DEF PlayOK, ProgressOK
  <1>3. CountOK'
    BY <1>0 DEF PlayOK, CountOK
  <1>4. WireOK'
    BY <1>0 DEF PlayOK, WireOK, MessageOK
  <1> QED BY <1>1, <1>2, <1>3, <1>4 DEF PlayOK

-----------------------------------------------------------------------------
(* The inductive invariant *)

\* The pipeline submits its next job.
LEMMA SubmitStep ==
  ASSUME IInv, NEW s \in Stream, NEW next \in {"asr", "llm", "tts"},
         stage[s] \in {"idle", "asr", "llm", "tts"}, s \in busy \/ stage[s] = "idle",
         Submit(s, next), UNCHANGED <<synthVars, playVars, open>>
  PROVE  IInv'
  <1>0. /\ stage \in [Stream -> Stages] /\ stage' = [stage EXCEPT ![s] = next]
        /\ UNCHANGED <<hung, tmp, audio, playVars, open>>
    BY DEF IInv, PoolOK, Submit, GoesTo, synthVars
  <1>1. PoolOK'
    BY SubmitPool DEF IInv
  <1>2. SynthOK'
    <2>1. \A t \in Stream : stage[t] = "piper" => stage'[t] = "piper"
      BY <1>0
    <2> QED BY <1>0, <2>1 DEF IInv, SynthOK
  <1>3. PlayOK'
    <2>1. next \in {"done"} \cup Pooled /\ stage[s] \notin {"play", "done"}
      BY DEF Pooled
    <2> QED BY <1>0, <2>1, QuietPlay DEF IInv
  <1> QED BY <1>1, <1>2, <1>3 DEF IInv

\* It ends without one.
LEMMA LeaveStep ==
  ASSUME IInv, NEW s \in Stream, NEW next \in {"done"},
         stage[s] \in {"idle", "asr", "llm", "tts"}, s \in busy \/ stage[s] = "idle",
         Leave(s, next), UNCHANGED <<synthVars, playVars, open>>
  PROVE  IInv'
  <1>0. /\ stage \in [Stream -> Stages] /\ stage' = [stage EXCEPT ![s] = next]
        /\ UNCHANGED <<hung, tmp, audio, playVars, open>>
    BY DEF IInv, PoolOK, Leave, GoesTo, synthVars
  <1>1. PoolOK'
    BY LeavePool DEF IInv
  <1>2. SynthOK'
    <2>1. \A t \in Stream : stage[t] = "piper" => stage'[t] = "piper"
      BY <1>0
    <2> QED BY <1>0, <2>1 DEF IInv, SynthOK
  <1>3. PlayOK'
    <2>1. next \in {"done"} \cup Pooled /\ stage[s] \notin {"play", "done"}
      BY DEF Pooled
    <2> QED BY <1>0, <2>1, QuietPlay DEF IInv
  <1> QED BY <1>1, <1>2, <1>3 DEF IInv

\* A step that leaves the pool and the synthesis alone keeps what is true of them.
LEMMA OutsidePool ==
  ASSUME PoolOK, SynthOK, NEW s \in Stream, NEW next \in {"play", "done"},
         stage[s] \in {"play", "done"}, stage' = [stage EXCEPT ![s] = next],
         UNCHANGED <<queue, busy, hung, tmp>>
  PROVE  PoolOK' /\ SynthOK'
  <1>0. stage \in [Stream -> Stages] /\ Queued' = Queued
    BY DEF PoolOK, Queued
  <1>1. /\ \A t \in Stream : stage'[t] = "piper" <=> stage[t] = "piper"
        /\ \A t \in Stream : stage'[t] \in Pooled <=> stage[t] \in Pooled
        /\ stage' \in [Stream -> Stages]
    BY <1>0 DEF Pooled, Stages
  <1>2. PoolOK'
    <2>1. busy' \cup Queued' = {t \in Stream : stage'[t] \in Pooled}
      BY <1>0, <1>1 DEF PoolOK
    <2>2. \A t \in Stream : stage'[t] = "piper" => t \in busy'
      BY <1>1 DEF PoolOK
    <2> QED BY <1>0, <1>1, <2>1, <2>2 DEF PoolOK
  <1>3. SynthOK'
    BY <1>1 DEF SynthOK
  <1> QED BY <1>2, <1>3

\* The initial state satisfies the invariant.
LEMMA InitIInv == Init => IInv
  <1> SUFFICES ASSUME Init PROVE IInv
    OBVIOUS
  <1>1. PoolOK
    <2>1. Queued = {} /\ Len(queue) = 0
      BY DEF Init, Queued
    <2>2. IsFiniteSet(busy) /\ Cardinality(busy) = 0 /\ PoolSize \in Nat
      BY FS_EmptySet, PipelineAssumption DEF Init
    <2> QED BY <2>1, <2>2 DEF Init, PoolOK, Stages, Pooled
  <1>2. SynthOK
    BY DEF Init, SynthOK
  <1>3. PlayTypeOK
    <2>1. MaxFrames \in Nat
      BY PipelineAssumption
    <2> QED BY <2>1 DEF Init, PlayTypeOK
  <1>4. ProgressOK
    BY DEF Init, ProgressOK
  <1>5. CountOK
    <2>1. SUFFICES ASSUME NEW s \in Stream
                   PROVE  Heard(wire[ConnOf[s]], s, Len(wire[ConnOf[s]])) = sent[s]
      BY DEF CountOK
    <2>2. ConnOf[s] \in Conn
      BY PipelineAssumption
    <2>3. wire[ConnOf[s]] = <<>> /\ Len(wire[ConnOf[s]]) = 0 /\ sent[s] = 0
      BY <2>2 DEF Init
    <2> QED BY <2>3, HeardNothing
  <1>6. WireOK
    BY DEF Init, WireOK
  <1> QED BY <1>1, <1>2, <1>3, <1>4, <1>5, <1>6 DEF IInv, PlayOK

\* Every step preserves it.
LEMMA NextIInv == IInv /\ [Next]_vars => IInv'
  <1> SUFFICES ASSUME IInv, [Next]_vars PROVE IInv'
    OBVIOUS
  <1>1. CASE TakeJob
    <2>1. UNCHANGED <<stage, hung, tmp, audio, sent, wire, open>>
      BY <1>1 DEF TakeJob, synthVars, playVars
    <2>2. SynthOK'
      BY <2>1 DEF IInv, SynthOK
    <2>3. PlayOK'
      BY <2>1 DEF IInv, PlayOK, PlayTypeOK, ProgressOK, CountOK, WireOK, MessageOK
    <2> QED BY <1>1, <2>2, <2>3, TakeJobPool DEF IInv
  <1>2. ASSUME NEW s \in Stream, Begin(s) PROVE IInv'
    <2>1. stage[s] = "idle" /\ UNCHANGED <<synthVars, playVars, open>>
      BY <1>2 DEF Begin
    <2>2. Submit(s, "asr") \/ Submit(s, "llm") \/ Leave(s, "done")
      BY <1>2 DEF Begin, Transcribed
    <2>3. CASE Submit(s, "asr")
      BY <2>1, <2>3, SubmitStep
    <2>4. CASE Submit(s, "llm")
      BY <2>1, <2>4, SubmitStep
    <2>5. CASE Leave(s, "done")
      BY <2>1, <2>5, LeaveStep
    <2> QED BY <2>2, <2>3, <2>4, <2>5
  <1>3. ASSUME NEW s \in Stream, FinishReturns(s) PROVE IInv'
    <2>1. stage[s] = "asr" /\ s \in busy /\ UNCHANGED <<synthVars, playVars, open>>
      BY <1>3 DEF FinishReturns
    <2>2. Submit(s, "llm") \/ Leave(s, "done")
      BY <1>3 DEF FinishReturns, Transcribed
    <2>3. CASE Submit(s, "llm")
      BY <2>1, <2>3, SubmitStep
    <2>4. CASE Leave(s, "done")
      BY <2>1, <2>4, LeaveStep
    <2> QED BY <2>2, <2>3, <2>4
  <1>4. ASSUME NEW s \in Stream, LlmAnswers(s) PROVE IInv'
    <2>1. /\ stage[s] = "llm" /\ s \in busy /\ Submit(s, "tts")
          /\ UNCHANGED <<synthVars, playVars, open>>
      BY <1>4 DEF LlmAnswers
    <2> QED BY <2>1, SubmitStep
  <1>5. ASSUME NEW s \in Stream, LlmGivesNothing(s) \/ PiperMissing(s) PROVE IInv'
    <2>1. /\ stage[s] \in {"llm", "tts"} /\ s \in busy /\ Leave(s, "done")
          /\ UNCHANGED <<synthVars, playVars, open>>
      BY <1>5 DEF LlmGivesNothing, PiperMissing
    <2> QED BY <2>1, LeaveStep
  <1>6. ASSUME NEW s \in Stream, PiperStarts(s) PROVE IInv'
    <2>0. /\ stage \in [Stream -> Stages] /\ stage[s] = "tts" /\ s \in busy
          /\ stage' = [stage EXCEPT ![s] = "piper"] /\ tmp' = tmp \cup {s}
          /\ UNCHANGED <<queue, busy, hung, audio, playVars, open>>
      BY <1>6 DEF IInv, PoolOK, PiperStarts, GoesTo, poolVars
    <2>1. /\ stage'[s] = "piper" /\ \A t \in Stream : t # s => stage'[t] = stage[t]
          /\ stage' \in [Stream -> Stages] /\ Queued' = Queued
      BY <2>0 DEF Stages, Pooled, Queued
    <2>2. PoolOK'
      <3>1. busy' \cup Queued' = {t \in Stream : stage'[t] \in Pooled}
        <4>1. \A t \in Stream : stage'[t] \in Pooled <=> stage[t] \in Pooled
          BY <2>0, <2>1 DEF Pooled
        <4> QED BY <2>0, <2>1, <4>1 DEF IInv, PoolOK
      <3>2. \A t \in Stream : stage'[t] = "piper" => t \in busy'
        BY <2>0, <2>1 DEF IInv, PoolOK
      <3> QED BY <2>0, <2>1, <3>1, <3>2 DEF IInv, PoolOK
    <2>3. SynthOK'
      BY <2>0, <2>1 DEF IInv, SynthOK
    <2>4. PlayOK'
      <3>1. "piper" \in {"done"} \cup Pooled /\ stage[s] \notin {"play", "done"}
        BY <2>0 DEF Pooled
      <3> QED BY <2>0, <3>1, QuietPlay DEF IInv
    <2> QED BY <2>2, <2>3, <2>4 DEF IInv
  <1>7. ASSUME NEW s \in Stream, PiperHangs(s) PROVE IInv'
    <2>1. /\ stage[s] = "piper" /\ hung' = hung \cup {s}
          /\ UNCHANGED <<stage, queue, busy, tmp, audio, sent, wire, open>>
      BY <1>7 DEF PiperHangs, poolVars, playVars
    <2>2. PoolOK'
      BY <2>1 DEF IInv, PoolOK, Queued
    <2>3. SynthOK'
      BY <2>1 DEF IInv, SynthOK
    <2>4. PlayOK'
      BY <2>1 DEF IInv, PlayOK, PlayTypeOK, ProgressOK, CountOK, WireOK, MessageOK
    <2> QED BY <2>2, <2>3, <2>4 DEF IInv
  <1>8. ASSUME NEW s \in Stream, NEW n \in 0..MaxFrames, PiperEnds(s, n) PROVE IInv'
    <2> DEFINE next == IF n = 0 THEN "done" ELSE "play"
    <2>0. /\ stage \in [Stream -> Stages] /\ stage[s] = "piper" /\ s \notin hung
          /\ Leave(s, next) /\ stage' = [stage EXCEPT ![s] = next]
          /\ tmp' = tmp \ {s} /\ hung' = hung
      BY <1>8 DEF IInv, PoolOK, PiperEnds, Leave, GoesTo, Remaining
    <2>1. PoolOK'
      <3>1. s \in busy /\ next \in {"play", "done"}
        BY <2>0 DEF IInv, PoolOK
      <3> HIDE DEF next
      <3> QED BY <2>0, <3>1, LeavePool DEF IInv
    <2>2. SynthOK'
      <3>1. \A t \in Stream : t # s => stage'[t] = stage[t]
        BY <2>0
      <3> QED BY <2>0, <3>1 DEF IInv, SynthOK
    <2>3. PlayOK'
      BY <1>8, PiperEndsPlay
    <2> QED BY <2>1, <2>2, <2>3 DEF IInv
  <1>9. ASSUME NEW s \in Stream, SendNext(s) PROVE IInv'
    <2> DEFINE next == IF sent[s] > audio[s] THEN "done" ELSE "play"
    <2>1. /\ stage[s] \in {"play", "done"} /\ stage' = [stage EXCEPT ![s] = next]
          /\ next \in {"play", "done"} /\ UNCHANGED <<queue, busy, hung, tmp>>
      BY <1>9 DEF IInv, PoolOK, SendNext, Finished, GoesTo, poolVars, synthVars
    <2>2. PoolOK' /\ SynthOK'
      <3> HIDE DEF next
      <3> QED BY <2>1, OutsidePool DEF IInv
    <2> QED BY <1>9, <2>2, SendNextPlay DEF IInv
  <1>10. ASSUME NEW s \in Stream, SendRaises(s) PROVE IInv'
    <2>1. /\ stage[s] \in {"play", "done"} /\ stage' = [stage EXCEPT ![s] = "done"]
          /\ UNCHANGED <<queue, busy, hung, tmp>>
      BY <1>10 DEF SendRaises, GoesTo, poolVars, synthVars
    <2>2. PoolOK' /\ SynthOK'
      BY <2>1, OutsidePool DEF IInv
    <2> QED BY <1>10, <2>2, SendRaisesPlay DEF IInv
  <1>11. ASSUME NEW c \in Conn, Close(c) PROVE IInv'
    <2>1. UNCHANGED <<stage, queue, busy, hung, tmp>>
      BY <1>11 DEF Close, poolVars, synthVars
    <2>2. PoolOK' /\ SynthOK'
      BY <2>1 DEF IInv, PoolOK, SynthOK, Queued
    <2> QED BY <1>11, <2>2, ClosePlay DEF IInv
  <1>12. CASE UNCHANGED vars
    <2>1. UNCHANGED <<stage, queue, busy, hung, tmp, audio, sent, wire, open>>
      BY <1>12 DEF vars, poolVars, synthVars, playVars
    <2>2. PoolOK' /\ SynthOK'
      BY <2>1 DEF IInv, PoolOK, SynthOK, Queued
    <2>3. PlayOK'
      BY <2>1 DEF IInv, PlayOK, PlayTypeOK, ProgressOK, CountOK, WireOK, MessageOK
    <2> QED BY <2>2, <2>3 DEF IInv
  <1> QED
    BY <1>1, <1>2, <1>3, <1>4, <1>5, <1>6, <1>7, <1>8, <1>9, <1>10, <1>11, <1>12
       DEF Next, Step

\* The invariant holds of every reachable state.
LEMMA Invariance == Spec => []IInv
  BY InitIInv, NextIInv, PTL DEF Spec

-----------------------------------------------------------------------------
(* The theorems *)

\* Types, and at most one job of a pipeline in the pool: waiting, or with one of
\* PoolSize threads.
THEOREM TypeCorrect == Spec => []TypeOK
  <1>1. IInv => TypeOK
    <2> SUFFICES ASSUME IInv PROVE TypeOK
      OBVIOUS
    <2>1. hung \subseteq busy /\ tmp \subseteq Stream
      BY DEF IInv, PoolOK, SynthOK
    <2> QED BY <2>1 DEF IInv, PoolOK, PlayOK, PlayTypeOK, TypeOK, Stages, Pooled
  <1> QED BY Invariance, <1>1, PTL

\* The playbacks of a connection may interleave message by message and stop where
\* it closes: under each id, the device hears a beginning of that playback.
THEOREM PlaybacksInOrder == Spec => []PlaybackInOrder
  <1>1. IInv => PlaybackInOrder
    <2> SUFFICES ASSUME IInv, NEW c \in Conn, NEW i \in 1..Len(wire[c])
                 PROVE  LET s == wire[c][i].audio_id
                            k == Heard(wire[c], s, i)
                        IN  /\ ConnOf[s] = c /\ k \in 1..Len(Playback(s, audio[s]))
                            /\ wire[c][i] = Playback(s, audio[s])[k]
      BY DEF PlaybackInOrder
    <2> DEFINE s == wire[c][i].audio_id
    <2>1. MessageOK(c, i)
      BY DEF IInv, PlayOK, WireOK
    <2>2. s \in Stream
      <3>1. wire[c][i] \in Message
        BY DEF IInv, PlayOK, PlayTypeOK
      <3> QED BY <3>1 DEF Message
    <2>3. audio[s] \in Nat /\ audio[s] >= 1
      <3>1. audio \in [Stream -> 0..MaxFrames] /\ MaxFrames \in Nat
        BY PipelineAssumption DEF IInv, PlayOK, PlayTypeOK
      <3> QED BY <2>1, <2>2, <3>1 DEF MessageOK
    <2>4. Len(Playback(s, audio[s])) = audio[s] + 2
      <3> HIDE DEF s
      <3> QED BY <2>3, PlaybackLength
    <2> QED BY <2>1, <2>4 DEF MessageOK
  <1> QED BY Invariance, <1>1, PTL

\* A pipeline that ends has played all of its answer, or its connection is closed,
\* or the answer is longer than seq can count and all that seq can count is sent.
THEOREM AnswersComplete == Spec => []AnswerComplete
  <1>1. IInv => AnswerComplete
    <2> SUFFICES ASSUME IInv, NEW s \in Stream, stage[s] = "done"
                 PROVE  LET c == ConnOf[s]
                            n == Heard(wire[c], s, Len(wire[c]))
                        IN  \/ n = Len(Playback(s, audio[s]))
                            \/ c \notin open
                            \/ audio[s] > MaxSeq + 1 /\ n = MaxSeq + 2
      BY DEF AnswerComplete
    <2>1. Heard(wire[ConnOf[s]], s, Len(wire[ConnOf[s]])) = sent[s]
      BY DEF IInv, PlayOK, CountOK
    <2>2. audio[s] \in Nat
      BY PipelineAssumption DEF IInv, PlayOK, PlayTypeOK
    <2>3. \/ sent[s] = (IF audio[s] = 0 THEN 0 ELSE audio[s] + 2)
          \/ ConnOf[s] \notin open
          \/ audio[s] > MaxSeq + 1 /\ sent[s] = MaxSeq + 2
      BY DEF IInv, PlayOK, ProgressOK
    <2>4. Len(Playback(s, audio[s])) = IF audio[s] = 0 THEN 0 ELSE audio[s] + 2
      BY <2>2, PlaybackLength
    <2> QED BY <2>1, <2>3, <2>4
  <1> QED BY Invariance, <1>1, PTL

\* A temporary WAV is there only while its Piper process runs.
THEOREM TempsRemoved == Spec => []NoTempLeft
  <1>1. IInv => NoTempLeft
    BY DEF IInv, SynthOK, NoTempLeft
  <1> QED BY Invariance, <1>1, PTL

-----------------------------------------------------------------------------
(* That pipelines end, without fairness: the pool always has a job it can give a *)
(* thread or a job that can end, and no pipeline can take more than so many steps *)

\* A pipeline that awaits the pool, and is not the one whose process hangs, never
\* waits for hanging jobs only, if fewer of them hang than the pool has threads:
\* a thread is free for the next job, or a running job does not hang.
PoolMoves ==
  \A s \in Stream :
    stage[s] \in Pooled /\ s \notin hung =>
      \/ Cardinality(hung) >= PoolSize
      \/ queue # <<>> /\ Cardinality(busy) < PoolSize
      \/ \E t \in busy : t \notin hung

\* Of the threads of the pool, one that does not hang has work or can take some.
THEOREM PoolNeverStalls == Spec => []PoolMoves
  <1>1. IInv => PoolMoves
    <2> SUFFICES ASSUME IInv, NEW s \in Stream, stage[s] \in Pooled, s \notin hung,
                        ~(Cardinality(hung) >= PoolSize), \A t \in busy : t \in hung
                 PROVE  queue # <<>> /\ Cardinality(busy) < PoolSize
      BY DEF PoolMoves
    <2>1. hung \subseteq busy
      BY DEF IInv, PoolOK, SynthOK
    <2>2. hung = busy
      BY <2>1
    <2>3. Cardinality(busy) \in Nat /\ PoolSize \in Nat
      BY FS_CardinalityType, PipelineAssumption DEF IInv, PoolOK
    <2>4. Cardinality(busy) < PoolSize
      BY <2>2, <2>3
    <2>5. s \in Queued
      BY <2>2 DEF IInv, PoolOK
    <2>6. queue # <<>>
      BY <2>5 DEF Queued
    <2> QED BY <2>4, <2>6
  <1> QED BY Invariance, <1>1, PTL

\* How far a stage is from the end.
Ahead(st) ==
  CASE st = "idle"  -> 6 [] st = "asr"  -> 5 [] st = "llm"  -> 4 [] st = "tts" -> 3
  []   st = "piper" -> 2 [] st = "play" -> 1 [] OTHER -> 0

\* What a pipeline has before it at most: stages, messages, and one hang.
StepsLeft(s) ==
  Ahead(stage[s]) + (MaxFrames + 2 - sent[s]) + (IF s \in hung THEN 0 ELSE 1)

\* Every step of a pipeline brings it nearer to its end, and no step of another,
\* of the pool or of a connection takes it back.
RunsOut ==
  \A s \in Stream :
    /\ StepsLeft(s) \in 0..(MaxFrames + 9)
    /\ StepsLeft(s)' \in 0..StepsLeft(s)
    /\ Step(s) => StepsLeft(s)' < StepsLeft(s)

LEMMA AheadRange ==
  ASSUME NEW st PROVE Ahead(st) \in 0..6
  BY DEF Ahead

\* What a step does to its own pipeline, and leaves alone of the others'.
Advances(t) ==
  /\ \A s \in Stream \ {t} :
       stage'[s] = stage[s] /\ sent'[s] = sent[s] /\ (s \in hung' <=> s \in hung)
  /\ \/ Ahead(stage'[t]) < Ahead(stage[t]) /\ sent'[t] = sent[t] /\ hung' = hung
     \/ stage'[t] = stage[t] /\ sent'[t] = sent[t] /\ t \notin hung /\ t \in hung'
     \/ Ahead(stage'[t]) <= Ahead(stage[t]) /\ sent'[t] = sent[t] + 1 /\ hung' = hung

LEMMA GoAdvances ==
  ASSUME IInv, NEW t \in Stream, NEW next, stage' = [stage EXCEPT ![t] = next],
         Ahead(next) < Ahead(stage[t]), UNCHANGED <<sent, hung>>
  PROVE  Advances(t)
  <1>1. stage \in [Stream -> Stages]
    BY DEF IInv, PoolOK
  <1>2. stage'[t] = next /\ \A s \in Stream \ {t} : stage'[s] = stage[s]
    BY <1>1
  <1> QED BY <1>2 DEF Advances

LEMMA StepAdvances ==
  ASSUME IInv, NEW t \in Stream, Step(t) PROVE Advances(t)
  <1>0. /\ stage \in [Stream -> Stages] /\ sent \in [Stream -> 0..(MaxFrames + 2)]
        /\ MaxFrames \in Nat
    BY PipelineAssumption DEF IInv, PoolOK, PlayOK, PlayTypeOK
  <1>1. CASE Begin(t)
    <2>1. PICK next \in {"asr", "llm", "done"} : stage' = [stage EXCEPT ![t] = next]
      BY <1>1 DEF Begin, Transcribed, Submit, Leave, GoesTo
    <2>2. Ahead(next) < Ahead(stage[t]) /\ UNCHANGED <<sent, hung>>
      BY <1>1 DEF Begin, Ahead, playVars, synthVars
    <2> QED BY <2>1, <2>2, GoAdvances
  <1>2. CASE FinishReturns(t)
    <2>1. PICK next \in {"llm", "done"} : stage' = [stage EXCEPT ![t] = next]
      BY <1>2 DEF FinishReturns, Transcribed, Submit, Leave, GoesTo
    <2>2. Ahead(next) < Ahead(stage[t]) /\ UNCHANGED <<sent, hung>>
      BY <1>2 DEF FinishReturns, Ahead, playVars, synthVars
    <2> QED BY <2>1, <2>2, GoAdvances
  <1>3. CASE LlmAnswers(t)
    <2>1. stage' = [stage EXCEPT ![t] = "tts"]
      BY <1>3 DEF LlmAnswers, Submit, GoesTo
    <2>2. Ahead("tts") < Ahead(stage[t]) /\ UNCHANGED <<sent, hung>>
      BY <1>3 DEF LlmAnswers, Ahead, playVars, synthVars
    <2> QED BY <2>1, <2>2, GoAdvances
  <1>4. CASE LlmGivesNothing(t) \/ PiperMissing(t)
    <2>1. stage' = [stage EXCEPT ![t] = "done"]
      BY <1>4 DEF LlmGivesNothing, PiperMissing, Leave, GoesTo
    <2>2. Ahead("done") < Ahead(stage[t]) /\ UNCHANGED <<sent, hung>>
      BY <1>4 DEF LlmGivesNothing, PiperMissing, Ahead, playVars, synthVars
    <2> QED BY <2>1, <2>2, GoAdvances
  <1>5. CASE PiperStarts(t)
    <2>1. stage' = [stage EXCEPT ![t] = "piper"]
      BY <1>5 DEF PiperStarts, GoesTo
    <2>2. Ahead("piper") < Ahead(stage[t]) /\ UNCHANGED <<sent, hung>>
      BY <1>5 DEF PiperStarts, Ahead, playVars
    <2> QED BY <2>1, <2>2, GoAdvances
  <1>6. CASE PiperHangs(t)
    BY <1>6 DEF PiperHangs, playVars, Advances
  <1>7. ASSUME NEW n \in 0..MaxFrames, PiperEnds(t, n) PROVE Advances(t)
    <2>1. PICK next \in {"play", "done"} : stage' = [stage EXCEPT ![t] = next]
      BY <1>7 DEF PiperEnds, Leave, GoesTo
    <2>2. Ahead(next) < Ahead(stage[t]) /\ UNCHANGED <<sent, hung>>
      BY <1>7 DEF PiperEnds, Ahead, playVars
    <2> QED BY <2>1, <2>2, GoAdvances
  <1>8. CASE SendNext(t)
    <2>1. /\ stage[t] = "play" /\ sent' = [sent EXCEPT ![t] = @ + 1] /\ hung' = hung
          /\ stage' = stage \/ stage' = [stage EXCEPT ![t] = "done"]
      BY <1>8 DEF SendNext, GoesTo, synthVars
    <2>2. /\ sent'[t] = sent[t] + 1
          /\ \A s \in Stream \ {t} : sent'[s] = sent[s] /\ stage'[s] = stage[s]
      BY <1>0, <2>1
    <2>3. Ahead(stage'[t]) <= Ahead(stage[t])
      BY <1>0, <2>1 DEF Ahead
    <2> QED BY <2>1, <2>2, <2>3 DEF Advances
  <1>9. CASE SendRaises(t)
    <2>1. stage' = [stage EXCEPT ![t] = "done"]
      BY <1>9 DEF SendRaises, GoesTo
    <2>2. Ahead("done") < Ahead(stage[t]) /\ UNCHANGED <<sent, hung>>
      BY <1>9 DEF SendRaises, Ahead, playVars, synthVars
    <2> QED BY <2>1, <2>2, GoAdvances
  <1> QED BY <1>1, <1>2, <1>3, <1>4, <1>5, <1>6, <1>7, <1>8, <1>9 DEF Step

\* A pipeline is done after at most MaxFrames + 9 steps of its own, whatever the
\* others do meanwhile: with PoolNeverStalls, what is left to fairness is only
\* that the steps there are will be taken.
THEOREM PipelinesRunOut == Spec => [][RunsOut]_vars
  <1>1. ASSUME IInv, IInv', [Next]_vars, NEW s \in Stream
        PROVE  /\ StepsLeft(s) \in 0..(MaxFrames + 9)
               /\ StepsLeft(s)' \in 0..StepsLeft(s)
               /\ Step(s) => StepsLeft(s)' < StepsLeft(s)
    <2>1. /\ sent[s] \in 0..(MaxFrames + 2) /\ sent'[s] \in 0..(MaxFrames + 2)
          /\ MaxFrames \in Nat
      BY <1>1, PipelineAssumption DEF IInv, PlayOK, PlayTypeOK
    <2>2. Ahead(stage[s]) \in 0..6 /\ Ahead(stage'[s]) \in 0..6
      BY AheadRange
    <2>3. StepsLeft(s)' = Ahead(stage'[s]) + (MaxFrames + 2 - sent'[s])
                            + (IF s \in hung' THEN 0 ELSE 1)
      BY DEF StepsLeft, Ahead
    <2>4. StepsLeft(s) \in 0..(MaxFrames + 9) /\ StepsLeft(s)' \in Nat
      BY <2>1, <2>2, <2>3 DEF StepsLeft
    <2>5. ASSUME Step(s) PROVE StepsLeft(s)' < StepsLeft(s)
      <3>1. Advances(s)
        BY <1>1, <2>5, StepAdvances
      <3>2. \/ Ahead(stage'[s]) < Ahead(stage[s]) /\ sent'[s] = sent[s] /\ hung' = hung
            \/ stage'[s] = stage[s] /\ sent'[s] = sent[s] /\ s \notin hung /\ s \in hung'
            \/ Ahead(stage'[s]) <= Ahead(stage[s]) /\ sent'[s] = sent[s] + 1 /\ hung' = hung
        BY <3>1 DEF Advances
      <3> QED BY <2>1, <2>2, <2>3, <3>2 DEF StepsLeft
    <2>6. ASSUME NEW t \in Stream, t # s, Step(t) PROVE StepsLeft(s)' = StepsLeft(s)
      <3>1. Advances(t)
        BY <1>1, <2>6, StepAdvances
      <3>2. stage'[s] = stage[s] /\ sent'[s] = sent[s] /\ (s \in hung' <=> s \in hung)
        BY <2>6, <3>1 DEF Advances
      <3> QED BY <2>1, <2>2, <2>3, <3>2 DEF StepsLeft
    <2>7. CASE TakeJob \/ (\E c \in Conn : Close(c)) \/ UNCHANGED vars
      <3>1. UNCHANGED <<stage, sent, hung>>
        BY <2>7 DEF TakeJob, Close, vars, synthVars, playVars
      <3> QED BY <2>5, <2>4, <2>1, <2>2, <2>3, <3>1 DEF StepsLeft
    <2> QED BY <1>1, <2>4, <2>5, <2>6, <2>7 DEF Next
  <1>2. IInv /\ IInv' /\ [Next]_vars => [RunsOut]_vars
    BY <1>1 DEF RunsOut
  <1> QED BY Invariance, <1>2, PTL DEF Spec
=============================================================================
