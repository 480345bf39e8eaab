------------------------- MODULE LaptopClientProofs -------------------------
(***************************************************************************)
(* The laptop client sends the capture and saves what it sends, for every  *)
(* size of the pre-buffer and any number of frames.                        *)
(*                                                                         *)
(* The audio task hands the frames on from the queue to the pre-buffer and *)
(* from there, or directly, to the wire.  What makes the stream whole is   *)
(* that no frame is taken from the queue between the detection and the     *)
(* live loop, and that every frame taken in the live loop is sent or ends  *)
(* it: so the number of frames taken and the number sent determine each    *)
(* other as long as the stream lasts (LiveInv).                            *)
(***************************************************************************)
EXTENDS LaptopClient, TLAPS

Taken == captured - Len(audio_queue)

\* buffer holds the frames up to last, as many as the pre-buffer has room for.
Holds(buffer, last) ==
  /\ Len(buffer) = IF last <= PrebufferFrames THEN last ELSE PrebufferFrames
  /\ \A i \in 1..Len(buffer) : buffer[i] = last - Len(buffer) + i

FramesOf(sent) == [i \in 1..Len(sent) |-> sent[i].frame]

Starting == {"connect", "hello", "prebuffer"}
LoopSteps == {"loop", "live"}
Ending == {"stop", "close"}

QueueInv ==
  /\ Len(audio_queue) <= captured
  /\ \A i \in 1..Len(audio_queue) : audio_queue[i] = Taken + i

IdleInv == ~keyword_detected =>
  /\ pc \notin Starting \cup LoopSteps \cup Ending
  /\ detected = NoFrame /\ wire = <<>> /\ saved = NoFile
  /\ Holds(prebuffer, Taken)

DetectedInv == keyword_detected => detected \in Captured /\ detected >= 2

StartInv == pc \in Starting =>
  /\ Taken = detected
  /\ Holds(prebuffer, detected - 1)
  /\ pc # "prebuffer" => wire = <<>>
  /\ pc = "prebuffer" => Len(wire) < Before /\ stream_frames = prebuffer

LiveInv == pc \in LoopSteps =>
  Len(wire) >= Before /\ Taken = detected + Len(wire) - Before

RecordInv ==
  /\ pc \in LoopSteps \cup Ending => stream_frames = FramesOf(wire)
  /\ pc \in Starting \cup LoopSteps \cup Ending => saved = NoFile

ClientInv ==
  /\ TypeOK /\ QueueInv /\ IdleInv /\ DetectedInv /\ StartInv /\ LiveInv
  /\ RecordInv /\ WireIsTheCapture /\ SavedIsSent

-----------------------------------------------------------------------------
\* Taking a frame from the queue: the next one in the order of the capture.
LEMMA TakeNext ==
  ASSUME TypeOK, QueueInv, audio_queue # <<>>,
         audio_queue' = Tail(audio_queue), captured' = captured
  PROVE  /\ Head(audio_queue) = Taken + 1
         /\ Head(audio_queue) \in Captured
         /\ Taken \in Nat /\ Taken' = Taken + 1
         /\ audio_queue' \in Seq(Captured)
         /\ QueueInv'
  <1> DEFINE q == audio_queue
  <1>1. q \in Seq(Captured) /\ captured \in Nat
    BY FramesAssumption DEF TypeOK
  <1>2. Len(q) \in Nat /\ Len(q) >= 1 /\ q[1] \in Captured /\ Head(q) = q[1]
    BY <1>1
  <1>3. /\ Tail(q) \in Seq(Captured) /\ Len(Tail(q)) = Len(q) - 1
        /\ \A i \in 1..Len(Tail(q)) : Tail(q)[i] = q[i + 1]
    BY <1>1, <1>2
  <1>4. Taken \in Nat /\ Taken' = Taken + 1
    BY <1>1, <1>2, <1>3 DEF Taken, QueueInv
  <1>5. q[1] = Taken + 1
    BY <1>2 DEF QueueInv
  <1>6. ASSUME NEW i \in 1..Len(Tail(q))
        PROVE  Tail(q)[i] = Taken' + i
    <2>1. i + 1 \in 1..Len(q)
      BY <1>2, <1>3
    <2>2. q[i + 1] = Taken + (i + 1)
      BY <2>1 DEF QueueInv
    <2> QED BY <2>2, <1>3, <1>4
  <1>7. Len(Tail(q)) <= captured
    BY <1>1, <1>2, <1>3 DEF QueueInv
  <1> QED BY <1>2, <1>3, <1>4, <1>5, <1>6, <1>7 DEF QueueInv

\* The pre-buffer goes on holding the latest frames.
LEMMA HoldsNext ==
  ASSUME NEW last \in Nat, prebuffer \in Seq(Captured), Holds(prebuffer, last),
         NEW frame \in Captured, frame = last + 1
  PROVE  /\ PrebufferAfter(frame) \in Seq(Captured)
         /\ Len(PrebufferAfter(frame)) <= PrebufferFrames
         /\ Holds(PrebufferAfter(frame), last + 1)
  <1> USE FramesAssumption
  <1>1. CASE Len(prebuffer) < PrebufferFrames
    <2>1. PrebufferAfter(frame) = Append(prebuffer, frame)
      BY <1>1 DEF PrebufferAfter
    <2>2. Len(prebuffer) = last /\ last < PrebufferFrames
      BY <1>1 DEF Holds
    <2>3. /\ Append(prebuffer, frame) \in Seq(Captured)
          /\ Len(Append(prebuffer, frame)) = last + 1
          /\ \A i \in 1..last : Append(prebuffer, frame)[i] = prebuffer[i]
          /\ Append(prebuffer, frame)[last + 1] = frame
      BY <2>2
    <2>4. \A i \in 1..last : prebuffer[i] = i
      BY <2>2 DEF Holds
    <2>5. \A i \in 1..(last + 1) : Append(prebuffer, frame)[i] = i
      BY <2>3, <2>4
    <2>6. Len(PrebufferAfter(frame)) = last + 1 /\ last + 1 <= PrebufferFrames
      BY <2>1, <2>2, <2>3
    <2>7. \A i \in 1..(last + 1) : PrebufferAfter(frame)[i] = last + 1 - (last + 1) + i
      BY <2>1, <2>5
    <2>8. Holds(PrebufferAfter(frame), last + 1)
      BY <2>6, <2>7 DEF Holds
    <2> QED BY <2>1, <2>3, <2>6, <2>8
  <1>2. CASE Len(prebuffer) >= PrebufferFrames
    <2> DEFINE n == PrebufferFrames
    <2>1. PrebufferAfter(frame) = Append(Tail(prebuffer), frame)
      BY <1>2 DEF PrebufferAfter
    <2>2. Len(prebuffer) = n /\ last >= n /\ n \in Nat /\ n >= 1
      BY <1>2 DEF Holds
    <2>3. prebuffer # <<>>
      BY <2>2
    <2>4. /\ Tail(prebuffer) \in Seq(Captured) /\ Len(Tail(prebuffer)) = n - 1
          /\ \A i \in 1..(n - 1) : Tail(prebuffer)[i] = prebuffer[i + 1]
      BY <2>2, <2>3
    <2>5. /\ Append(Tail(prebuffer), frame) \in Seq(Captured)
          /\ Len(Append(Tail(prebuffer), frame)) = n
          /\ \A i \in 1..(n - 1) : Append(Tail(prebuffer), frame)[i] = prebuffer[i + 1]
          /\ Append(Tail(prebuffer), frame)[n] = frame
      BY <2>2, <2>4
    <2>6. \A i \in 1..(n - 1) : prebuffer[i + 1] = last - n + (i + 1)
      BY <2>2 DEF Holds
    <2>7. \A i \in 1..n : Append(Tail(prebuffer), frame)[i] = last + 1 - n + i
      BY <2>2, <2>5, <2>6
    <2>8. Len(PrebufferAfter(frame)) = n
          /\ n = (IF last + 1 <= PrebufferFrames THEN last + 1 ELSE PrebufferFrames)
      BY <2>1, <2>2, <2>5
    <2>9. \A i \in 1..Len(PrebufferAfter(frame)) :
            PrebufferAfter(frame)[i] = last + 1 - Len(PrebufferAfter(frame)) + i
      BY <2>1, <2>7, <2>8
    <2>10. Holds(PrebufferAfter(frame), last + 1)
      BY <2>8, <2>9 DEF Holds
    <2> QED BY <2>1, <2>2, <2>5, <2>10
  <1>3. Len(prebuffer) \in Nat
    OBVIOUS
  <1> QED BY <1>1, <1>2, <1>3

\* At any time it stays within its bound.
LEMMA PrebufferStays ==
  ASSUME prebuffer \in Seq(Captured), Len(prebuffer) <= PrebufferFrames,
         NEW frame \in Captured
  PROVE  /\ PrebufferAfter(frame) \in Seq(Captured)
         /\ Len(PrebufferAfter(frame)) <= PrebufferFrames
  <1> USE FramesAssumption
  <1>1. CASE Len(prebuffer) < PrebufferFrames
    BY <1>1 DEF PrebufferAfter
  <1>2. CASE ~(Len(prebuffer) < PrebufferFrames)
    <2>1. prebuffer # <<>> /\ Len(prebuffer) = PrebufferFrames
      BY <1>2
    <2>2. Tail(prebuffer) \in Seq(Captured) /\ Len(Tail(prebuffer)) = PrebufferFrames - 1
      BY <2>1
    <2> QED BY <1>2, <2>2 DEF PrebufferAfter
  <1> QED BY <1>1, <1>2

\* One more frame sent is one more frame of the record.
LEMMA FramesAppend ==
  ASSUME NEW w \in Seq(Sent), NEW s \in Sent
  PROVE  Append(FramesOf(w), s.frame) = FramesOf(Append(w, s))
  <1> DEFINE n == Len(w)
  <1>1. /\ Len(Append(w, s)) = n + 1 /\ n \in Nat
        /\ \A i \in 1..n : Append(w, s)[i] = w[i]
        /\ Append(w, s)[n + 1] = s
    OBVIOUS
  <1>2. FramesOf(w) \in Seq(Captured) /\ Len(FramesOf(w)) = n
    <2>1. \A i \in 1..n : w[i] \in Sent
      OBVIOUS
    <2>2. \A i \in 1..n : w[i].frame \in Captured
      BY <2>1 DEF Sent
    <2> QED BY <2>2 DEF FramesOf
  <1>3. s.frame \in Captured
    BY DEF Sent
  <1>4. Append(FramesOf(w), s.frame) = [i \in 1..(n + 1) |-> IF i = n + 1 THEN s.frame ELSE FramesOf(w)[i]]
    BY <1>2, <1>3
  <1>5. \A i \in 1..(n + 1) :
          Append(w, s)[i].frame = IF i = n + 1 THEN s.frame ELSE FramesOf(w)[i]
    BY <1>1 DEF FramesOf
  <1>6. FramesOf(Append(w, s)) = [i \in 1..(n + 1) |-> Append(w, s)[i].frame]
    BY <1>1 DEF FramesOf
  <1> QED BY <1>4, <1>5, <1>6


Kept == <<captured, audio_queue, prebuffer, keyword_detected, detected,
          stream_frames, wire, saved>>

\* Where the task may go from pc without having done anything that is recorded.
MovesTo(next) ==
  \/ next \in {pc, "listen", "fetch", "ended"}
  \/ pc = "connect" /\ next = "hello"
  \/ pc \in LoopSteps /\ next \in LoopSteps \cup {"stop"}
  \/ pc = "stop" /\ next = "close"

\* Such a step preserves the invariant.
LEMMA MovePreserves ==
  ASSUME ClientInv, TypeOK', UNCHANGED Kept, MovesTo(pc')
  PROVE  ClientInv'
  <1>1. QueueInv' /\ DetectedInv' /\ SavedIsSent'
    BY DEF ClientInv, QueueInv, Taken, DetectedInv, SavedIsSent, Kept
  <1>2. WireIsTheCapture'
    BY DEF ClientInv, WireIsTheCapture, Before, Kept
  <1>3. IdleInv'
    BY DEF ClientInv, IdleInv, Taken, Holds, Kept, MovesTo, Starting, LoopSteps, Ending
  <1>4. StartInv'
    BY DEF ClientInv, StartInv, Taken, Holds, Before, Kept, MovesTo, Starting, LoopSteps
  <1>5. LiveInv'
    BY DEF ClientInv, LiveInv, Taken, Before, Kept, MovesTo, Starting, LoopSteps
  <1>6. RecordInv'
    BY DEF ClientInv, RecordInv, FramesOf, Kept, MovesTo, Starting, LoopSteps, Ending
  <1> QED BY <1>1, <1>2, <1>3, <1>4, <1>5, <1>6 DEF ClientInv

\* The microphone only adds to the queue.
LEMMA CallbackPreserves == ClientInv /\ AudioCallback => ClientInv'
  <1> SUFFICES ASSUME ClientInv, AudioCallback PROVE ClientInv'
    OBVIOUS
  <1> USE FramesAssumption
  <1> DEFINE q == audio_queue
  <1>1. /\ captured \in Nat /\ captured < MaxFrames /\ captured' = captured + 1
        /\ captured' \in Captured
        /\ q \in Seq(Captured) /\ q' = Append(q, captured')
    BY DEF ClientInv, TypeOK, AudioCallback, Captured
  <1>2. /\ q' \in Seq(Captured) /\ Len(q') = Len(q) + 1 /\ Len(q) \in Nat
        /\ \A i \in 1..Len(q) : q'[i] = q[i]
        /\ q'[Len(q) + 1] = captured + 1
    BY <1>1
  <1>3. Taken' = Taken
    BY <1>1, <1>2 DEF Taken
  <1>4. QueueInv'
    <2>1. Len(q) <= captured /\ \A i \in 1..Len(q) : q[i] = Taken + i
      BY DEF ClientInv, QueueInv
    <2>2. Taken + (Len(q) + 1) = captured + 1
      BY <1>1, <1>2 DEF Taken
    <2>3. \A i \in 1..Len(q') : q'[i] = Taken + i
      BY <1>2, <2>1, <2>2
    <2> QED BY <1>1, <1>2, <1>3, <2>1, <2>3 DEF QueueInv
  <1>5. UNCHANGED <<prebuffer, keyword_detected, streaming_event, stream_frames, pc,
                    detected, wire, saved, stop_event, websocket, main>>
    BY DEF AudioCallback, taskVars
  <1>6. TypeOK'
    BY <1>1, <1>2, <1>5 DEF ClientInv, TypeOK, Captured, Sent
  <1>7. DetectedInv' /\ SavedIsSent' /\ RecordInv'
    BY <1>5 DEF ClientInv, DetectedInv, SavedIsSent, RecordInv, FramesOf
  <1>8. WireIsTheCapture'
    BY <1>5 DEF ClientInv, WireIsTheCapture, Before
  <1>9. IdleInv' /\ StartInv' /\ LiveInv'
    BY <1>3, <1>5 DEF ClientInv, IdleInv, StartInv, LiveInv, Holds, Before
  <1> QED BY <1>4, <1>6, <1>7, <1>8, <1>9 DEF ClientInv

\* A frame goes to the pre-buffer, before the detection or long after it.
LEMMA RememberPreserves == ClientInv /\ Remember => ClientInv'
  <1> SUFFICES ASSUME ClientInv, Remember PROVE ClientInv'
    OBVIOUS
  <1> DEFINE h == Head(audio_queue)
  <1>1. UNCHANGED <<captured, keyword_detected, detected, streaming_event,
                    stream_frames, wire, saved, stop_event, websocket, main>>
        /\ pc = "fetch" /\ pc' = "listen"
        /\ audio_queue # <<>> /\ audio_queue' = Tail(audio_queue)
        /\ prebuffer' = PrebufferAfter(h)
    BY DEF Remember, Streamed, Goto
  <1>2. /\ h = Taken + 1 /\ h \in Captured /\ Taken \in Nat /\ Taken' = Taken + 1
        /\ audio_queue' \in Seq(Captured) /\ QueueInv'
    BY <1>1, TakeNext DEF ClientInv
  <1>3. prebuffer \in Seq(Captured) /\ Len(prebuffer) <= PrebufferFrames
    BY DEF ClientInv, TypeOK
  <1>4. ~keyword_detected => Holds(prebuffer', Taken')
    BY <1>1, <1>2, <1>3, HoldsNext DEF ClientInv, IdleInv
  <1>5. prebuffer' \in Seq(Captured) /\ Len(prebuffer') <= PrebufferFrames
    BY <1>1, <1>2, <1>3, PrebufferStays
  <1>6. TypeOK'
    BY <1>1, <1>2, <1>5 DEF ClientInv, TypeOK, Captured, Sent
  <1>7. DetectedInv' /\ SavedIsSent' /\ RecordInv'
    BY <1>1 DEF ClientInv, DetectedInv, SavedIsSent, RecordInv, FramesOf,
                Starting, LoopSteps, Ending
  <1>8. WireIsTheCapture'
    BY <1>1 DEF ClientInv, WireIsTheCapture, Before
  <1>9. IdleInv' /\ StartInv' /\ LiveInv'
    BY <1>1, <1>4 DEF ClientInv, IdleInv, StartInv, LiveInv, Starting, LoopSteps, Ending
  <1> QED BY <1>2, <1>6, <1>7, <1>8, <1>9 DEF ClientInv

\* The keyword: the pre-buffer holds the latest frames before it.
LEMMA DetectPreserves == ClientInv /\ DetectKeyword => ClientInv'
  <1> SUFFICES ASSUME ClientInv, DetectKeyword PROVE ClientInv'
    OBVIOUS
  <1> USE FramesAssumption
  <1>1. /\ UNCHANGED <<captured, prebuffer, streaming_event, stream_frames, wire,
                       saved, stop_event, websocket, main>>
        /\ ~keyword_detected /\ keyword_detected' = TRUE
        /\ pc' = "connect" /\ prebuffer # <<>>
        /\ audio_queue # <<>> /\ audio_queue' = Tail(audio_queue)
        /\ detected' = Head(audio_queue)
    BY DEF DetectKeyword, Streamed, Goto
  <1>2. /\ detected' = Taken + 1 /\ detected' \in Captured
        /\ Taken \in Nat /\ Taken' = Taken + 1
        /\ audio_queue' \in Seq(Captured) /\ QueueInv'
    BY <1>1, TakeNext DEF ClientInv
  <1>3. wire = <<>> /\ saved = NoFile /\ Holds(prebuffer, Taken)
    BY <1>1 DEF ClientInv, IdleInv
  <1>4. Taken >= 1
    <2>1. prebuffer \in Seq(Captured)
      BY DEF ClientInv, TypeOK
    <2>2. Len(prebuffer) >= 1
      BY <1>1, <2>1
    <2> QED BY <1>2, <1>3, <2>2 DEF Holds
  <1>5. TypeOK'
    BY <1>1, <1>2 DEF ClientInv, TypeOK, Captured, Sent
  <1>6. WireIsTheCapture' /\ SavedIsSent'
    <2>1. wire' = <<>> /\ saved' = NoFile
      BY <1>1, <1>3
    <2> QED BY <2>1 DEF WireIsTheCapture, SavedIsSent
  <1>7. DetectedInv'
    BY <1>2, <1>4 DEF DetectedInv
  <1>8. StartInv'
    <2>1. Taken' = detected' /\ detected' - 1 = Taken
      BY <1>2
    <2> QED BY <1>1, <1>3, <2>1 DEF StartInv, Holds
  <1>9. IdleInv' /\ LiveInv' /\ RecordInv'
    BY <1>1, <1>3 DEF IdleInv, LiveInv, RecordInv, LoopSteps, Ending
  <1> QED BY <1>2, <1>5, <1>6, <1>7, <1>8, <1>9 DEF ClientInv


\* The record starts with the pre-buffer.
LEMMA HandshakePreserves == ClientInv /\ Handshake => ClientInv'
  <1> SUFFICES ASSUME ClientInv, Handshake PROVE ClientInv'
    OBVIOUS
  <1>1. UNCHANGED <<captured, audio_queue, prebuffer, keyword_detected, detected,
                    streaming_event, wire, saved, main>> /\ pc = "hello"
    BY DEF Handshake, micVars
  <1>2. CASE /\ stream_frames' = prebuffer
             /\ pc' = "prebuffer" /\ UNCHANGED <<stop_event, websocket>>
    <2>1. TypeOK'
      BY <1>1, <1>2 DEF ClientInv, TypeOK
    <2>2. QueueInv' /\ DetectedInv' /\ SavedIsSent'
      BY <1>1 DEF ClientInv, QueueInv, Taken, DetectedInv, SavedIsSent
    <2>3. WireIsTheCapture'
      BY <1>1 DEF ClientInv, WireIsTheCapture, Before
    <2>4. /\ Taken = detected /\ Holds(prebuffer, detected - 1) /\ wire = <<>>
          /\ keyword_detected
      BY <1>1 DEF ClientInv, StartInv, IdleInv, Starting
    <2>5. Len(wire) < Before
      <3>1. detected \in Nat /\ detected >= 2
        BY <2>4 DEF ClientInv, DetectedInv, Captured
      <3> QED BY <2>4, <3>1, FramesAssumption DEF Before
    <2>6. StartInv'
      BY <1>1, <1>2, <2>4, <2>5 DEF StartInv, Taken, Holds, Before
    <2>7. IdleInv' /\ LiveInv' /\ RecordInv'
      BY <1>1, <1>2, <2>4 DEF ClientInv, IdleInv, LiveInv, RecordInv, Starting, LoopSteps, Ending
    <2> QED BY <2>1, <2>2, <2>3, <2>6, <2>7 DEF ClientInv
  <1>3. CASE /\ websocket' = "none" /\ stop_event' = TRUE
             /\ pc' = "listen" /\ UNCHANGED stream_frames
    <2>1. TypeOK'
      BY <1>1, <1>3 DEF ClientInv, TypeOK
    <2> QED BY <1>1, <1>3, <2>1, MovePreserves DEF Kept, MovesTo
  <1>4. CASE pc' = "listen" /\ UNCHANGED <<stop_event, websocket, stream_frames>>
    <2>1. TypeOK'
      BY <1>1, <1>4 DEF ClientInv, TypeOK
    <2> QED BY <1>1, <1>4, <2>1, MovePreserves DEF Kept, MovesTo
  <1> QED BY <1>2, <1>3, <1>4 DEF Handshake, Goto, RecordingAtStart

\* How many frames the pre-buffer held is how many were kept.
LEMMA BeforeValue ==
  ASSUME detected \in Nat, detected >= 2, Holds(prebuffer, detected - 1)
  PROVE  Len(prebuffer) = Before /\ Before \in Nat /\ Before >= 1 /\ Before < detected
  BY FramesAssumption DEF Holds, Before

\* The next frame of the right number keeps the wire in the order of the capture.
LEMMA WireNext ==
  ASSUME WireIsTheCapture, wire \in Seq(Sent), NEW s \in Sent,
         Before \in Nat, detected \in Nat,
         wire' = Append(wire, s), detected' = detected,
         s.seq = Len(wire), s.first = (wire = <<>>),
         s.frame = detected - Before + Len(wire) + (IF Len(wire) + 1 > Before THEN 1 ELSE 0)
  PROVE  WireIsTheCapture'
  <1> DEFINE n == Len(wire)
             Numbered(i) == [seq |-> i - 1, first |-> i = 1,
                             frame |-> detected - Before - 1 + i + (IF i > Before THEN 1 ELSE 0)]
  <1>1. /\ n \in Nat /\ Len(wire') = n + 1 /\ wire'[n + 1] = s
        /\ \A i \in 1..n : wire'[i] = wire[i]
    OBVIOUS
  <1>2. \A i \in 1..n : wire[i] = Numbered(i)
    BY DEF WireIsTheCapture
  <1>3. s = Numbered(n + 1)
    <2>1. s = [seq |-> s.seq, first |-> s.first, frame |-> s.frame]
      BY DEF Sent
    <2>2. (wire = <<>>) = (n + 1 = 1)
      <3>1. wire = <<>> <=> n = 0
        OBVIOUS
      <3> QED BY <1>1, <3>1
    <2>3. s.seq = n + 1 - 1
      BY <1>1
    <2>4. s.frame = detected - Before - 1 + (n + 1) + (IF n + 1 > Before THEN 1 ELSE 0)
      BY <1>1
    <2> QED BY <2>1, <2>2, <2>3, <2>4
  <1>4. Before' = Before
    BY DEF Before
  <1> HIDE DEF Numbered
  <1>5. \A i \in 1..(n + 1) : wire'[i] = Numbered(i)
    BY <1>1, <1>2, <1>3
  <1> QED BY <1>1, <1>4, <1>5 DEF WireIsTheCapture, Numbered

\* The pre-buffer is sent from its oldest frame to its latest.
LEMMA SendPrebufferPreserves == ClientInv /\ SendPrebuffer => ClientInv'
  <1> SUFFICES ASSUME ClientInv, SendPrebuffer PROVE ClientInv'
    OBVIOUS
  <1> DEFINE n == Len(wire)
             s == [seq |-> n, first |-> wire = <<>>, frame |-> prebuffer[n + 1]]
  <1>1. /\ UNCHANGED <<captured, audio_queue, prebuffer, keyword_detected, detected,
                       streaming_event, stream_frames, saved, stop_event, websocket, main>>
        /\ pc = "prebuffer" /\ wire' = Append(wire, s)
        /\ pc' = IF n + 1 = Len(prebuffer) THEN "loop" ELSE "prebuffer"
    BY DEF SendPrebuffer, Goto, micVars
  <1>2. /\ Taken = detected /\ Holds(prebuffer, detected - 1)
        /\ n < Before /\ stream_frames = prebuffer /\ keyword_detected
    BY <1>1 DEF ClientInv, StartInv, IdleInv, Starting
  <1>3. detected \in Nat /\ detected >= 2
    BY <1>2 DEF ClientInv, DetectedInv, Captured
  <1>4. Len(prebuffer) = Before /\ Before \in Nat /\ Before >= 1 /\ Before < detected
    BY <1>2, <1>3, BeforeValue
  <1>5. wire \in Seq(Sent) /\ n \in Nat /\ prebuffer \in Seq(Captured)
    BY DEF ClientInv, TypeOK
  <1>6. n + 1 \in 1..Len(prebuffer) /\ prebuffer[n + 1] \in Captured
    BY <1>2, <1>4, <1>5
  <1>7. prebuffer[n + 1] = detected - 1 - Before + (n + 1)
    BY <1>2, <1>4, <1>6 DEF Holds
  <1>8. s \in Sent
    BY <1>5, <1>6 DEF Sent
  <1>9. WireIsTheCapture'
    <2>1. s.seq = n /\ s.first = (wire = <<>>) /\ s.frame = prebuffer[n + 1]
      OBVIOUS
    <2>2. s.frame = detected - Before + n + (IF n + 1 > Before THEN 1 ELSE 0)
      BY <1>2, <1>3, <1>4, <1>5, <1>7
    <2> HIDE DEF s
    <2> QED BY <1>1, <1>3, <1>4, <1>5, <1>8, <2>1, <2>2, WireNext DEF ClientInv
  <1> HIDE DEF s
  <1>10. wire' \in Seq(Sent) /\ Len(wire') = n + 1
    BY <1>1, <1>5, <1>8
  <1>11. TypeOK'
    BY <1>1, <1>10 DEF ClientInv, TypeOK
  <1>12. QueueInv' /\ DetectedInv'
    BY <1>1 DEF ClientInv, QueueInv, Taken, DetectedInv
  <1>13. saved' = NoFile
    BY <1>1 DEF ClientInv, RecordInv, Starting
  <1>14. Before' = Before /\ Taken' = Taken
    BY <1>1 DEF Before, Taken
  <1>15. StartInv' /\ LiveInv'
    BY <1>1, <1>2, <1>3, <1>4, <1>5, <1>10, <1>14 DEF StartInv, LiveInv, Holds, Starting, LoopSteps
  <1>16. pc' = "loop" => stream_frames' = FramesOf(wire')
    <2> SUFFICES ASSUME pc' = "loop" PROVE prebuffer = FramesOf(wire')
      BY <1>1, <1>2
    <2>1. n + 1 = Before
      BY <1>1, <1>4
    <2>2. \A i \in 1..Before : prebuffer[i] = detected - 1 - Before + i
      BY <1>2, <1>4 DEF Holds
    <2>3. ASSUME NEW i \in 1..Before
          PROVE  wire'[i].frame = detected - Before - 1 + i + 0
      <3>1. i \in 1..Len(wire') /\ ~(i > Before)
        BY <1>4, <1>10, <2>1
      <3>2. wire'[i] = [seq |-> i - 1, first |-> i = 1,
                        frame |-> detected' - Before' - 1 + i + (IF i > Before' THEN 1 ELSE 0)]
        BY <1>9, <3>1 DEF WireIsTheCapture
      <3> QED BY <1>1, <1>14, <3>1, <3>2
    <2>4. prebuffer = [i \in 1..Before |-> prebuffer[i]]
      BY <1>4, <1>5
    <2>5. \A i \in 1..Before : prebuffer[i] = wire'[i].frame
      BY <1>3, <1>4, <2>2, <2>3
    <2>6. FramesOf(wire') = [i \in 1..Before |-> wire'[i].frame]
      BY <1>10, <2>1 DEF FramesOf
    <2> QED BY <2>4, <2>5, <2>6
  <1>17. IdleInv' /\ RecordInv' /\ SavedIsSent'
    BY <1>1, <1>2, <1>13, <1>16 DEF IdleInv, RecordInv, SavedIsSent, Starting, LoopSteps, Ending
  <1> QED BY <1>9, <1>11, <1>12, <1>15, <1>17 DEF ClientInv


\* A live frame is the next one of the capture, on the wire and in the record.
LEMMA SendLivePreserves == ClientInv /\ SendLive => ClientInv'
  <1> SUFFICES ASSUME ClientInv, SendLive PROVE ClientInv'
    OBVIOUS
  <1> DEFINE n == Len(wire)
             h == Head(audio_queue)
             s == [seq |-> n, first |-> FALSE, frame |-> h]
  <1>1. /\ UNCHANGED <<captured, prebuffer, keyword_detected, detected,
                       streaming_event, saved, stop_event, websocket, main>>
        /\ pc = "live" /\ audio_queue # <<>> /\ audio_queue' = Tail(audio_queue)
        /\ wire' = Append(wire, s) /\ stream_frames' = Append(stream_frames, h)
        /\ pc' \in {"loop", "stop"}
    BY DEF SendLive, Goto
  <1>2. /\ h = Taken + 1 /\ h \in Captured /\ Taken \in Nat /\ Taken' = Taken + 1
        /\ audio_queue' \in Seq(Captured) /\ QueueInv'
    BY <1>1, TakeNext DEF ClientInv
  <1>3. /\ keyword_detected /\ n >= Before /\ Taken = detected + n - Before
        /\ stream_frames = FramesOf(wire) /\ saved = NoFile
    BY <1>1 DEF ClientInv, IdleInv, LiveInv, RecordInv, LoopSteps
  <1>4. detected \in Nat /\ detected >= 2
    BY <1>3 DEF ClientInv, DetectedInv, Captured
  <1>5. Before \in Nat /\ Before >= 1
    BY <1>4, FramesAssumption DEF Before
  <1>6. wire \in Seq(Sent) /\ n \in Nat /\ stream_frames \in Seq(Captured)
    BY DEF ClientInv, TypeOK
  <1>7. s \in Sent
    BY <1>2, <1>6 DEF Sent
  <1>8. WireIsTheCapture'
    <2>1. s.seq = n /\ s.frame = h
      OBVIOUS
    <2>2. s.first = (wire = <<>>)
      <3>1. wire # <<>>
        BY <1>3, <1>5, <1>6
      <3> QED BY <3>1
    <2>3. s.frame = detected - Before + n + (IF n + 1 > Before THEN 1 ELSE 0)
      <3>1. n + 1 > Before
        BY <1>3, <1>5, <1>6
      <3>2. h = detected + n - Before + 1
        BY <1>2, <1>3
      <3> HIDE DEF n, h, s
      <3> QED BY <1>4, <1>5, <1>6, <2>1, <3>1, <3>2
    <2> HIDE DEF s
    <2> QED BY <1>1, <1>4, <1>5, <1>6, <1>7, <2>1, <2>2, <2>3, WireNext DEF ClientInv
  <1>9. stream_frames' = FramesOf(wire')
    <2>1. s.frame = h
      OBVIOUS
    <2> HIDE DEF s
    <2> QED BY <1>1, <1>3, <1>6, <1>7, <2>1, FramesAppend
  <1> HIDE DEF s
  <1>10. wire' \in Seq(Sent) /\ Len(wire') = n + 1
    BY <1>1, <1>6, <1>7
  <1>11. stream_frames' \in Seq(Captured)
    BY <1>1, <1>2, <1>6
  <1>12. TypeOK'
    BY <1>1, <1>2, <1>10, <1>11 DEF ClientInv, TypeOK
  <1>13. LiveInv'
    <2>1. Before' = Before
      BY <1>1 DEF Before
    <2> QED BY <1>1, <1>2, <1>3, <1>4, <1>5, <1>6, <1>10, <2>1 DEF LiveInv
  <1>14. DetectedInv' /\ IdleInv' /\ StartInv' /\ SavedIsSent'
    BY <1>1, <1>3 DEF ClientInv, DetectedInv, IdleInv, StartInv, SavedIsSent, Starting
  <1>15. RecordInv'
    BY <1>1, <1>3, <1>9 DEF RecordInv
  <1> QED BY <1>2, <1>8, <1>12, <1>13, <1>14, <1>15 DEF ClientInv

\* What is saved is what was recorded, and nothing is sent after it.
LEMMA ClosePreserves == ClientInv /\ CloseAndSave => ClientInv'
  <1> SUFFICES ASSUME ClientInv, CloseAndSave PROVE ClientInv'
    OBVIOUS
  <1>1. /\ UNCHANGED <<captured, audio_queue, prebuffer, keyword_detected, detected,
                       stream_frames, wire, stop_event, main>>
        /\ pc = "close" /\ pc' = "listen" /\ saved' = stream_frames
        /\ websocket' = "none" /\ streaming_event' = TRUE
    BY DEF CloseAndSave, Goto, micVars
  <1>2. stream_frames = FramesOf(wire) /\ keyword_detected
    BY <1>1 DEF ClientInv, RecordInv, IdleInv, Ending
  <1>3. TypeOK'
    BY <1>1 DEF ClientInv, TypeOK
  <1>4. QueueInv' /\ DetectedInv'
    BY <1>1 DEF ClientInv, QueueInv, Taken, DetectedInv
  <1>5. WireIsTheCapture'
    BY <1>1 DEF ClientInv, WireIsTheCapture, Before
  <1>6. SavedIsSent'
    BY <1>1, <1>2 DEF SavedIsSent, FramesOf
  <1>7. IdleInv' /\ StartInv' /\ LiveInv' /\ RecordInv'
    BY <1>1, <1>2 DEF IdleInv, StartInv, LiveInv, RecordInv, Starting, LoopSteps, Ending
  <1> QED BY <1>3, <1>4, <1>5, <1>6, <1>7 DEF ClientInv

\* A frame lost to a broken connection was the last one of its stream.
LEMMA SendFailsPreserves == ClientInv /\ SendFails => ClientInv'
  <1> SUFFICES ASSUME ClientInv, SendFails PROVE ClientInv'
    OBVIOUS
  <1>1. /\ UNCHANGED <<captured, prebuffer, keyword_detected, detected,
                       streaming_event, stream_frames, wire, saved, stop_event,
                       websocket, main>>
        /\ pc \in {"hello", "prebuffer", "stop", "live"} /\ pc' = "listen"
    BY DEF SendFails, Streamed, Goto
  <1>2. CASE UNCHANGED audio_queue
    <2>1. TypeOK'
      BY <1>1, <1>2 DEF ClientInv, TypeOK
    <2> QED BY <1>1, <1>2, <2>1, MovePreserves DEF Kept, MovesTo
  <1>3. CASE audio_queue # <<>> /\ audio_queue' = Tail(audio_queue)
    <2>1. audio_queue' \in Seq(Captured) /\ QueueInv'
      BY <1>1, <1>3, TakeNext DEF ClientInv
    <2>2. TypeOK'
      BY <1>1, <2>1 DEF ClientInv, TypeOK
    <2>3. DetectedInv' /\ SavedIsSent'
      BY <1>1 DEF ClientInv, DetectedInv, SavedIsSent
    <2>4. WireIsTheCapture'
      BY <1>1 DEF ClientInv, WireIsTheCapture, Before
    <2>5. keyword_detected
      BY <1>1 DEF ClientInv, IdleInv, Starting, LoopSteps, Ending
    <2>6. IdleInv' /\ StartInv' /\ LiveInv' /\ RecordInv'
      BY <1>1, <2>5 DEF IdleInv, StartInv, LiveInv, RecordInv, Starting, LoopSteps, Ending
    <2> QED BY <2>1, <2>2, <2>3, <2>4, <2>6 DEF ClientInv
  <1> QED BY <1>2, <1>3 DEF SendFails

\* The steps that hand nothing on.
LEMMA OthersPreserve ==
  ClientInv /\ (\/ StopClient \/ ConnectionLost \/ CancelTask \/ RunReturns
                \/ ListenAgain \/ FetchNothing \/ Connect \/ LiveAgain \/ SendStop
                \/ UNCHANGED vars)
  => ClientInv'
  <1> SUFFICES ASSUME ClientInv,
                      \/ StopClient \/ ConnectionLost \/ CancelTask \/ RunReturns
                      \/ ListenAgain \/ FetchNothing \/ Connect \/ LiveAgain \/ SendStop
                      \/ UNCHANGED vars
               PROVE  ClientInv'
    OBVIOUS
  <1>1. /\ UNCHANGED Kept /\ UNCHANGED streaming_event
        /\ stop_event' \in BOOLEAN
        /\ websocket' \in {"none", "open", "lost"}
        /\ main' \in {"waiting", "cancelled", "over"}
    BY DEF ClientInv, TypeOK, StopClient, ConnectionLost, CancelTask, RunReturns,
           WebsocketAfterRun, ListenAgain, FetchNothing, Connect, LiveAgain, SendStop,
           Kept, Streamed, micVars, taskVars, vars
  <1>2. MovesTo(pc')
    BY DEF StopClient, ConnectionLost, CancelTask, RunReturns, ListenAgain,
           FetchNothing, Connect, LiveAgain, SendStop, Goto, MovesTo, LoopSteps,
           taskVars, vars
  <1>3. TypeOK'
    <2>1. pc' \in {"listen", "fetch", "connect", "hello", "prebuffer", "live", "loop",
                   "stop", "close", "ended"}
      BY <1>2 DEF ClientInv, TypeOK, MovesTo, LoopSteps
    <2> QED BY <1>1, <2>1 DEF ClientInv, TypeOK, Kept
  <1> QED BY <1>1, <1>2, <1>3, MovePreserves

LEMMA ClientStep == ClientInv /\ [Next]_vars => ClientInv'
  <1> SUFFICES ASSUME ClientInv, [Next]_vars PROVE ClientInv'
    OBVIOUS
  <1>1. CASE AudioCallback BY <1>1, CallbackPreserves
  <1>2. CASE Remember BY <1>2, RememberPreserves
  <1>3. CASE DetectKeyword BY <1>3, DetectPreserves
  <1>4. CASE Handshake BY <1>4, HandshakePreserves
  <1>5. CASE SendPrebuffer BY <1>5, SendPrebufferPreserves
  <1>6. CASE SendLive BY <1>6, SendLivePreserves
  <1>7. CASE CloseAndSave BY <1>7, ClosePreserves
  <1>8. CASE SendFails BY <1>8, SendFailsPreserves
  <1>9. CASE \/ StopClient \/ ConnectionLost \/ CancelTask \/ RunReturns
             \/ ListenAgain \/ FetchNothing \/ Connect \/ LiveAgain \/ SendStop
             \/ UNCHANGED vars
    BY <1>9, OthersPreserve
  <1> QED BY <1>1, <1>2, <1>3, <1>4, <1>5, <1>6, <1>7, <1>8, <1>9
          DEF Next, Listening, Streaming, Over

LEMMA ClientInit == Init => ClientInv
  <1> SUFFICES ASSUME Init PROVE ClientInv
    OBVIOUS
  <1> USE FramesAssumption DEF Init
  <1>1. TypeOK
    <2>1. audio_queue \in Seq(Captured) /\ prebuffer \in Seq(Captured) /\ Len(prebuffer) = 0
          /\ stream_frames \in Seq(Captured) /\ wire \in Seq(Sent)
      OBVIOUS
    <2>2. captured \in 0..MaxFrames /\ Len(prebuffer) <= PrebufferFrames
      BY <2>1
    <2>3. /\ keyword_detected \in BOOLEAN /\ stop_event \in BOOLEAN
          /\ streaming_event \in BOOLEAN
          /\ detected \in Captured \cup {NoFrame} /\ saved \in Seq(Captured) \cup {NoFile}
      OBVIOUS
    <2> QED BY <2>1, <2>2, <2>3 DEF TypeOK
  <1>2. Taken = 0 /\ Len(audio_queue) = 0 /\ Len(prebuffer) = 0
    <2>1. Len(audio_queue) = 0 /\ Len(prebuffer) = 0 /\ captured = 0
      OBVIOUS
    <2>2. captured - Len(audio_queue) = 0
      <3> HIDE DEF Init
      <3> QED BY <2>1
    <2> QED BY <2>1, <2>2 DEF Taken
  <1>3. QueueInv
    BY <1>2 DEF QueueInv
  <1>4. Holds(prebuffer, Taken)
    BY <1>2 DEF Holds
  <1>5. IdleInv
    BY <1>4 DEF IdleInv, Starting, LoopSteps, Ending
  <1>6. DetectedInv /\ StartInv /\ LiveInv /\ RecordInv
    BY DEF DetectedInv, StartInv, LiveInv, RecordInv, Starting, LoopSteps, Ending
  <1>7. WireIsTheCapture /\ SavedIsSent
    BY DEF WireIsTheCapture, SavedIsSent
  <1> QED BY <1>1, <1>3, <1>5, <1>6, <1>7 DEF ClientInv

LEMMA ClientInvHolds == Spec => []ClientInv
  BY ClientInit, ClientStep, PTL DEF Spec

\* Every queue, buffer, counter and flag of the client stays in its domain; the
\* deque never holds more than PREBUFFER_FRAMES.
THEOREM ClientTypes == Spec => []TypeOK
  <1>1. ClientInv => TypeOK
    BY DEF ClientInv
  <1> QED BY <1>1, ClientInvHolds, PTL

\* What start_streaming sends is the latest frames before the keyword and every
\* frame after it, in order, each once, numbered from zero.
THEOREM ClientSendsCapture == Spec => []WireIsTheCapture
  <1>1. ClientInv => WireIsTheCapture
    BY DEF ClientInv
  <1> QED BY <1>1, ClientInvHolds, PTL

\* The WAV that save_wav writes holds exactly the frames sent.
THEOREM ClientSavesSent == Spec => []SavedIsSent
  <1>1. ClientInv => SavedIsSent
    BY DEF ClientInv
  <1> QED BY <1>1, ClientInvHolds, PTL

-----------------------------------------------------------------------------
(* That the client ends, without fairness *)

\* Wherever its stream was, a cancelled task is at its end and stays there: no step
\* of it opens a connection again behind the back of run(), whose one step left
\* closes what was open and waits for nothing.  Nothing but a stop comes to this.
ShutdownDue ==
  /\ main = "cancelled" => pc = "ended"
  /\ main = "over" => pc = "ended" /\ websocket = "none"
  /\ main # "waiting" => stop_event

\* A client that has shut down leaves neither task nor connection.
THEOREM ShutdownIsClean == Spec => []ShutdownDue
  <1>1. Init => ShutdownDue
    BY DEF Init, ShutdownDue
  <1>2. ShutdownDue /\ [Next]_vars => ShutdownDue'
    <2> SUFFICES ASSUME ShutdownDue, [Next]_vars PROVE ShutdownDue'
      OBVIOUS
    <2> USE DEF ShutdownDue, vars, micVars, taskVars, Streamed, Goto
    <2>1. CASE AudioCallback \/ StopClient \/ ConnectionLost \/ Over \/ UNCHANGED vars
      BY <2>1 DEF AudioCallback, StopClient, ConnectionLost, Over
    <2>2. CASE CancelTask \/ RunReturns
      BY <2>2 DEF CancelTask, RunReturns, WebsocketAfterRun
    <2>3. CASE Listening \/ Streaming
      <3>1. pc # "ended" /\ main' = main /\ (stop_event => stop_event')
        BY <2>3 DEF Listening, Streaming, ListenAgain, FetchNothing, Remember, DetectKeyword,
          Connect, Handshake, SendPrebuffer, LiveAgain, SendLive, SendStop, CloseAndSave,
          SendFails
      <3> QED BY <3>1
    <2> QED BY <2>1, <2>2, <2>3 DEF Next
  <1> QED BY <1>1, <1>2, PTL DEF Spec
=============================================================================
