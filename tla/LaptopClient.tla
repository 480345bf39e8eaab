----------------------------- MODULE LaptopClient -----------------------------
(***************************************************************************)
(* tools/laptop_client.py: the PortAudio callback thread, the audio task   *)
(* (audio_processor, which awaits start_streaming inline) and run(), which *)
(* cancels the audio task once stop_event is set.  A step of the audio     *)
(* task is what runs between two awaits.                                   *)
(*                                                                         *)
(* Frames are numbered 1, 2, ... as the microphone delivers them.  The     *)
(* recognizer is external: any frame may complete the keyword, except the  *)
(* very first, a keyword being longer than 20 ms.  So is the server, which *)
(* may refuse, answer the hello wrongly, or drop the connection.           *)
(***************************************************************************)
EXTENDS Naturals, Sequences

CONSTANTS MaxFrames,        \* bound on the frames captured
          PrebufferFrames   \* PREBUFFER_FRAMES

ASSUME FramesAssumption ==
  MaxFrames \in Nat \ {0} /\ PrebufferFrames \in Nat \ {0}

NoFrame == 0
Captured == 1..MaxFrames

VARIABLES
  captured,          \* frames the callback has delivered
  audio_queue, prebuffer, keyword_detected, stop_event,
  streaming_event, websocket, stream_frames,  \* the attributes of those names
  pc,                \* the audio task: listen, fetch, connect, hello, prebuffer,
                     \* live, send, stop, close, ended
  main,              \* run(): waiting, cancelled, over
  detected,          \* history: the frame that completed the keyword
  wire,              \* history: the frames sent
  saved              \* history: the frames in the WAV, NoFile before

NoFile == <<NoFrame>>

micVars  == <<captured, audio_queue>>
taskVars == <<prebuffer, keyword_detected, streaming_event, stream_frames, pc,
              detected, wire, saved>>
vars == <<micVars, taskVars, stop_event, websocket, main>>

Init ==
  /\ captured = 0 /\ audio_queue = <<>> /\ prebuffer = <<>>
  /\ keyword_detected = FALSE /\ stop_event = FALSE /\ streaming_event = FALSE
  /\ websocket = "none" /\ stream_frames = <<>>
  /\ pc = "listen" /\ main = "waiting"
  /\ detected = NoFrame /\ wire = <<>> /\ saved = NoFile

-----------------------------------------------------------------------------
(* Around the audio task *)

\* audio_callback, while the InputStream is open.
AudioCallback ==
  /\ main # "over" /\ captured < MaxFrames
  /\ captured' = captured + 1
  /\ audio_queue' = Append(audio_queue, captured + 1)
  /\ UNCHANGED <<taskVars, stop_event, websocket, main>>

\* stop(), from a signal; running is cleared together with it.
StopClient ==
  /\ ~stop_event /\ stop_event' = TRUE
  /\ UNCHANGED <<micVars, taskVars, websocket, main>>

ConnectionLost ==
  /\ websocket = "open" /\ websocket' = "lost"
  /\ UNCHANGED <<micVars, taskVars, stop_event, main>>

\* CancelledError reaches the task in whatever await it is.
CancelTask ==
  /\ main = "waiting" /\ stop_event
  /\ main' = "cancelled"
  /\ pc' = "ended"
  /\ UNCHANGED <<micVars, prebuffer, keyword_detected, streaming_event,
                 stream_frames, detected, wire, saved, stop_event, websocket>>

\* Mutant: the finally clause does not close the connection.
WebsocketLeft == websocket

WebsocketAfterRun == "none"

\* await self._audio_task, then the finally clause.
RunReturns ==
  /\ main = "cancelled" /\ pc = "ended"
  /\ main' = "over" /\ websocket' = WebsocketAfterRun
  /\ UNCHANGED <<micVars, taskVars, stop_event>>

-----------------------------------------------------------------------------
(* The audio task *)

Goto(next) == pc' = next
Streamed == <<streaming_event, stream_frames, wire, saved>>

\* The while condition, then to_thread(_get_audio_chunk).
ListenAgain ==
  /\ pc = "listen"
  /\ Goto(IF stop_event THEN "ended" ELSE "fetch")
  /\ UNCHANGED <<micVars, prebuffer, keyword_detected, detected, Streamed,
                 stop_event, websocket, main>>

\* No chunk within the timeout, here or in the live loop.
FetchNothing ==
  /\ pc \in {"fetch", "live"} /\ audio_queue = <<>>
  /\ Goto(IF pc = "fetch" THEN "listen" ELSE "loop")
  /\ UNCHANGED <<micVars, prebuffer, keyword_detected, detected, Streamed,
                 stop_event, websocket, main>>

\* Mutant: a full pre-buffer keeps its oldest frames.
PrebufferKeepsOldest(frame) ==
  IF Len(prebuffer) < PrebufferFrames THEN Append(prebuffer, frame) ELSE prebuffer

\* Mutant: the deque has no maxlen.
PrebufferUnbounded(frame) == Append(prebuffer, frame)

\* deque(maxlen=PREBUFFER_FRAMES)
PrebufferAfter(frame) ==
  IF Len(prebuffer) < PrebufferFrames
    THEN Append(prebuffer, frame)
    ELSE Append(Tail(prebuffer), frame)

\* A frame without the keyword, or one after it was detected.
Remember ==
  /\ pc = "fetch" /\ audio_queue # <<>>
  /\ audio_queue' = Tail(audio_queue)
  /\ prebuffer' = PrebufferAfter(Head(audio_queue))
  /\ Goto("listen")
  /\ UNCHANGED <<captured, keyword_detected, detected, Streamed, stop_event,
                 websocket, main>>

\* The frame that completes the keyword goes nowhere.
DetectKeyword ==
  /\ pc = "fetch" /\ audio_queue # <<>>
  /\ ~keyword_detected /\ prebuffer # <<>>
  /\ audio_queue' = Tail(audio_queue)
  /\ keyword_detected' = TRUE /\ detected' = Head(audio_queue)
  /\ Goto("connect")
  /\ UNCHANGED <<captured, prebuffer, Streamed, stop_event, websocket, main>>

Connect ==
  /\ pc = "connect"
  /\ \/ websocket' = "open" /\ Goto("hello") /\ UNCHANGED stop_event
     \/ stop_event' = TRUE /\ Goto("listen") /\ UNCHANGED websocket
  /\ UNCHANGED <<micVars, prebuffer, keyword_detected, detected, Streamed, main>>

\* Mutant: only live audio is recorded.
RecordingAtStartEmpty == <<>>

RecordingAtStart == prebuffer

\* hello_ack, and start sent; or another answer, which stops the client; or one
\* that is not JSON: audio_processor goes on listening, the socket stays open.
Handshake ==
  /\ pc = "hello" /\ websocket = "open"
  /\ \/ /\ stream_frames' = RecordingAtStart
        /\ Goto("prebuffer") /\ UNCHANGED <<stop_event, websocket>>
     \/ /\ websocket' = "none" /\ stop_event' = TRUE
        /\ Goto("listen") /\ UNCHANGED stream_frames
     \/ Goto("listen") /\ UNCHANGED <<stop_event, websocket, stream_frames>>
  /\ UNCHANGED <<micVars, prebuffer, keyword_detected, detected,
                 streaming_event, wire, saved, main>>

SendPrebuffer ==
  /\ pc = "prebuffer" /\ websocket = "open"
  /\ wire' = Append(wire, [seq |-> Len(wire), first |-> wire = <<>>,
                           frame |-> prebuffer[Len(wire) + 1]])
  /\ Goto(IF Len(wire) + 1 = Len(prebuffer) THEN "loop" ELSE "prebuffer")
  /\ UNCHANGED <<micVars, prebuffer, keyword_detected, detected, streaming_event,
                 stream_frames, saved, stop_event, websocket, main>>

\* The condition of the live loop, then to_thread(_get_audio_chunk).
LiveAgain ==
  /\ pc = "loop"
  /\ Goto(IF stop_event \/ streaming_event THEN "stop" ELSE "live")
  /\ UNCHANGED <<micVars, prebuffer, keyword_detected, detected, Streamed,
                 stop_event, websocket, main>>

\* ... then the test of the duration, left to chance.
SendLive ==
  /\ pc = "live" /\ audio_queue # <<>> /\ websocket = "open"
  /\ audio_queue' = Tail(audio_queue)
  /\ wire' = Append(wire, [seq |-> Len(wire), first |-> FALSE,
                           frame |-> Head(audio_queue)])
  /\ stream_frames' = Append(stream_frames, Head(audio_queue))
  /\ \E next \in {"loop", "stop"} : Goto(next)
  /\ UNCHANGED <<captured, prebuffer, keyword_detected, detected,
                 streaming_event, saved, stop_event, websocket, main>>

SendStop ==
  /\ pc = "stop" /\ websocket = "open"
  /\ Goto("close")
  /\ UNCHANGED <<micVars, prebuffer, keyword_detected, detected, Streamed,
                 stop_event, websocket, main>>

\* close() does not raise on a lost connection; then save_wav.
CloseAndSave ==
  /\ pc = "close"
  /\ websocket' = "none" /\ saved' = stream_frames
  /\ streaming_event' = TRUE
  /\ Goto("listen")
  /\ UNCHANGED <<micVars, prebuffer, keyword_detected, detected, stream_frames,
                 wire, stop_event, main>>

\* ConnectionClosed from a send or a recv: caught by audio_processor, which goes
\* on listening; a live frame taken for it is gone.
SendFails ==
  /\ websocket = "lost"
  /\ \/ pc \in {"hello", "prebuffer", "stop"} /\ UNCHANGED audio_queue
     \/ /\ pc = "live" /\ audio_queue # <<>>
        /\ audio_queue' = Tail(audio_queue)
  /\ Goto("listen")
  /\ UNCHANGED <<captured, prebuffer, keyword_detected, detected, Streamed,
                 stop_event, websocket, main>>

Listening == ListenAgain \/ FetchNothing \/ Remember \/ DetectKeyword
Streaming == \/ Connect \/ Handshake \/ SendPrebuffer \/ LiveAgain \/ SendLive
             \/ SendStop \/ CloseAndSave \/ SendFails

Over == main = "over" /\ UNCHANGED vars

Next ==
  \/ AudioCallback \/ StopClient \/ ConnectionLost \/ CancelTask \/ RunReturns
  \/ Listening \/ Streaming \/ Over

\* The loop runs run() and the audio task whenever they are ready; a connect, a
\* send or an answer either comes or fails.
Fairness == WF_vars(CancelTask \/ RunReturns) /\ WF_vars(Listening \/ Streaming)

Spec == Init /\ [][Next]_vars /\ Fairness

-----------------------------------------------------------------------------
(* Properties *)

Sent == [seq : Nat, first : BOOLEAN, frame : Captured]

TypeOK ==
  /\ captured \in 0..MaxFrames
  /\ audio_queue \in Seq(Captured)
  /\ prebuffer \in Seq(Captured) /\ Len(prebuffer) <= PrebufferFrames
  /\ keyword_detected \in BOOLEAN /\ stop_event \in BOOLEAN
  /\ streaming_event \in BOOLEAN
  /\ websocket \in {"none", "open", "lost"}
  /\ stream_frames \in Seq(Captured)
  /\ pc \in {"listen", "fetch", "connect", "hello", "prebuffer", "live", "loop",
             "stop", "close", "ended"}
  /\ main \in {"waiting", "cancelled", "over"}
  /\ detected \in Captured \cup {NoFrame}
  /\ wire \in Seq(Sent)
  /\ saved \in Seq(Captured) \cup {NoFile}

\* How many frames were captured before the keyword and kept.
Before == IF detected <= PrebufferFrames THEN detected - 1 ELSE PrebufferFrames

\* The server gets the latest frames before the keyword and then everything the
\* microphone delivered after it, however long connecting took, in order, each
\* once, numbered without a gap, FIRST on the first; only the frame that
\* completed the keyword is left out.
WireIsTheCapture ==
  \A i \in 1..Len(wire) :
    LET skipped == IF i > Before THEN 1 ELSE 0
    IN  wire[i] = [seq |-> i - 1, first |-> i = 1,
                   frame |-> detected - Before - 1 + i + skipped]

\* The WAV kept on the laptop is what the server was sent.
SavedIsSent == saved # NoFile => saved = [i \in 1..Len(wire) |-> wire[i].frame]

\* Once stop_event is set, by a signal or a failed connection, the client ends
\* and leaves no connection open, wherever its stream was.
ShutsDown == stop_event ~> (main = "over" /\ websocket = "none")
=============================================================================
