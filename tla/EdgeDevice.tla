----------------------------- MODULE EdgeDevice -----------------------------
(***************************************************************************)
(* The ESP32 firmware's three threads of control around one WebSocket:     *)
(* app_main, the audio task of main.c and the esp_websocket_client task    *)
(* that runs the event handler of ws_client.c.  They share s_status        *)
(* without a lock, and a send of the audio task may block for up to a      *)
(* second, so a step ends at every send and at every write of s_status.    *)
(*                                                                         *)
(* External: the WebSocket library (the link goes up and down, events are  *)
(* delivered one by one, a send on a live link may fail), the server as    *)
(* the device sees it (it acknowledges the hello of a connection) and the  *)
(* microphone (its init may fail; it delivers frame after frame, and may   *)
(* lose some when it was not read in time).  What a frame sounds like is    *)
(* whether it passes the energy gate, and its score for the keyword engine.*)
(***************************************************************************)
EXTENDS KeywordEngine, AudioRing, WireProtocol, FiniteSets

CONSTANTS PrebufferFrames,  \* PREBUFFER_FRAMES
          MaxLiveFrames,    \* CONFIG_SIH_STREAM_DURATION_MS / AUDIO_FRAME_MS
          Cycle,            \* bound: captures are numbered modulo this
          MaxLost,          \* bound: frames lost to one late read
          MaxGaps,          \* bound: such losses that ring or log remember at once
          StreamIds         \* what esp_random may return for a stream

\* The ring holds the pre-buffer and more.
ASSUME FramesAssumption ==
  /\ PrebufferFrames \in Nat \ {0} /\ MaxLiveFrames \in Nat \ {0}
  /\ PrebufferFrames <= Capacity

\* seq does not wrap in a stream, and ids are of type uint32_t.
ASSUME WireAssumption ==
  /\ PrebufferFrames + MaxLiveFrames <= 65536
  /\ \A id \in StreamIds : U32(id)

\* Frames by their place in the capture, and how many were lost just before.
ASSUME CaptureAssumption ==
  /\ Cycle \in Nat /\ Cycle > 1 /\ MaxLost \in Nat /\ MaxGaps \in Nat
  /\ Frame = [captured : 0..Cycle, lost : 0..MaxLost]
  /\ Zero = [captured |-> 0, lost |-> 0]

VARIABLES
  boot,         \* app_main: client (to be started), init (started, status not
                \* yet set), mic, audio (its task runs), deaf (no microphone)
  client,       \* esp_websocket_client_start succeeded
  status,       \* s_status
  link,         \* esp_websocket_client_is_connected
  event,        \* what the WebSocket task is handling: none, connected,
                \* hello (status set, hello to send), disconnected
  ackDue,       \* a hello_ack of this connection is on its way
  acked,        \* history: the hello_ack of this connection was received
  pc,           \* audio task: read, start, mark, prebuffer, stop, end
  frame_samples,                               \* the frame read last
  is_streaming, live_frames_sent, current_seq,
  log,          \* history: frames of the current stream, as handed to send
  startedHere,  \* history: the current stream's start got through on this link
  disordered    \* history: a start got through before the hello_ack, or a
                \* frame before the start of its stream, on the same link

bootVars  == <<boot, client>>
linkVars  == <<link, event, ackDue, acked>>
audioVars == <<pc, is_streaming, live_frames_sent, current_seq, log>>
readVars  == <<frame_samples, ringVars>>
taskVars  == <<audioVars, engineVars, readVars>>
pastVars  == <<startedHere, disordered>>
vars == <<bootVars, status, linkVars, taskVars, pastVars>>

Init ==
  /\ boot = "client" /\ client = FALSE /\ status = "disconnected"
  /\ link = FALSE /\ event = "none" /\ ackDue = FALSE /\ acked = FALSE
  /\ pc = "read" /\ is_streaming = FALSE /\ EngineInit /\ RingInit
  /\ frame_samples = Zero /\ live_frames_sent = 0 /\ current_seq = 0 /\ log = <<>>
  /\ startedHere = FALSE /\ disordered = FALSE

-----------------------------------------------------------------------------
(* app_main and the WebSocket task *)

\* ws_client_init, whether wifi_connect_sta succeeded or gave up; if the client
\* does not start, app_main goes on without one.
StartClient ==
  /\ boot = "client"
  /\ \/ client' = TRUE /\ boot' = "init"
     \/ client' = FALSE /\ boot' = "mic"
  /\ UNCHANGED <<status, linkVars, taskVars, pastVars>>

\* s_status = WS_STATUS_CONNECTING, after esp_websocket_client_start.
InitReturns ==
  /\ boot = "init"
  /\ boot' = "mic" /\ status' = "connecting"
  /\ UNCHANGED <<client, linkVars, taskVars, pastVars>>

\* Without a microphone app_main returns; the audio task is created last.
InitMicrophone ==
  /\ boot = "mic"
  /\ boot' \in {"audio", "deaf"}
  /\ UNCHANGED <<client, status, linkVars, taskVars, pastVars>>

\* Neither client nor audio task: nothing is left to run.
Idle == boot = "deaf" /\ ~client /\ UNCHANGED vars

LinkUp ==
  /\ client /\ ~link /\ event = "none"
  /\ link' = TRUE /\ event' = "connected"
  /\ UNCHANGED <<bootVars, status, ackDue, acked, taskVars, pastVars>>

LinkDown ==
  /\ link /\ event # "connected"
  /\ link' = FALSE /\ event' = "disconnected"
  /\ ackDue' = FALSE /\ acked' = FALSE /\ startedHere' = FALSE
  /\ UNCHANGED <<bootVars, status, taskVars, disordered>>

OnConnected ==
  /\ event = "connected"
  /\ status' = "connected" /\ event' = "hello"
  /\ UNCHANGED <<bootVars, link, ackDue, acked, taskVars, pastVars>>

SendHello ==
  /\ event = "hello"
  /\ event' = "none" /\ ackDue' = TRUE
  /\ UNCHANGED <<bootVars, status, link, acked, taskVars, pastVars>>

\* WEBSOCKET_EVENT_DATA with a hello_ack.
OnHelloAck ==
  /\ link /\ event = "none" /\ ackDue
  /\ status' = "ready" /\ ackDue' = FALSE /\ acked' = TRUE
  /\ UNCHANGED <<bootVars, link, event, taskVars, pastVars>>

OnDisconnected ==
  /\ event = "disconnected"
  /\ status' = "disconnected" /\ event' = "none"
  /\ UNCHANGED <<bootVars, link, ackDue, acked, taskVars, pastVars>>

-----------------------------------------------------------------------------
(* The audio task *)

Ready == status \in {"ready", "streaming"} /\ link

\* The place of a frame when so many are lost after the one at n.
After(n, lost) == ((n + lost) % Cycle) + 1

\* What i2s_mic_read_frame delivers: the next frame captured, or a later one if
\* reads came late.
Captured(f) ==
  /\ f.captured = After(frame_samples.captured, f.lost)
  /\ f.lost > 0 =>
       /\ Cardinality({s \in Slot : buffer[s].lost > 0}) < MaxGaps
       /\ Cardinality({i \in 1..Len(log) : log[i].frame.lost > 0}) < MaxGaps

\* Mutant: only the frames that pass the energy gate are kept.
PushLoud(f, loud) == IF loud THEN Push(f) ELSE UNCHANGED ringVars

PushRead(f, loud) == Push(f)

\* Every frame read is pushed before anything else is done with it.
Read(loud) ==
  \E f \in Frame : Captured(f) /\ frame_samples' = f /\ PushRead(f, loud)

\* Mutant: live frames wait for a client that is ready.
IsLiveIfReady == is_streaming /\ Ready

\* What sends a frame read to the server rather than to the keyword engine.
IsLive == is_streaming

\* A frame below the energy gate.
ReadQuiet ==
  /\ boot = "audio" /\ pc = "read" /\ ~is_streaming
  /\ Read(FALSE)
  /\ UNCHANGED <<bootVars, status, linkVars, audioVars, engineVars, pastVars>>

\* A frame for the keyword engine; only when it triggers is the client asked.
ReadLoud(score) ==
  /\ boot = "audio" /\ pc = "read" /\ ~is_streaming
  /\ Read(TRUE)
  /\ ProcessFrame(score)
  /\ IF Triggers(score) /\ Ready
       THEN pc' = "start" /\ log' = <<>> /\ startedHere' = FALSE
       ELSE UNCHANGED <<pc, log, startedHere>>
  /\ UNCHANGED <<bootVars, status, linkVars, is_streaming, live_frames_sent,
                 current_seq, disordered>>

\* ws_client_send_start: asks again, sends, and only then sets the status.
\* Its result is ignored.
SendStart ==
  /\ pc = "start"
  /\ \/ /\ Ready
        /\ startedHere' = TRUE /\ disordered' = (disordered \/ ~acked)
        /\ pc' = "mark"
     \/ pc' = "prebuffer" /\ UNCHANGED pastVars
  /\ UNCHANGED <<bootVars, status, linkVars, is_streaming, live_frames_sent,
                 current_seq, log, engineVars, readVars>>

MarkStreaming ==
  /\ pc = "mark"
  /\ status' = "streaming" /\ pc' = "prebuffer"
  /\ UNCHANGED <<bootVars, linkVars, is_streaming, live_frames_sent,
                 current_seq, log, engineVars, readVars, pastVars>>

\* ws_client_send_audio_frame: whether the frame got through is ignored.
Send(entry) ==
  /\ log' = Append(log, entry)
  /\ disordered' \in {disordered, disordered \/ (link /\ ~startedHere)}

\* Mutant: live frames are numbered from zero again.
FirstLiveZero == 0

\* The number of the first live frame, that of the frames extracted.
FirstLive == PrebufferFrames

\* The ring is not written while its frames are sent, so the copy of the ring
\* made before the first of them is the ring.
SendPrebuffer ==
  /\ pc = "prebuffer"
  /\ LET f == Len(log)
     IN  /\ Send([seq |-> f, first |-> f = 0, prebuf |-> TRUE, last |-> FALSE,
                  frame |-> Extract(PrebufferFrames)[f + 1]])
         /\ IF f + 1 = PrebufferFrames
              THEN /\ pc' = "read" /\ is_streaming' = TRUE
                   /\ live_frames_sent' = 0 /\ current_seq' = FirstLive
              ELSE UNCHANGED <<pc, is_streaming, live_frames_sent, current_seq>>
  /\ UNCHANGED <<bootVars, status, linkVars, engineVars, readVars, startedHere>>

\* Mutant: one frame too many.
LastLate(n) == n > MaxLiveFrames

IsLast(n) == n >= MaxLiveFrames

\* A frame is read, pushed and sent at once.
SendLive ==
  /\ boot = "audio" /\ pc = "read" /\ IsLive
  /\ live_frames_sent' = live_frames_sent + 1
  /\ current_seq' = current_seq + 1
  /\ Read(TRUE)
  /\ Send([seq |-> current_seq, first |-> FALSE, prebuf |-> FALSE,
           last |-> IsLast(live_frames_sent + 1), frame |-> frame_samples'])
  /\ pc' = IF IsLast(live_frames_sent + 1) THEN "stop" ELSE "read"
  /\ UNCHANGED <<bootVars, status, linkVars, is_streaming, engineVars, startedHere>>

\* Mutant: the status the stream was started from is not restored.
StatusAfterStopConnected == "connected"

StatusAfterStop == "ready"

\* ws_client_send_stop blocks in its send, then sets the status whatever the
\* result; the stream is over and the engine may trigger again.
SendStop ==
  /\ pc = "stop"
  /\ pc' = "end"
  /\ UNCHANGED <<bootVars, status, linkVars, is_streaming, live_frames_sent,
                 current_seq, log, engineVars, readVars, pastVars>>

EndStream ==
  /\ pc = "end"
  /\ status' = StatusAfterStop
  /\ is_streaming' = FALSE
  /\ ResetTrigger
  /\ pc' = "read"
  /\ UNCHANGED <<bootVars, linkVars, live_frames_sent, current_seq, log, readVars,
                 pastVars>>

-----------------------------------------------------------------------------
AudioStep == \/ SendStart \/ MarkStreaming \/ SendPrebuffer \/ SendLive
             \/ SendStop \/ EndStream
EventStep == OnConnected \/ SendHello \/ OnHelloAck \/ OnDisconnected

BootStep  == StartClient \/ InitReturns \/ InitMicrophone

Next == \/ BootStep \/ Idle \/ LinkUp \/ LinkDown \/ EventStep
        \/ ReadQuiet \/ (\E score \in Score : ReadLoud(score)) \/ AudioStep

\* FreeRTOS runs every ready task, the microphone keeps delivering frames and a
\* send gives up after its timeout.
Fairness == WF_vars(BootStep) /\ WF_vars(EventStep) /\ WF_vars(AudioStep)

Spec == Init /\ [][Next]_vars /\ Fairness

\* ... and sound keeps coming in, on a network that comes back.
InsistentSpec ==
  Spec /\ WF_vars(\E score \in Score : ReadLoud(score)) /\ WF_vars(LinkUp)

-----------------------------------------------------------------------------
(* Properties *)

FrameRecord == [seq : Nat, first : BOOLEAN, prebuf : BOOLEAN, last : BOOLEAN,
                frame : Frame]

TypeOK ==
  /\ status \in {"disconnected", "connecting", "connected", "ready", "streaming"}
  /\ boot \in {"client", "init", "mic", "audio", "deaf"}
  /\ client \in BOOLEAN /\ link \in BOOLEAN
  /\ event \in {"none", "connected", "hello", "disconnected"}
  /\ ackDue \in BOOLEAN /\ acked \in BOOLEAN
  /\ pc \in {"read", "start", "mark", "prebuffer", "stop", "end"}
  /\ is_streaming \in BOOLEAN /\ EngineOK /\ RingOK
  /\ frame_samples \in Frame
  /\ live_frames_sent \in 0..MaxLiveFrames /\ current_seq \in Nat
  /\ log \in Seq(FrameRecord)
  /\ startedHere \in BOOLEAN /\ disordered \in BOOLEAN

\* What one detection puts on the wire, whatever the link does meanwhile, is one
\* stream: FIRST on its first frame only, the pre-buffer before the live audio,
\* LAST on its last frame only, and that many frames, before the next may start.
OneStreamPerDetection ==
  LET total == PrebufferFrames + MaxLiveFrames
  IN  /\ Len(log) <= total
      /\ \A i \in 1..Len(log) :
           log[i] = [seq |-> i - 1, first |-> i = 1,
                     prebuf |-> i <= PrebufferFrames, last |-> i = total,
                     frame |-> log[i].frame]
      /\ pc = "read" /\ ~is_streaming => Len(log) \in {0, total}

\* A frame is the next one the microphone delivered, after those it lost, or both
\* are from before the first one.
Continues(before, now) ==
  \/ now.captured = After(before.captured, now.lost)
  \/ now = Zero /\ before = Zero

\* A stream is one stretch of what the microphone delivered: silence before the
\* first frame ever, then each frame once and in order, quiet ones too, over the
\* seam from pre-buffer to live frames up to the frame read last.  Only frames
\* the microphone lost are missing, and nothing on the wire tells of them.
StreamIsTheCapture ==
  /\ \A i \in 2..Len(log) : Continues(log[i - 1].frame, log[i].frame)
  /\ is_streaming => log[Len(log)].frame = frame_samples

\* The header packed for a frame of the log.
HeaderOf(entry, id) ==
  [codec |-> CODEC_PCM,
   flags |-> (IF entry.first THEN FLAG_FIRST ELSE 0) + (IF entry.last THEN FLAG_LAST ELSE 0)
             + (IF entry.prebuf THEN FLAG_PREBUF ELSE 0),
   seq |-> entry.seq, stream_id |-> id,
   sample_offset |-> entry.seq * SAMPLES_PER_FRAME]

\* The backend's struct reads from the bytes the firmware shifts together what
\* the audio task meant, for every frame it sends and any id of a stream.
FramesUnderstood ==
  \A i \in 1..Len(log), id \in StreamIds : BackendUnderstands(HeaderOf(log[i], id))

\* A stream ends, even if every send of it fails.
StreamingEnds == (pc = "start") ~> (pc = "read" /\ ~is_streaming)

\* Receiving the hello_ack makes the client ready, and no step of any task makes
\* it unready while its link is up, but one: a ws_client_init that comes to its
\* last line only after the whole handshake overwrites the status.
AckedMeansReady ==
  link /\ event = "none" /\ acked => status \in {"ready", "streaming", "connecting"}

\* Whatever losses came before, a link that stays up makes the client ready
\* (with the same exception).
ReadyAgain == <>[]link => <>[](Ready \/ status = "connecting")

\* PROTOCOL.md:28: hello, hello_ack, start, frames, in this order on each
\* connection; start is mandatory before frame zero.
ConnectionOrder == ~disordered

\* The frames heard last sound like the wake word.
Heard == history_count > 0 /\ Confident(history, history_count)

\* kws_engine.h:72: the trigger is reset for subsequent activations: a device
\* that stays ready answers a wake word that is said again and again.
WakeWordAnswered == <>[]Ready /\ []<>(Heard /\ ~is_streaming) => []<>is_streaming
=============================================================================
