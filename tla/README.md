# A formal model of the SIH voice activator

TLA+ modules, TLC configurations and TLAPS proofs for this repository: an ESP32
voice activator that recognizes a wake word and streams audio over a WebSocket, a
Python server that transcribes it and answers with synthesized speech, and a laptop
client that stands in for the device. Every definition is translated from the code;
`PROJECT.json` ("map") names the lines each one stands for.

To repeat a check: `tlc -config <cfg> <MC module>` with the pairs of the table of
runs below; to repeat a proof: `tlapm <module>Proofs.tla`.

## 1. The system and its parts

| Part | Code | State it keeps | Operations |
|---|---|---|---|
| ASR worker | `backend/asr/worker.py` | `running`, `_finished`, `_thread`, two `queue.Queue`s, the Vosk recognizer | `start`, `add_audio`, `get_result`, `finish`, `stop`, the thread's `_worker_loop` |
| Stream audio and endpoint | `backend/server.py`: `_audio`, `EndpointDetector` | `pcm`, `expected_offset`, silence count, `finalizing`, `finalized` | one binary frame; the endpoint; stop; maximum duration |
| Connection handler | `backend/server.py`: `handler`, `_control` | `hello`, the table of streams of the connection | hello, start, stop, frame, receive timeout, closure |
| Finalization and pipeline | `backend/server.py`: `finalize`, `_finish_asr_worker*` | per stream: the worker, accumulated text, last result, last partial; the WAV file | one asyncio task per stream: `finish()` in the executor, finalization, choice of the transcript, LLM, TTS, playback |
| Thread pool, playback | `backend/server.py`: `asyncio.to_thread`, `send_playback`; `tts/provider.py` | jobs waiting and running, the temporary WAV of Piper, sequence of the frames | `finish()`, LLM and TTS as jobs; `play_start`, frames, `play_stop` |
| Wire protocol | `backend/protocol.py`, `firmware/main/protocol_frames.c` | none | pack, unpack and validate a 16-byte header and its payload |
| LLM and TTS | `backend/llm`, `backend/tts` | none | one call each, in the executor |
| Firmware WebSocket client | `firmware/main/ws_client.c` | `s_status`, written by three tasks without a lock | init, event handler, send start, frame and stop |
| Firmware audio task | `firmware/main/main.c` | `is_streaming`, counters of the stream | read a frame; trigger; stream; stop |
| Ring buffer | `firmware/main/audio_ring_buffer.c` | `buffer`, `write_idx`, `count` | init, push, extract_recent |
| Keyword engine, energy gate | `kws_engine.c`, `energy_detector.c` | a window of scores, the trigger latch | process a frame, reset |
| Laptop client | `tools/laptop_client.py` | audio queue, pre-buffer, `keyword_detected`, two events, the socket | PortAudio callback, audio task, `run`, `stop` |
| Simulator, benchmarks | `tools/sim_esp32.py`, `latency_benchmark.py`, ... | none of the system | straight-line clients and measurement scripts |

How they interact. The device's audio task shares `s_status` with the task of the
WebSocket library and with `app_main`. Its frames arrive at the server's handler, which
puts one chunk per accepted frame on the worker's queue and polls one result. The
endpoint, a `stop` message or the maximum duration creates a pipeline task on the same
event loop; that task hands `finish()` to the thread pool, which talks to the worker
thread through the queues and attributes. In the meantime the handler goes on: it may
time out, close, or receive another `start` with the same id.

What is hard in it: three threads that share the worker's attributes without a lock;
asyncio tasks that look at a stream before an `await` and use it after; a stream that
may end for five reasons in any order; a device that ignores the result of its sends
while the link comes and goes under it; a cancellation that may arrive in any `await`.
`PROJECT.json` ("hazards") lists each at its line.

What makes each part correct:

* ASR worker: no chunk is lost, repeated or taken out of order between the threads;
  `finish()` drains, returns and ends the thread; so does `stop()`. Seen from outside it
  cuts the stream into utterances, from left to right, and takes no word back.
* Stream audio: each frame lies at its own offset, once; a gap costs a bounded silence;
  the maximum holds; the endpoint fires exactly after enough silence following speech.
* Handler and pipeline: one recording and one pipeline per stream; a stream ends with its connection
  at the latest, and its worker is told to end; the LLM is asked what the recognizer completed, in its
  order. The code keeps the last three with exceptions, which the properties name.
* Responses: playbacks of one connection may interleave, but each is in order and whole;
  no temporary file stays; every pipeline ends unless the thread pool itself hangs.
* Device: what a detection sends is one well-formed stream, whatever the link does, and the
  capture without a hole at the seam of pre-buffer and live frames; it ends, and the client
  becomes ready again; the keyword engine averages the latest scores since the last stream
  and nothing else.
* Wire protocol: what one end packs the other accepts and reads as it was meant.
* Ring buffer: it shows the latest frames in order.
* Laptop client: the server receives the capture without loss or repetition, the WAV is
  what was sent, and the client always shuts down.

## 2. The modules

**`AsrWorker`** - one worker and the threads that call it. A step is what one thread does
between two points at which CPython may switch to another thread that uses the same
attributes or queues: testing `running and not _finished` is one step of `add_audio`, its
`put` another. `wpc`, `lpc` and `epc` say where the worker, loop and executor threads are.
Chunks are numbered; a result is the set of the chunks whose words it carries and whether
it is final. Vosk is external: it closes an utterance after any chunk, any call of it may
raise, and its model may fail to load (`LoadModel`). `StopCall` may come before any
`finish()` (maximum duration) or while one is running (inactivity, closure), as in
`server.py`. `MayFeed` is the one guard taken from the caller: `_audio` drops frames of a
stream that is finalizing.

**`Transcript`** - what speech recognition promises to the one who feeds it: chunks are heard one
after the other, open chunks up to some point become an utterance or are dropped, and nothing
is taken back. `AsrWorker` implements it (`RefinesTranscript`): `heard` is what `add_audio` put, the
open chunks are those queued, in the worker's hand or in the recognizer, the utterances are the
final results wherever they are.

**`StreamAudio`** - one well-formed frame from `_audio` to its place in the recording,
together with `EndpointDetector`. `Admissible`, `Full` and `InWindow` are the early returns in
the order of the code; `Accept` includes the silence inserted before the frame, the new
`expected_offset` and the detector. `Stop`, `PipelineFinalize` and `Abandon` are the other
actors that change what the guards read.

**`VoiceServer`** - connections and pipelines on the event loop, and of each worker thread what it
does with one chunk. A step is what runs between two suspensions. A `Stream` object is a record; text is
the number of the utterance it transcribes, 0 the blank text. `table` is the handler's dictionary from ids to
streams, so a stream can leave it while its task lives on, and its id can be used again.

* The timer: `idle` says that the timeout of a connection's `recv` has all but run out (`TimePasses`); every
  message sets it back (`Heard`), also those that do nothing else (`OtherMessage`: errors, dropped frames,
  `play_stop`). Neither step may precede the first turn of a task created before: asyncio runs
  ready callbacks in order before it gets to a timer (`LoopIdles`).
* The worker: `queued` chunks wait for it, `Recognize` makes words or none of one of them, and queues the result
  unless `finish()` has begun (`withheld` remembers what is lost so). The handler takes at most one
  result per frame (`Polled`). `finish()` is called by the pool (`FinishEnter`, when the worker becomes
  `draining`) and comes back (`FinishReturned`) with the oldest result in the queue, having drained, having been
  stopped before or during it, or having given up; in the last case the worker is `abandoned`: its thread is
  there and nothing refers to it any more. An error in `FinalResult` ends so, too.
* Finalization: `Broken` is a `finalize()` that raises over the WAV, after the flag and before the worker is stopped.
  In the loop over a timeout it ends the handler, whose finally clause goes on with the rest
  (`InactivityFails`); in the finally clause it ends the loop (`Cut`), in a pipeline it ends the pipeline.
* `Transcript` here is the fallback chain of `_finish_asr_worker_and_finalize`, `PoppedBy` the `pop` of an id
  that may by then be another stream's.

**`ResponsePipeline`** - what happens after that, to the streams that have ended: each submits
`finish()`, the LLM and the TTS as jobs to the one thread pool of the process, then sends its playback
message by message on a socket shared with the other pipelines of its connection. `TakeJob` is
a thread of the pool; a Piper job first makes a temporary WAV, may find no executable, fail,
hang for ever (it is run without a timeout) or leave a WAV of any length, readable or not. A
connection may close before any message. `VoiceServer` has the pipeline's effect on its stream and
no pool; this module has the pool and takes the end of the stream for granted.

**`EdgeDevice`** - `app_main`, the audio task and the WebSocket task. Sends may block and may
fail, so `s_status` is written in a step of its own after a send (`MarkStreaming`, `EndStream`).
`InitReturns` is the write of `CONNECTING` at the end of `ws_client_init`, after the client was
started; the handshake may be over by then. The client may fail to start, and so may the
microphone, after which `app_main` goes on or returns. A frame is known by its place in the
capture and by how many the microphone lost just before it; every frame read is pushed into the ring
before anything else is done with it (`Read`), below the energy gate (`ReadQuiet`), for the keyword
engine (`ReadLoud`) or live (`SendLive`), and the pre-buffer is extracted from that ring. It extends:

* **`KeywordEngine`**, the smoothing window and the trigger latch of `kws_engine.c`; `ReadLoud` gives it
  one score, `EndStream` resets it. Features, weights and sigmoid come down to the score of a frame.
* **`AudioRing`**, the ring buffer, and through it **`AudioWindow`**, what it promises: a window on the
  latest `Capacity` frames. `AudioRing` implements `AudioWindow` under the mapping `recent <- Contents`,
  the ring read from its oldest slot.
* **`WireProtocol`**, operators for `protocol_frames.c` and `protocol.py` on the bytes of a header: the
  shifts and masks of the one, the `struct` format and the validation of the other.
  `FramesUnderstood` applies them to the frames the device sends.

**`LaptopClient`** - the PortAudio thread, the audio task with `start_streaming` awaited inside
it, and `run()`. Cancellation (`CancelTask`) can reach the audio task wherever it is.

`MC<module>` declares the model values of a module for TLC; the `*Proofs` modules hold the
theorems. Operators marked "Mutant:" are plausible bugs of the definition that follows
them and take part in no specification; each one is listed in `PROJECT.json` with the property that
fails when it takes the place of the definition.

## 3. Runs

| Run | Configuration | Bounds | Shows |
|---|---|---|---|
| `asr_threads` | `AsrWorker_threads.cfg` | 3 chunks; raising recognizer, timed-out joins, missing model | `QueueInOrder`, `NothingLost`, `NoTextTwice`, `Drained`, `NoneOnlyWhenDue`; `RefinesTranscript`; `FinishReturns`, `FinishEndsWorker`, `StopEndsWorker` |
| `stream_audio` | `StreamAudio_small.cfg` | frames of 2 samples, recording of 10, gap of 3, offsets up to 13, endpoint after 2 frames | `PlacedAtOffset`, `Contiguous`, `EndpointExact` |
| `server` | `VoiceServer_all.cfg` | 1 connection, 2 ids, 2 streams, 2 frames | `OneRecordingOneReply`, `NoWorkerLeaks`, `ClosureEndsStreams`, `TranscriptInOrder`, `SpeechIsAnswered`, `StreamEnds` |
| `response` | `ResponsePipeline_play.cfg` | 3 pipelines of 2 connections, 2 threads, answers of 0 to 3 frames, `seq` up to 1 | `PlaybackInOrder`, `AnswerComplete`, `NoTempLeft`, `PipelineEnds` |
| `device_stream` | `EdgeDevice_stream.cfg` | 2 pre-buffer and 2 live frames, ring of 3, captures counted modulo 3, one frame lost at a time; scores 0 and 3, window of 2, threshold 2; three ids | `SmoothsLatest`, `ExtractsLatest`, `RefinesWindow`, `OneStreamPerDetection`, `StreamIsTheCapture`, `FramesUnderstood`, `AckedMeansReady`, `StreamingEnds`, `ReadyAgain` |
| `laptop` | `LaptopClient_stream.cfg` | 6 frames, pre-buffer of 2 | `WireIsTheCapture`, `SavedIsSent`, `ShutsDown` |
| `asr_finish_final` | `AsrWorker_finish_final.cfg` | 2 chunks, nothing fails | finding 1 |
| `asr_loop_blocked` | `AsrWorker_loop_blocked.cfg` | 2 chunks, nothing fails | finding 2 |
| `server_inactive` | `VoiceServer_inactive.cfg` | 1 stream, 1 frame | finding 3 |
| `server_evicted` | `VoiceServer_evicted.cfg` | 2 streams, 1 id, 1 frame | finding 4 |
| `device_order` | `EdgeDevice_order.cfg` | as `device_stream` | finding 5 |
| `device_deaf` | `EdgeDevice_deaf.cfg` | as `device_stream`, `InsistentSpec` | finding 6 |

Each passing run checks the type invariant of its module besides the properties named.

Why the bounds are enough:

* Three chunks let one be queued, one in hand and one in an open utterance, with a
  sentinel behind them; more chunks repeat these situations. The proofs of
  section 5 need no bound.
* The sizes of `StreamAudio` make a gap that is and one that is not a multiple of a frame,
  a gap at the limit and beyond it, a recording that is filled exactly, one that is short of a
  whole frame, and one whose last gap is clipped; offsets reach past the maximum.
* Two streams of one connection can overlap, follow one another, or follow with the same id while the first
  pipeline is still running, when the one pops the other; one of them can be the stream whose WAV cannot be
  written before the other's turn in a loop. Streams of different connections share nothing in this module. Two
  frames give two chunks, with the flush three utterances: one polled and one left in the queue, one stale
  partial before a final result, one queued and one withheld, one in the transcript and the next appended
  at the end of the pipeline. Longer transcripts are the subject of the proofs.
* Three pipelines on two threads: one waits for a thread whatever the others do, both threads can
  hang, two of them play on one socket and the third shares only the pool. An answer of three
  frames has a first, a middle and a last one, and with numbers up to 1 it is one frame longer than
  `seq` can count.
* A stream of 2 + 2 frames has a first and a last frame of either kind, and the link can be lost and
  return between any two of them any number of times. The ring of three is larger than the pre-buffer and
  wraps at every position relative to a detection; a detection may come before it is full, so the
  stream begins with silence. Capture numbers modulo 3 tell each frame from its neighbours up
  to the one after the next, which is as far as a frame read late can jump. With these scores an average
  can be reached by one frame, missed by one, and reached again at any position of the window, and
  a stream can start at every index. The ids are one of one byte, one at the boundary of 16 bits and one
  of 31 bits.
* Six frames with a pre-buffer of two let the pre-buffer overflow before the keyword and audio
  queue up during the handshake.

Bounds that exist only for checking are `MaxChunks`, `MaxOffset`, `MaxStreams`,
`MaxFrames`, `Cycle`, `MaxLost` (frames lost to one late read) and `MaxGaps` (such losses that the ring, or the
stream, remembers at once; 1 and 1 in the runs, with any number of them one after the other). The other numeric
constants are constants of the code, scaled down.
`CHECK_DEADLOCK` is off in the run `response` only, where every stream has been answered and
nothing remains to be done, or every thread of the pool hangs; elsewhere, where a component has legitimately
ended, a named stuttering action (`Terminated`, `Idle`, `Over`) says so.

## 4. Fairness

* `AsrWorker`: the operating system schedules a thread that can run, and a call that has begun on the
  loop thread is completed. No further frame, no `finish()` and no `stop()` is promised. A join that may time
  out counts as a step that can run; `FinishReturns` relies on it, as the code does with its 5 seconds.
* `VoiceServer`: the event loop runs ready tasks, a thread of the pool runs `finish()`, and that returns
  (`FinishReturns` of `AsrWorker`; that a thread is free is the exception of `PipelineEnds`). A `recv` that hears nothing
  times out; nothing keeps the client from sending, and a message disables the timeout that was due, so
  weak fairness of `TimePasses(c) \/ Inactivity(c)` promises nothing on a connection that is kept busy. That is why
  `StreamEnds` has the premise that the client does not send for ever, and why `InactivityEndsStreams`
  fails without it. Nothing is assumed of the worker, LLM, TTS and playback.
* `ResponsePipeline`: threads and event loop keep running, the LLM answers or its read times out, a send that
  blocks ends with its connection (the library's ping timeout). A Piper process may hang for ever:
  `PiperHangs` is a way to take that step, and what hangs has no further step.
* `EdgeDevice`: `app_main` goes on, FreeRTOS runs every ready task, the microphone delivers frames, a send
  gives up at its timeout. That the link comes up is not promised. `InsistentSpec` adds frames that keep
  reaching the engine and a network that comes back; only `WakeWordAnswered` is read under it.
* `LaptopClient`: the loop runs `run()` and the audio task; connect, send and the server's answer come or
  fail. New frames and signals are not promised.

## 5. Proofs

TLAPS proves, for every value of the constants that satisfies the assumptions named, that is for
any number of chunks, frames, streams, connections and ids, and any sizes of buffers and windows:

* **`AsrWorkerProofs`**: `TypesHold` and `ChunksInOrder` (`Spec => []QueueInOrder`). `QueueInOrder` alone is not
  inductive: a chunk could be on its way to the queue when `finish()` appends the sentinel.
  `SentinelInv` adds why it cannot: while the loop thread is between the test and the `put` no
  `finish()` has been asked for, and before its `put` there is no sentinel on the queue. Three
  lemmas treat the steps that touch the queue; `QuietQueue` treats all the others at once.
  Assumptions: `MaxChunksAssumption`, `FlagsAssumption`, `NoResultAssumption`.
  On top of it: `EveryChunkAccounted`, `EveryChunkOnce`, `ThreadsTranscribe` (the
  refinement of `Transcript`), `FinishDrains` and `NoneMeansLost`. `Partition` reads `NothingLost` and `NoTextTwice` as
  one statement: queued, in hand, open, settled and dropped chunks partition what was sent.
  `HandInv` adds that the chunk in hand is the one taken last, behind the open utterance. Every step
  then hears, drops, closes or only moves a result (`HearStep`, `DropStep`, `CloseStep`, `StayStep`), which
  gives both the invariants and the refinement. `EndInv` follows `finish()`: once it has joined without
  a timeout and nobody stopped the worker, the worker has left through the sentinel.
  `StopEndsSoon` and `FinishRunsOut` are the part of the liveness properties that needs no fairness: after `stop()`
  the worker has seven steps left at most, however much is queued; after the sentinel of `finish()` it never polls an
  empty queue and has at most so many steps left as `DrainAhead` says, unless `FinalResult` raises.
  They rest on `SentinelThere`: the sentinel stays the last item of the queue until it is taken.
* **`StreamAudioProofs`**: `TypesHold`, `FramesInPlace`, `RecordingContiguous` and `EndpointIsExact`. The strengthening is
  `OffsetInv`: the recording has reached the expected offset, or it is full and its last frame was pulled back
  to its end. So an accepted frame lands where its offset says, which is `AcceptPlaces`; from it
  follow position, contiguity and the bound on the length. For the endpoint, `DetectorInv` ties the silence
  count to the frames placed. Assumption: `SizesAssumption` (a frame is not empty and fits into a recording).
* **`VoiceServerProofs`**: `TypesHold`, `WrittenAndAnsweredOnce`, `ClosureFinalizes`, `WorkersEnd`, `UtterancesInOrder`,
  `SpeechAnswered` and `StreamsNeverForgotten`. The invariant has two layers.
  `IInv`: `RecordInv` says of one stream how its counters, flags, worker and task go together; each operation is
  shown to preserve it on the record alone (`FinalizedInv`, `BrokenInv`, `WithTaskInv`, ...), as part of `Evolves`.
  `TableInv` says that the dictionaries name streams by connection and id, and list every stream of an open
  connection that has not begun to end, unless its entry was taken away (`Live`, `Forsaken`).
  `WordsInv`, on top of it, follows the words. `Numbered` says that there is a function which gives each place
  of the result queue the number of utterances complete by then, so that what is in the transcript, what waits in the queue
  and what was withheld have every utterance between them, once and in order (`Numbering`). Polling
  moves that function on by one place (`ShiftedNumbering`), and the head of the queue is always the next utterance or
  none (`HeadNext`). From there `UtterancesInOrder` says what the transcript looks like in every state, and
  `SpeechAnswered` that a pipeline whose `finish()` made the worker end with nothing withheld and nothing left in the queue has every
  utterance the recognizer completed in the transcript, whether it was polled or not, and asks the LLM. That finals are lost behind
  a stale head, or withheld, is thereby stated as the condition and not hidden. The properties' other exceptions are states
  of the stream, not possibilities: a worker `finish()` did give up on, a WAV that did fail, an entry that was taken. `StreamsNeverForgotten`
  is the part of `StreamEnds` that needs no fairness. Assumptions: `BoundsAssumption`, `NoStreamAssumption`.
* **`ResponsePipelineProofs`**: `TypeCorrect`, `PlaybacksInOrder`, `AnswersComplete`, `TempsRemoved`, `PoolNeverStalls` and
  `PipelinesRunOut`, for any number of pipelines, connections and threads. The inductive invariant has three
  parts. `PoolOK`: a pipeline that awaits the pool has exactly one job there, queued or on one of the threads. `SynthOK`:
  only a running synthesis has a temporary file or hangs. `PlayOK`: `CountOK`, a connection has heard as many messages
  under a stream's id as its pipeline has counted; `WireOK`, the k-th of them is the k-th message of the playback; and
  `ProgressOK`, how many there are by the stage of the pipeline. Other streams' messages between them do not disturb
  it, because counting by id passes over them (`HeardMore`). `PoolNeverStalls`: as long as fewer processes hang than there are
  threads, whoever waits for the pool waits for a job that can end or a thread that is free. `PipelinesRunOut`: each step
  of a pipeline decreases `StepsLeft`, and nothing else increases it. Assumption: `PipelineAssumption`.
* **`AudioRingProofs`**: `RingTypes`, `RingIsWindow` (`RingSpec => RefinesWindow`) and `ExtractionShowsLatest`.
  `RingOK` is inductive as it stands, because it says that index and count agree until the ring is
  full. `ContentsValue` computes the slot of the i-th remembered frame without `%`; `PushRefines`
  then compares the contents before and after a push, full or not. Assumptions:
  `CapacityAssumption`, `ZeroAssumption`.
* **`WireProtocolProofs`**: `FirmwareIsUnderstood` and `BackendIsAccepted`, for every header: the bytes of a field are
  its digits to base 256, and reading them back gives the field if it fits its width.
* **`EdgeDeviceProofs`**: `DeviceTypes`, `OneStream`, `StreamUnbroken`, `StreamUnderstood`, `AckedIsReady`, `DeviceRingIsWindow`,
  `DeviceExtractsLatest`, `EngineSmoothsLatest`, `StreamNeverHeldUp` and `StreamsRunOut`. `DeviceInv` has four parts. `LinkInv`: an acknowledged hello belongs
  to the link that is up, and no event is being handled. `LogInv`: the frames sent are numbered by their place and
  `PhaseInv` says how many there are at each point of the audio task. `RingInv`: the ring is one stretch
  of the capture that ends with the frame read last. `PrebufferInv`: while the pre-buffer is sent, what was sent is
  the beginning of what is extracted, since nobody writes the ring meanwhile. `StreamIsTheCapture` then
  needs no strengthening: inside the pre-buffer it is the stretch, at the seam and after it the
  frame sent is the one read after the last. It holds however many frames the microphone loses, and where. For
  `EngineSmoothsLatest`, `LatestScores` computes the slot of each of the latest scores without `%`.
  `StreamNeverHeldUp` and `StreamsRunOut` are the part of `StreamingEnds` that needs no fairness: every step of the audio task
  brings a stream nearer to its end, nothing that becomes of the link takes it back, and no step has to wait. Assumptions: `FramesAssumption` (the ring has room for the pre-buffer),
  `WireAssumption` (a stream has at most 65536 frames and ids are of 32 bits), `CaptureAssumption`, `EngineAssumption`
  and those of `AudioRing`.
* **`LaptopClientProofs`**: `ClientTypes`, `ClientSendsCapture`, `ClientSavesSent` and `ShutdownIsClean`. `ClientInv` says that the queue holds the
  consecutive frames up to the last one captured, that the pre-buffer holds the latest ones taken from
  it until the keyword and is left alone until it is sent, that no frame is taken between, and that in the live loop the
  numbers of frames taken and sent determine each other (`LiveInv`). `ShutdownIsClean` is the part of `ShutsDown` that needs no fairness: a client that has shut
  down has neither task nor connection. Assumption: `FramesAssumption`.

Every invariant and action property that a passing run checks is proved, and so are both refinements. Model-checked
only are the liveness properties (`FinishReturns`, `FinishEndsWorker`, `StopEndsWorker`, `StreamEnds`, `PipelineEnds`,
`StreamingEnds`, `ReadyAgain`, `ShutsDown`): TLAPS reaches neither fairness nor `ENABLED`. Of what they rest on, the theorems
above prove that the work left is bounded by a number that every step of the component itself decreases (`StopEndsSoon`,
`FinishRunsOut`, `PipelinesRunOut`, `StreamsRunOut`), that a next step is never missing (`PoolNeverStalls`, `StreamNeverHeldUp`,
`StreamsNeverForgotten`), and that the end is clean (`ShutdownIsClean`). That the steps there are will be taken
is what fairness adds. These theorems state no property of a run; the formulas were model-checked before they
were proved.

## 6. Findings

1. `finish()` returns the oldest result still queued (`worker.py:118`), which may be an earlier
   partial; its docstring and test promise the final transcription.
2. `finalize()` joins the worker thread on the event loop (`server.py:518`, `worker.py:75`), for up to 5
   seconds if it is inside the recognizer; decision DEC-ASIO-008 says the loop must not be blocked.
3. The inactivity timeout belongs to one `recv` of the connection (`server.py:275-277`), so any message restarts it: a
   frame of another stream, or the frames of a stream that are all dropped for their offset. `PROTOCOL.md:30` says
   that a stream ends after 1.5 s of inactivity.
4. The pipeline pops its stream's id after an `await` (`server.py:641`). Stopped twice, a stream leaves
   the table before its pipeline has ended; a new stream with that id is then popped instead of it, and
   closing the connection no longer ends that one, contrary to `PROTOCOL.md:30`.
5. The device ignores the result of the start and marks itself ready after every stop, so frames or
   a start can precede what must come before them on a new connection.
6. A wake word spoken while the client is not ready latches the keyword engine for good.

Disagreements between code and text that were met while modelling and have no run of their own:

* The comment at `worker.py:231` speaks of partial results, but the guard on `_finished` also
  withholds a final result that the recognizer produced from a queued chunk. Its words are not in
  `FinalResult()` either, so nothing but the model's `withheld` remembers them.
* If a stream was finalized before its pipeline's first turn (maximum duration, closure), `last_asr_result` is
  appended to the accumulated text a second time (`server.py:545`, `635`), so the last utterance is put to the LLM twice.
  `TranscriptInOrder` has it as an exception. No text promises otherwise, so it is not among the findings.
* The recording's file name is made of the stream id only (`server.py:499`), though `ARCHITECTURE.md:52` calls streams
  independent per (connection, stream_id): a later recording replaces an earlier one of another
  connection. It can be read off that line and needs no run.
* If the inactivity timer fires while the pipeline awaits `finish()` (`server.py:280`), the stream is
  finalized and its worker stopped, and the "authoritative final" result of `server.py:632` is cut short.
* When `finish()` gave up, because the join timed out or because `FinalResult` raised (`worker.py:241-244`, after which the loop
  goes on without a sentinel), `server.py:533` drops the worker without `stop()`, and its thread may loop for ever.
  `NoWorkerLeaks` names such a worker, `abandoned`, as its exception; `FinishEndsWorker` of `AsrWorker` does the same.
* `finalize()` sets its flag before it writes the WAV (`server.py:497-504`), so when that raises the worker is not
  stopped and no later call makes up for it; in the finally clause (`server.py:290`) the remaining streams of
  the connection are not finalized at all. Hence `broken` and `PassedOver` in the properties.
* `ws_client_init` overwrites the status after the client task was started (`ws_client.c:86`). It is
  the one exception in `AckedMeansReady` and `ReadyAgain`.
* `audio_ring_buffer_extract_recent` returns the number requested where the header promises the
  actual number (`audio_ring_buffer.h:47`, `.c:54`), and `get_count` the frames in the buffer where the header says
  the total pushed (`audio_ring_buffer.h:56`).
* The smoothing divides by the number of scores so far, so after a reset a single frame may
  trigger; "8 frames (160ms) smoothing window" (`kws_engine.h:18`) is the most, not the least.
* The firmware sends its pre-buffer and then up to the configured ten seconds of live audio, more
  than the ten seconds a recording may have, so the server's maximum ends a full stream.

## 7. Not modelled, and why

* Payloads, energy, features and weights of the keyword, resampling: data on which no control
  depends beyond a bit (speech or not) or a small score that the models choose freely.
* The HTTP client of the LLM, the Piper program, Vosk: external calls that answer, fail or never return. The `say`
  provider of the TTS is one such call; telemetry is arithmetic on time stamps.
* What the server replies to a message in error, and what `play_stop` from the device says: of these messages only their
  arrival counts, which restarts the timeout.
* Files: what is in a recording is `StreamAudio`'s matter, its path and who else writes it nobody's. An `os.unlink` of
  the temporary WAV that fails is swallowed by the code and left out (`tts/provider.py:248-252`).
* Memory: that `audio_capture_task` keeps a buffer of 25600 bytes (`prebuf_dump`, `main.c:84`) among its local variables while its task
  is created with a stack of 8192 bytes (`main.c:230`) is outside any of these models; `EdgeDevice` describes the task as it runs
  with stack enough.
* Time: timeouts are events that may happen at any point the code allows; durations are counted in frames.
* Capture inside the I2S driver, Wi-Fi association: seen only as frames that come or are lost and a link that
  goes up and down. `ws_client_stop` and `ws_client_get_status` have no caller.
* `PCMFrameBuffer` chunking: the server only feeds it payloads of one chunk, so that it never holds
  a remainder.
* `run`, `main` and `shutdown` of the server: argument parsing and calls of the WebSocket library.
* The simulator, the benchmarks and the comparison tools keep no state of the system. The simulator is a
  straight-line client; what it sends is among the inputs of `VoiceServer` and `StreamAudio`.

## 8. Plan

The order was: worker threads (the most delicate interleavings), audio placement, server, device, ring
buffer, laptop client; then the abstract transcript, the responses with their thread pool, the wire protocol, and
the device together with its ring and its headers; then the proofs of section 5. What would be worth
adding, in order:

1. `Session`: a device and a server composed over a connection that loses frames with the link, with
   the order of messages stated end to end.
2. An abstract stream life (live, ending, finalized, answered) that `VoiceServer` implements for each stream, and
   the proof of it from `Evolves`.
