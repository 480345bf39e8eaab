--------------------------- MODULE ResponsePipeline ---------------------------
(***************************************************************************)
(* What backend/server.py does with the streams that have ended: each has  *)
(* a pipeline task (_finish_asr_worker_and_finalize) which runs finish(),  *)
(* the LLM and the TTS one after the other as jobs of asyncio's default    *)
(* thread pool, shared by all connections, and then plays the answer back, *)
(* message by message, on a socket that all pipelines of a connection      *)
(* write to.  Module VoiceServer has the pipeline's effect on its stream,  *)
(* and takes all of this for granted.                                      *)
(*                                                                         *)
(* External: the pool takes jobs in the order of submission; the LLM's     *)
(* HTTP server answers or fails (a read times out after two minutes); the  *)
(* Piper process, run without a timeout, ends, fails or hangs.             *)
(***************************************************************************)
EXTENDS Naturals, Sequences, FiniteSets

CONSTANTS Stream,    \* the streams that end
          Conn,      \* the connections
          ConnOf,    \* [Stream -> Conn]: the stream's ws
          PoolSize,  \* the threads of the default executor
          MaxFrames, \* bound: frames of an answer
          MaxSeq     \* the largest seq, 0xFFFF

ASSUME PipelineAssumption ==
  /\ ConnOf \in [Stream -> Conn]
  /\ PoolSize \in Nat \ {0} /\ MaxFrames \in Nat /\ MaxSeq \in Nat

VARIABLES
  stage,   \* where a pipeline is: idle, asr, llm, tts, piper, play, done
  queue,   \* the pool's jobs not yet begun, as the streams they are for
  busy,    \* the streams whose job has a thread
  hung,    \* the streams whose Piper process will never end
  tmp,     \* the streams whose temporary WAV exists
  audio,   \* the length of the answer, in frames, the last one padded
  sent,    \* how many messages of its playback a pipeline has sent
  open,    \* the connections that are open
  wire     \* history: what each connection was sent

poolVars == <<queue, busy>>
synthVars == <<hung, tmp, audio>>
playVars == <<sent, wire>>
vars == <<stage, poolVars, synthVars, playVars, open>>

Init ==
  /\ stage = [s \in Stream |-> "idle"]
  /\ queue = <<>> /\ busy = {} /\ hung = {} /\ tmp = {}
  /\ audio = [s \in Stream |-> 0] /\ sent = [s \in Stream |-> 0]
  /\ open = Conn
  /\ wire = [c \in Conn |-> <<>>]

-----------------------------------------------------------------------------
(* Jobs: asyncio.to_thread, and what the pipeline does with a result *)

GoesTo(s, next) == stage' = [stage EXCEPT ![s] = next]

\* The pipeline awaits a job it submits; its previous job gives its thread back.
Submit(s, next) ==
  GoesTo(s, next) /\ queue' = Append(queue, s) /\ busy' = busy \ {s}

\* The pipeline returns, or goes on without the pool.
Leave(s, next) ==
  GoesTo(s, next) /\ busy' = busy \ {s} /\ UNCHANGED queue

\* A transcript is put to the LLM; a blank one ends the pipeline.
Transcribed(s) == Submit(s, "llm") \/ Leave(s, "done")

\* A stream whose worker finalize() has stopped needs no finish().
Begin(s) ==
  /\ stage[s] = "idle"
  /\ Submit(s, "asr") \/ Transcribed(s)
  /\ UNCHANGED <<synthVars, playVars, open>>

\* A thread that is free takes the next job.
TakeJob ==
  /\ queue # <<>> /\ Cardinality(busy) < PoolSize
  /\ queue' = Tail(queue) /\ busy' = busy \cup {Head(queue)}
  /\ UNCHANGED <<stage, synthVars, playVars, open>>

FinishReturns(s) ==
  /\ stage[s] = "asr" /\ s \in busy
  /\ Transcribed(s)
  /\ UNCHANGED <<synthVars, playVars, open>>

\* generate_with_telemetry joins the chunks streamed to a text for the TTS.
LlmAnswers(s) ==
  /\ stage[s] = "llm" /\ s \in busy
  /\ Submit(s, "tts")
  /\ UNCHANGED <<synthVars, playVars, open>>

\* Ollama cannot be reached, refuses, stops sending, or has nothing to say.
LlmGivesNothing(s) ==
  /\ stage[s] = "llm" /\ s \in busy
  /\ Leave(s, "done")
  /\ UNCHANGED <<synthVars, playVars, open>>

\* PiperTTSProvider.synthesize_pcm without an executable or a model raises.
PiperMissing(s) ==
  /\ stage[s] = "tts" /\ s \in busy
  /\ Leave(s, "done")
  /\ UNCHANGED <<synthVars, playVars, open>>

PiperStarts(s) ==
  /\ stage[s] = "tts" /\ s \in busy
  /\ GoesTo(s, "piper") /\ tmp' = tmp \cup {s}
  /\ UNCHANGED <<poolVars, hung, audio, playVars, open>>

\* Mutant: the temporary WAV is removed on success only.
RemainingIfOk(s, n) == IF n = 0 THEN tmp ELSE tmp \ {s}

\* finally: os.unlink
Remaining(s, n) == tmp \ {s}

\* Piper ends with an answer of n frames, or with nothing to play: an error, an
\* unreadable WAV, or one without sound.
PiperEnds(s, n) ==
  /\ stage[s] = "piper" /\ s \notin hung
  /\ Leave(s, IF n = 0 THEN "done" ELSE "play")
  /\ audio' = [audio EXCEPT ![s] = n] /\ tmp' = Remaining(s, n)
  /\ UNCHANGED <<hung, playVars, open>>

PiperHangs(s) ==
  /\ stage[s] = "piper" /\ s \notin hung
  /\ hung' = hung \cup {s}
  /\ UNCHANGED <<stage, poolVars, tmp, audio, playVars, open>>

-----------------------------------------------------------------------------
(* send_playback *)

\* Mutant: the playback has an id of the server's own, which stays the same.
AudioIdFixed(s) == CHOOSE t \in Stream : TRUE

\* audio_id=stream.stream_id; the streams here are those with ids of their own.
AudioId(s) == s

\* Mutant: LAST on the frame after the last.
LastFrameLate(s, seq) == seq = audio[s]

LastFrame(s, seq) == seq = audio[s] - 1

Control(kind, id) == [type |-> kind, audio_id |-> id]
FrameMessage(id, seq, first, last) ==
  [type |-> "frame", audio_id |-> id, seq |-> seq, first |-> first, last |-> last]

\* The message that is due, after so many of this playback.
Due(s) ==
  LET k == sent[s]
  IN  CASE k = 0        -> Control("play_start", AudioId(s))
      []   k > audio[s] -> Control("play_stop", AudioId(s))
      []   OTHER        -> FrameMessage(AudioId(s), k - 1, k = 1, LastFrame(s, k - 1))

\* Mutant: the range of seq is not validated.
PacksAnything(s) == TRUE

\* pack raises for a seq that does not fit its field.
Packs(s) == ~(sent[s] \in 1..audio[s] /\ sent[s] - 1 > MaxSeq)

\* Mutant: the last frame ends the playback.
FinishedAtLast(s) == sent[s] >= audio[s]

Finished(s) == sent[s] > audio[s]

\* Mutant: a send waits for a closed connection.
FailsPackOnly(s) == ~Packs(s)

Fails(s) == ConnOf[s] \notin open \/ ~Packs(s)

\* await ws.send, and the next turn of the loop.
SendNext(s) ==
  /\ stage[s] = "play" /\ ConnOf[s] \in open /\ Packs(s)
  /\ wire' = [wire EXCEPT ![ConnOf[s]] = Append(@, Due(s))]
  /\ sent' = [sent EXCEPT ![s] = @ + 1]
  /\ IF Finished(s) THEN GoesTo(s, "done") ELSE UNCHANGED stage
  /\ UNCHANGED <<poolVars, synthVars, open>>

\* What send or pack raises is logged, and the pipeline ends.
SendRaises(s) ==
  /\ stage[s] = "play" /\ Fails(s)
  /\ GoesTo(s, "done")
  /\ UNCHANGED <<poolVars, synthVars, playVars, open>>

\* Pipelines outlive their connection.
Close(c) ==
  /\ c \in open /\ open' = open \ {c}
  /\ UNCHANGED <<stage, poolVars, synthVars, playVars>>

Step(s) ==
  \/ Begin(s) \/ FinishReturns(s) \/ LlmAnswers(s) \/ LlmGivesNothing(s)
  \/ PiperMissing(s) \/ PiperStarts(s) \/ PiperHangs(s)
  \/ \E n \in 0..MaxFrames : PiperEnds(s, n)
  \/ SendNext(s) \/ SendRaises(s)

Next == TakeJob \/ (\E s \in Stream : Step(s)) \/ (\E c \in Conn : Close(c))

\* Threads and event loop keep running; finish() returns (module AsrWorker), so
\* does the LLM, and a send that blocks ends with its connection (ping_timeout).
Fairness == WF_vars(TakeJob) /\ \A s \in Stream : WF_vars(Step(s))

Spec == Init /\ [][Next]_vars /\ Fairness

-----------------------------------------------------------------------------
(* Properties *)

Message ==
  [type : {"play_start", "play_stop"}, audio_id : Stream]
    \cup [type : {"frame"}, audio_id : Stream, seq : 0..MaxSeq,
          first : BOOLEAN, last : BOOLEAN]

Queued == {queue[i] : i \in 1..Len(queue)}

\* Types; a pipeline has one job in the pool while it awaits one, else none.
TypeOK ==
  /\ stage \in [Stream -> {"idle", "asr", "llm", "tts", "piper", "play", "done"}]
  /\ queue \in Seq(Stream)
  /\ \A i, j \in 1..Len(queue) : queue[i] = queue[j] => i = j
  /\ busy \subseteq Stream /\ Cardinality(busy) <= PoolSize
  /\ busy \cap Queued = {}
  /\ busy \cup Queued = {s \in Stream : stage[s] \in {"asr", "llm", "tts", "piper"}}
  /\ hung \subseteq busy /\ tmp \subseteq Stream
  /\ audio \in [Stream -> 0..MaxFrames] /\ sent \in [Stream -> 0..(MaxFrames + 2)]
  /\ open \subseteq Conn /\ wire \in [Conn -> Seq(Message)]

\* A playback of n frames, as the device is to hear it.
Playback(s, n) ==
  IF n = 0 THEN <<>>
  ELSE [k \in 1..(n + 2) |->
          CASE k = 1     -> Control("play_start", s)
          []   k = n + 2 -> Control("play_stop", s)
          []   OTHER     -> FrameMessage(s, k - 2, k = 2, k = n + 1)]

\* How many of the first n messages are under a stream's id.
Heard(messages, s, n) == Cardinality({i \in 1..n : messages[i].audio_id = s})

\* However the playbacks of a connection interleave and wherever they are cut
\* off, the messages under a stream's id are the beginning of its playback, on
\* its own connection: the k-th of them is the k-th of the playback.
PlaybackInOrder ==
  \A c \in Conn : \A i \in 1..Len(wire[c]) :
    LET s == wire[c][i].audio_id
        k == Heard(wire[c], s, i)
    IN  /\ ConnOf[s] = c /\ k \in 1..Len(Playback(s, audio[s]))
        /\ wire[c][i] = Playback(s, audio[s])[k]

\* A pipeline that is done has played its answer to the end, unless the
\* connection was closed, or the answer has more frames than seq can count: then
\* the device gets all it can count, and neither LAST nor play_stop.
AnswerComplete ==
  \A s \in Stream :
    LET c == ConnOf[s]
        n == Heard(wire[c], s, Len(wire[c]))
    IN  stage[s] = "done" =>
          \/ n = Len(Playback(s, audio[s]))
          \/ c \notin open
          \/ audio[s] > MaxSeq + 1 /\ n = MaxSeq + 2

\* A synthesis leaves its temporary WAV behind only if its process never ends.
NoTempLeft == \A s \in tmp : stage[s] = "piper"

\* Every pipeline ends, whatever fails and whoever leaves, as long as fewer Piper
\* processes hang than the pool has threads and none of them is its own.
PipelineEnds ==
  \A s \in Stream :
    stage[s] # "idle" ~> \/ stage[s] = "done" \/ s \in hung
                         \/ Cardinality(hung) = PoolSize
=============================================================================
