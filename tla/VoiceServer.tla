----------------------------- MODULE VoiceServer -----------------------------
(***************************************************************************)
(* backend/server.py: the connection handlers and the response pipelines   *)
(* that share one asyncio event loop.  A step is what runs between two     *)
(* suspensions of the loop: one message of a connection (handler with      *)
(* _control or _audio), one timeout of its recv, its end, or one stretch   *)
(* of a pipeline task (_finish_asr_worker_and_finalize) between awaits;    *)
(* or what the worker thread of a stream does with one chunk.              *)
(*                                                                         *)
(* A stream is an object numbered in the order of the start messages; its  *)
(* id is the client's.  Recognized text is the number of the utterance it  *)
(* transcribes, 0 the blank text.  What a frame does to the recording is   *)
(* module StreamAudio, the threads of a worker in detail module AsrWorker; *)
(* of a worker this module keeps the chunks, the queue of results, and     *)
(* what becomes of the thread.  The LLM, the TTS, the socket and the disk  *)
(* are external and may fail.                                              *)
(***************************************************************************)
EXTENDS Naturals, Sequences, FiniteSets

CONSTANTS Conns,          \* the WebSocket connections
          Ids,            \* the stream ids clients use
          MaxStreams,     \* bound on start messages
          MaxFrames,      \* bound on the accepted frames of all streams
          NoStream        \* an absent dictionary entry

ASSUME BoundsAssumption == MaxStreams \in Nat \ {0} /\ MaxFrames \in Nat

Stream == 1..MaxStreams
ASSUME NoStreamAssumption == NoStream \notin Stream

Blank == 0
Text  == Nat

VARIABLES
  open,     \* Conns -> BOOLEAN: the handler of the connection runs
  hello,    \* Conns -> BOOLEAN: handler's hello is not None
  idle,     \* Conns -> BOOLEAN: the timeout of its recv has all but run out
  table,    \* Conns -> [Ids -> Stream or NoStream]: handler's streams
  count,    \* how many Stream objects have been created
  fed,      \* history: how many frames have been accepted
  st        \* [1..count -> the Stream objects]

vars == <<open, hello, idle, table, count, fed, st>>

NewStream(c, i) ==
  [conn |-> c, id |-> i,
   finalizing |-> FALSE, finalized |-> FALSE,
   worker |-> "none",            \* none, or it ended after finish(); failed to
                                 \* start; running; finishing: finish() is to be
                                 \* called; draining: finish() waits; stopped
                                 \* before finish(), interrupted during it;
                                 \* abandoned: finish() gave up, the thread lives
   queued |-> 0,                 \* chunks on audio_queue
   said |-> 0,                   \* utterances the recognizer has completed
   results |-> <<>>,             \* result_queue: [final, text]
   withheld |-> FALSE,           \* history: words completed and not queued
   accumulated |-> <<>>,         \* accumulated_text
   last |-> Blank,               \* the text of last_asr_result
   partial |-> Blank,            \* last_partial_text
   task |-> "none",              \* the pipeline task: created, asr, llm (and
                                 \* all that follows), done
   tasks |-> 0,                  \* history: create_task calls
   written |-> 0,                \* history: times the WAV was opened
   broken |-> "no",              \* history: the WAV could not be written: "write",
                                 \* or "closing", in the handler's finally clause
   evicted |-> FALSE]            \* history: another stream took its entry away

Init ==
  /\ open = [c \in Conns |-> TRUE] /\ hello = [c \in Conns |-> FALSE]
  /\ idle = [c \in Conns |-> FALSE]
  /\ table = [c \in Conns |-> [i \in Ids |-> NoStream]]
  /\ count = 0 /\ fed = 0 /\ st = <<>>

Entries(c) == {table[c][i] : i \in Ids} \ {NoStream}

\* The thread of such a worker goes on.
Alive == {"running", "finishing", "draining"}

-----------------------------------------------------------------------------
(* Operations on one Stream object *)

\* Mutant: the WAV is written whether or not it has been.
FinalizedAgain(r) == [r EXCEPT !.finalized = TRUE, !.written = @ + 1]

\* Mutant: finalize() leaves the worker running.
FinalizedWorkerKept(r) ==
  IF r.finalized THEN r ELSE [r EXCEPT !.finalized = TRUE, !.written = @ + 1]

\* finalize(): the flag, the WAV, then stop_asr_worker.
Finalized(r) ==
  IF r.finalized THEN r
  ELSE [r EXCEPT !.finalized = TRUE, !.written = @ + 1,
                 !.worker = CASE @ \in {"running", "finishing"} -> "stopped"
                              [] @ = "draining" -> "interrupted"
                              [] OTHER -> @]

\* finalize() that raises as it opens or writes the WAV.
Broken(r, when) ==
  [r EXCEPT !.finalized = TRUE, !.written = @ + 1, !.broken = when]

\* create_task, from whichever branch.
WithTask(r) == [r EXCEPT !.finalizing = TRUE, !.task = "created", !.tasks = @ + 1]

WithText(r, text) ==
  IF text = Blank THEN r ELSE [r EXCEPT !.accumulated = Append(@, text)]

\* What the recognizer makes of a chunk: words or none of the next utterance,
\* complete or not.
Outcomes(r) == [final : BOOLEAN, text : {Blank, r.said + 1}]

Completes(x) == x.final /\ x.text # Blank

\* A turn of the worker's loop: the chunk yields nothing (no model, an error) or
\* a result, which is queued unless finish() has been called.
Recognized(r) ==
  LET q == [r EXCEPT !.queued = @ - 1]
      Yields(x) == [q EXCEPT !.said = IF Completes(x) THEN x.text ELSE @,
                             !.results = IF r.worker = "draining" THEN @ ELSE Append(@, x),
                             !.withheld = @ \/ (r.worker = "draining" /\ Completes(x))]
  IN  {q} \cup {Yields(x) : x \in Outcomes(r)}

\* Mutant: a final result overwrites the text accumulated so far.
PolledOverwrites(r) ==
  IF r.results = <<>> THEN r
  ELSE LET x == Head(r.results)
       IN  [r EXCEPT !.results = Tail(@), !.last = x.text,
                     !.accumulated = IF Completes(x) THEN <<x.text>> ELSE @,
                     !.partial = IF x.final THEN @ ELSE x.text]

\* One result taken by _audio, if there is one.
Polled(r) ==
  IF r.results = <<>> THEN r
  ELSE LET x == Head(r.results)
           q == [r EXCEPT !.results = Tail(@), !.last = x.text]
       IN  IF x.final THEN WithText(q, x.text) ELSE [q EXCEPT !.partial = x.text]

-----------------------------------------------------------------------------
(* The handler of connection c *)

\* A message has come: the next recv has its whole timeout again.
Heard(c) == idle' = [idle EXCEPT ![c] = FALSE]

Hello(c) ==
  /\ open[c] /\ ~hello[c] /\ Heard(c)
  /\ hello' = [hello EXCEPT ![c] = TRUE]
  /\ UNCHANGED <<open, table, count, fed, st>>

\* HELLO_REQUIRED and close(1002): the next recv ends the handler.
StartBeforeHello(c) ==
  /\ open[c] /\ ~hello[c] /\ Heard(c)
  /\ open' = [open EXCEPT ![c] = FALSE]
  /\ UNCHANGED <<hello, table, count, fed, st>>

StartStream(c, i) ==
  /\ open[c] /\ hello[c] /\ table[c][i] = NoStream
  /\ count < MaxStreams /\ Heard(c)
  /\ count' = count + 1
  /\ st' = Append(st, NewStream(c, i))
  /\ table' = [table EXCEPT ![c][i] = count + 1]
  /\ UNCHANGED <<open, hello, fed>>

\* Mutant: a stop for a stream that is already ending starts a second pipeline.
EndingNever(r) == FALSE

Ending(r) == r.finalized \/ r.finalizing

StopMessage(c, i) ==
  LET s == table[c][i] IN
  /\ open[c] /\ s # NoStream /\ Heard(c)
  /\ IF Ending(st[s])
       THEN /\ table' = [table EXCEPT ![c][i] = NoStream]
            /\ UNCHANGED st
       ELSE /\ st' = [st EXCEPT ![s] = WithTask(@)]
            /\ UNCHANGED table
  /\ UNCHANGED <<open, hello, count, fed>>

\* Any other message (an error, a frame or a stop for no stream or for one that
\* is ending, a frame refused, play_stop) does nothing but arrive.
OtherMessage(c) ==
  /\ open[c] /\ idle[c] /\ Heard(c)
  /\ UNCHANGED <<open, hello, table, count, fed, st>>

\* _ensure_asr_worker, at the first accepted frame only.
WithWorker(r) ==
  IF r.worker = "none"
    THEN {[r EXCEPT !.worker = w] : w \in {"running", "failed"}}
    ELSE {r}

WithChunk(r) == IF r.worker = "running" THEN [r EXCEPT !.queued = @ + 1] ELSE r

\* An accepted frame: the worker and its chunk, the endpoint, then one result,
\* for which get_result waits while the worker may be at work.
AudioFrame(c, i) ==
  LET s == table[c][i] IN
  /\ open[c] /\ s # NoStream /\ ~Ending(st[s])
  /\ fed < MaxFrames /\ fed' = fed + 1 /\ Heard(c)
  /\ \E r \in WithWorker(st[s]), endpoint \in BOOLEAN :
       LET q == IF endpoint THEN WithTask(WithChunk(r)) ELSE WithChunk(r)
       IN  \E p \in IF r.worker = "running" THEN {q} \cup Recognized(q) ELSE {q} :
             st' = [st EXCEPT ![s] = Polled(p)]
  /\ UNCHANGED <<open, hello, table, count>>

\* Mutant: a timeout forgets the streams without finalizing them.
FinalizedByTimeoutNot(r) == r

FinalizedByTimeout(r) == Finalized(r)

\* The streams q once those in S have been finalized, in the order of their
\* starts, and once finalize() has raised on one, which ends the loop over them.
Swept(q, S) == [s \in 1..count |-> IF s \in S THEN Finalized(q[s]) ELSE q[s]]

Cut(q, S, when) ==
  {[s \in 1..count |-> IF s \in S /\ s < f THEN Finalized(q[s])
                       ELSE IF s = f THEN Broken(q[s], when)
                       ELSE q[s]] : f \in {t \in S : ~q[t].finalized}}

\* The handler is left by its finally clause, the streams being q by then.
Abort(c, q) ==
  /\ open' = [open EXCEPT ![c] = FALSE] /\ idle' = [idle EXCEPT ![c] = FALSE]
  /\ st' \in {Swept(q, Entries(c))} \cup Cut(q, Entries(c), "closing")
  /\ UNCHANGED <<hello, table, count>>

\* A frame beyond the maximum: finalized on the spot, pipeline to follow; if
\* finalize() raises there is none, and the handler ends.
FrameBeyondMaximum(c, i) ==
  LET s == table[c][i] IN
  /\ open[c] /\ s # NoStream /\ ~Ending(st[s]) /\ st[s].worker # "none"
  /\ \/ /\ st' = [st EXCEPT ![s] = WithTask(Finalized(@))]
        /\ table' = [table EXCEPT ![c][i] = NoStream]
        /\ Heard(c) /\ UNCHANGED <<open, hello, count>>
     \/ Abort(c, [st EXCEPT ![s] = [Broken(@, "write") EXCEPT !.finalizing = TRUE]])
  /\ UNCHANGED fed

\* The timer of recv needs the loop to go idle, so tasks created before have had
\* their first turn (asyncio runs ready callbacks in order).
LoopIdles == \A s \in 1..count : st[s].task # "created"

TimePasses(c) ==
  /\ open[c] /\ Entries(c) # {} /\ ~idle[c] /\ LoopIdles
  /\ idle' = [idle EXCEPT ![c] = TRUE]
  /\ UNCHANGED <<open, hello, table, count, fed, st>>

\* recv times out.
TimedOut(c) == open[c] /\ Entries(c) # {} /\ idle[c] /\ LoopIdles

Inactivity(c) ==
  /\ TimedOut(c) /\ Heard(c)
  /\ st' = [s \in 1..count |-> IF s \in Entries(c) THEN FinalizedByTimeout(st[s])
                                                  ELSE st[s]]
  /\ table' = [table EXCEPT ![c] = [i \in Ids |-> NoStream]]
  /\ UNCHANGED <<open, hello, count, fed>>

\* finalize() raises on one of the streams: the finally clause sees to the rest.
InactivityFails(c) ==
  /\ TimedOut(c)
  /\ \E q \in Cut(st, Entries(c), "write") : Abort(c, q)
  /\ UNCHANGED fed

\* ConnectionClosed, from recv or from a send.
Close(c) == open[c] /\ Abort(c, st) /\ UNCHANGED fed

-----------------------------------------------------------------------------
(* The worker thread and the pipeline task of stream s *)

Recognize(s) ==
  /\ st[s].worker \in Alive /\ st[s].queued > 0
  /\ \E q \in Recognized(st[s]) : st' = [st EXCEPT ![s] = q]
  /\ UNCHANGED <<open, hello, idle, table, count, fed>>

\* accumulated text, else the last result, else the last partial.
Transcript(r) ==
  CASE r.accumulated # <<>> -> r.accumulated
    [] r.accumulated = <<>> /\ r.last # Blank -> <<r.last>>
    [] r.accumulated = <<>> /\ r.last = Blank /\ r.partial # Blank -> <<r.partial>>
    [] OTHER -> <<>>

\* final_text is not empty.
Told(r) == Transcript(r) # <<>>

\* streams.pop of an id removes whichever stream is listed under it.
PoppedBy(s, q) ==
  [t \in 1..count |-> CASE t = s -> q
                        [] t # s /\ t = table[q.conn][q.id] -> [st[t] EXCEPT !.evicted = TRUE]
                        [] OTHER -> st[t]]

\* From the end of _finish_asr_worker to the choice of final_text; no await.  An
\* error in finalize() ends the pipeline there.
Conclude(s, r) ==
  LET q == Finalized(r) IN
  /\ \/ /\ st' = PoppedBy(s, [q EXCEPT !.task = IF Told(q) THEN "llm" ELSE "done"])
        /\ table' = [table EXCEPT ![r.conn][r.id] = NoStream]
     \/ /\ ~r.finalized
        /\ st' = [st EXCEPT ![s] = [Broken(r, "write") EXCEPT !.task = "done"]]
        /\ UNCHANGED table
  /\ UNCHANGED <<open, hello, idle, count, fed>>

\* First turn of the task, with a worker to finish.
TaskBegins(s) ==
  /\ st[s].task = "created" /\ st[s].worker = "running"
  /\ st' = [st EXCEPT ![s].task = "asr", ![s].worker = "finishing"]
  /\ UNCHANGED <<open, hello, idle, table, count, fed>>

\* First turn without one: last_asr_result stands in for the final result.
TaskWithoutWorker(s) ==
  /\ st[s].task = "created" /\ st[s].worker # "running"
  /\ Conclude(s, WithText(st[s], st[s].last))

\* finish() begins, on a thread of the pool: no result is queued from here on.
FinishEnter(s) ==
  /\ st[s].worker = "finishing"
  /\ st' = [st EXCEPT ![s].worker = "draining"]
  /\ UNCHANGED <<open, hello, idle, table, count, fed>>

\* The sentinel is reached: FinalResult is queued.  (A worker without a model
\* queues nothing, which is a blank text where there has never been another.)
Flushed(r) ==
  {[r EXCEPT !.results = Append(@, [final |-> TRUE, text |-> text]),
             !.said = IF text = Blank THEN @ ELSE text] : text \in {Blank, r.said + 1}}

\* Mutant: the text that finish() returned is not added to the transcript.
TakenSilently(r) ==
  IF r.results = <<>> THEN r
  ELSE [r EXCEPT !.last = Head(r.results).text, !.results = Tail(@)]

\* What finish() returns: the oldest result in the queue, if there is one.
Taken(r) ==
  IF r.results = <<>> THEN r
  ELSE LET x == Head(r.results)
       IN  WithText([r EXCEPT !.last = x.text, !.results = Tail(@)], x.text)

\* finish() returns: None if stop() came first; when the thread has ended, or has
\* been told to end; or after five seconds, and then, as after an error in
\* FinalResult, the thread is still there and nothing refers to it.
FinishReturned(s) ==
  LET r == st[s] IN
  /\ r.task = "asr"
  /\ \/ r.worker = "stopped" /\ Conclude(s, r)
     \/ /\ r.worker = "draining" /\ r.queued = 0
        /\ \E q \in Flushed(r) : Conclude(s, Taken([q EXCEPT !.worker = "none"]))
     \/ r.worker = "draining" /\ Conclude(s, Taken([r EXCEPT !.worker = "abandoned"]))
     \/ /\ r.worker = "interrupted" /\ r.queued = 0
        /\ \E q \in Flushed(r) : Conclude(s, Taken(q))
     \/ r.worker = "interrupted" /\ Conclude(s, Taken(r))

\* The LLM, the TTS and the playback have ended, or one of them has failed: they
\* leave the stream as it is (module ResponsePipeline has their steps).
Answered(s) ==
  /\ st[s].task = "llm"
  /\ st' = [st EXCEPT ![s].task = "done"]
  /\ UNCHANGED <<open, hello, idle, table, count, fed>>

Ends(s) == TaskBegins(s) \/ TaskWithoutWorker(s) \/ FinishEnter(s) \/ FinishReturned(s)

Pipeline(s) == Ends(s) \/ Answered(s)

-----------------------------------------------------------------------------
Idle ==
  /\ \A c \in Conns : ~open[c]
  /\ \A s \in 1..count : st[s].task \in {"none", "done"}
  /\ UNCHANGED vars

\* What the client of connection c sends.
Message(c) ==
  \/ Hello(c) \/ StartBeforeHello(c) \/ OtherMessage(c)
  \/ \E i \in Ids : \/ StartStream(c, i) \/ StopMessage(c, i)
                    \/ AudioFrame(c, i) \/ FrameBeyondMaximum(c, i)

Next ==
  \/ \E c \in Conns :
       Message(c) \/ TimePasses(c) \/ Inactivity(c) \/ InactivityFails(c) \/ Close(c)
  \/ \E s \in 1..count : Recognize(s) \/ Pipeline(s)
  \/ Idle

\* The loop runs the tasks that are ready, a pool thread runs finish(), finish()
\* returns (module AsrWorker), and a recv that hears nothing times out.  Nothing is
\* assumed of the client, which may go on sending whatever it likes, nor of the
\* LLM and the TTS: the Piper process is run without a timeout.
Fairness ==
  /\ WF_vars(\E s \in 1..count : Ends(s))
  /\ \A c \in Conns : WF_vars(TimePasses(c) \/ Inactivity(c))

Spec == Init /\ [][Next]_vars /\ Fairness

-----------------------------------------------------------------------------
(* Properties *)

Result == [final : BOOLEAN, text : Text]

StreamRecord ==
  [conn : Conns, id : Ids, finalizing : BOOLEAN, finalized : BOOLEAN,
   worker : {"none", "failed", "running", "finishing", "draining", "stopped",
             "interrupted", "abandoned"},
   queued : Nat, said : Nat, results : Seq(Result), withheld : BOOLEAN,
   accumulated : Seq(Text), last : Text, partial : Text,
   task : {"none", "created", "asr", "llm", "done"},
   tasks : Nat, written : Nat, broken : {"no", "write", "closing"},
   evicted : BOOLEAN]

\* Types; a table entry names a stream of that connection and id, and finish()
\* is called for exactly while the task awaits it.
TypeOK ==
  /\ open \in [Conns -> BOOLEAN] /\ hello \in [Conns -> BOOLEAN]
  /\ idle \in [Conns -> BOOLEAN]
  /\ table \in [Conns -> [Ids -> Stream \cup {NoStream}]]
  /\ count \in 0..MaxStreams /\ fed \in 0..MaxFrames
  /\ st \in Seq(StreamRecord) /\ Len(st) = count
  /\ \A c \in Conns, i \in Ids :
       table[c][i] # NoStream =>
         table[c][i] <= count /\ st[table[c][i]].conn = c /\ st[table[c][i]].id = i
  /\ \A s \in 1..count : st[s].worker \in {"finishing", "draining"} => st[s].task = "asr"

\* Whatever order a stop, the endpoint, the maximum, a timeout and the end of
\* the connection come in, and though writing fail, a stream's WAV is written
\* once and the stream is answered by one pipeline.
OneRecordingOneReply == \A s \in 1..count : st[s].written <= 1 /\ st[s].tasks <= 1

Settled(r) == r.task \in {"none", "done"}

\* The finally clause of the connection has ended before it came to stream s, as
\* an earlier one could not be written.
PassedOver(s) == \E t \in 1..(s - 1) : st[t].conn = st[s].conn /\ st[t].broken = "closing"

\* The server has lost sight of the stream: passed over, or the pipeline of an
\* older stream of the same id, which pops the id and not itself, took its entry.
Forsaken(s) == st[s].evicted \/ PassedOver(s)

\* A worker whose stream is finalized, or whose connection is gone, has been
\* stopped, has ended, or is one that finish() gave up on (abandoned), once no
\* task is pending; but for a stream forsaken, and one without a pipeline whose WAV
\* could not be written, since finalize() then ends before stop_asr_worker.
NoWorkerLeaks ==
  \A s \in 1..count :
    (st[s].finalized \/ ~open[st[s].conn]) /\ Settled(st[s]) /\ st[s].worker \in Alive
      => Forsaken(s) \/ (st[s].broken # "no" /\ st[s].task = "none")

\* PROTOCOL.md:30: a stream ends with its connection at the latest, though it may
\* have left the table before and its task may just be done, or writing another
\* one may fail; but for a stream forsaken.
ClosureEndsStreams ==
  \A s \in 1..count :
    ~open[st[s].conn] /\ Settled(st[s]) => st[s].finalized \/ Forsaken(s)

\* What is put to the LLM has the utterances in their order and without a hole,
\* with two exceptions at its end: words withheld during finish() are missing
\* before the last text, and the last one stands twice if finalize() stopped
\* the worker before the pipeline began (server.py:545, 635).
InOrder(r) ==
  LET a == r.accumulated
  IN  \A i \in 1..Len(a) :
        \/ a[i] = i
        \/ i = Len(a) /\ a[i] > i /\ r.withheld
        \/ i = Len(a) /\ a[i] = i - 1 /\ r.worker = "stopped"

TranscriptInOrder == \A s \in 1..count : InOrder(st[s])

\* finish() had the thread end, and no result was lost on the way: none withheld,
\* none left in the queue behind the one that finish() returned.
Intact(r) ==
  /\ r.worker = "none" /\ r.results = <<>>
  /\ ~r.withheld /\ r.broken = "no"

\* When the first part of a pipeline ends and nothing was lost, whatever the
\* recognizer has completed, polled or not, in the first chunk or in the flush,
\* is in the transcript, and if there is any it is put to the LLM.
SpeechIsAnswered ==
  [][\A s \in 1..count :
       LET r == st'[s]
       IN  st[s].task \in {"created", "asr"} /\ r.task \notin {"created", "asr"} /\ Intact(r)
             => /\ \A u \in 1..r.said : \E i \in 1..Len(r.accumulated) : r.accumulated[i] = u
                /\ r.said > 0 => r.task = "llm"]_vars

Ended(s) == st[s].finalized \/ Forsaken(s)

\* Streams end: unless a client sends for ever, all those of its connection end,
\* though it stay open: a timeout does it if nothing else has; but for a stream
\* forsaken.
StreamEnds ==
  \A c \in Conns :
    \/ []<><<Message(c)>>_vars
    \/ <>[](\A s \in 1..count : st[s].conn = c => Ended(s))

\* PROTOCOL.md:30: end occurs on inactivity, of whatever else the connection
\* carries.
InactivityEndsStreams ==
  \A s \in Stream : (count >= s) ~> (count >= s /\ Ended(s))

\* PROTOCOL.md:30: end occurs on connection closure, of every stream that writing
\* to the disk does not fail before.
ClosureEndsEveryStream ==
  \A s \in 1..count :
    ~open[st[s].conn] /\ Settled(st[s]) => st[s].finalized \/ PassedOver(s)
=============================================================================
