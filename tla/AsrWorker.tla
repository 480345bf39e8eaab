------------------------------ MODULE AsrWorker ------------------------------
(***************************************************************************)
(* One ASRWorker of backend/asr/worker.py together with the two threads of *)
(* backend/server.py that call it:                                         *)
(*   worker    the daemon thread running _worker_loop,                     *)
(*   loop      the asyncio thread: add_audio, get_result and stop,         *)
(*   executor  the to_thread pool thread running finish().                 *)
(* A step is what a thread does between two points where CPython may run   *)
(* another one that reads or writes the same attributes or queues.         *)
(*                                                                         *)
(* Audio chunks are numbered 1, 2, ... in the order the server hands them  *)
(* over; a result is the set of chunks whose words it carries.  The Vosk   *)
(* recognizer is external: it decides freely where an utterance ends.      *)
(***************************************************************************)
EXTENDS Naturals, Sequences, FiniteSets

CONSTANTS MaxChunks,          \* bound on the chunks of one stream
          SharedModel,        \* VoiceServer could load the shared Vosk model
          RecognizerMayFail,  \* a recognizer call may raise
          JoinMayTimeOut,     \* a join may give up after its 5 seconds
          NoResult            \* Python's None

ASSUME MaxChunksAssumption == MaxChunks \in Nat \ {0}
ASSUME FlagsAssumption ==
  /\ SharedModel \in BOOLEAN
  /\ RecognizerMayFail \in BOOLEAN
  /\ JoinMayTimeOut \in BOOLEAN

FINISH == 0
Chunk  == 1..MaxChunks
Result == [final : BOOLEAN, covers : SUBSET Chunk]
ASSUME NoResultAssumption == NoResult \notin Result

VARIABLES
  running, finished, thread,  \* the attributes of those names (thread: not None)
  model,                      \* what self.model and the recognizer allow
  audioQ, resultQ,            \* the two queue.Queue objects
  wpc, chunk, pending, seg,   \* worker: where it is, what it holds, open utterance
  lpc, epc, ret,              \* loop and executor; ret is what finish() returned
  sent, taken,                \* history: chunks put on and taken off audioQ
  polled, withheld, discarded,\* history: results read or suppressed, chunks dropped
  flush, timedOut             \* history: the fate of FinalResult() and of the join

attrVars   == <<running, finished, thread>>
workerVars == <<model, wpc, chunk, pending, seg, taken, withheld, discarded, flush>>
loopVars   == <<lpc, sent, polled>>
execVars   == <<epc, ret, timedOut>>
vars == <<attrVars, audioQ, resultQ, workerVars, loopVars, execVars>>

Init ==
  /\ running = FALSE /\ finished = FALSE /\ thread = FALSE
  /\ model = IF SharedModel THEN "ready" ELSE "untried"
  /\ audioQ = <<>> /\ resultQ = <<>>
  /\ wpc = "unborn" /\ chunk = FINISH /\ pending = NoResult /\ seg = {}
  /\ lpc = "idle" /\ epc = "none" /\ ret = NoResult
  /\ sent = 0 /\ taken = 0
  /\ polled = {} /\ withheld = {} /\ discarded = {}
  /\ flush = "none" /\ timedOut = FALSE

-----------------------------------------------------------------------------
(* The loop thread *)

\* Stream._ensure_asr_worker at the first accepted frame, and ASRWorker.start.
StartWorker ==
  /\ lpc = "idle" /\ wpc = "unborn"
  /\ running' = TRUE /\ thread' = TRUE /\ wpc' = "check"
  /\ UNCHANGED <<finished, audioQ, resultQ, model, chunk, pending, seg, taken,
                 withheld, discarded, flush, loopVars, execVars>>

\* Mutant: frames still reach a worker whose finish() is under way.
MayFeedAlways == TRUE

\* server._audio returns early once the stream is finalizing, which it is from
\* before the task that calls finish() exists.
MayFeed == epc = "none"

\* The test of add_audio; put() itself is a later step.
Accepts == running /\ ~finished

AddAudio ==
  /\ lpc = "idle" /\ wpc # "unborn" /\ MayFeed /\ sent < MaxChunks
  /\ lpc' = IF Accepts THEN "adding" ELSE "polling"
  /\ UNCHANGED <<attrVars, audioQ, resultQ, workerVars, sent, polled, execVars>>

PutChunk ==
  /\ lpc = "adding"
  /\ audioQ' = Append(audioQ, sent + 1)
  /\ sent' = sent + 1
  /\ lpc' = "polling"
  /\ UNCHANGED <<attrVars, resultQ, workerVars, polled, execVars>>

\* get_result(timeout=0.001), once after every frame.
PollResult ==
  /\ lpc = "polling" /\ resultQ # <<>>
  /\ polled' = polled \cup {Head(resultQ)}
  /\ resultQ' = Tail(resultQ)
  /\ lpc' = "idle"
  /\ UNCHANGED <<attrVars, audioQ, workerVars, sent, execVars>>

PollNothing ==
  /\ lpc = "polling" /\ resultQ = <<>>
  /\ lpc' = "idle"
  /\ UNCHANGED <<attrVars, audioQ, resultQ, workerVars, sent, polled, execVars>>

\* _finish_asr_worker hands finish() to the executor.
SubmitFinish ==
  /\ lpc = "idle" /\ wpc # "unborn" /\ epc = "none"
  /\ epc' = "submitted"
  /\ UNCHANGED <<attrVars, audioQ, resultQ, workerVars, loopVars, ret, timedOut>>

\* ... and forgets the worker when finish() has returned.
Release ==
  /\ lpc = "idle" /\ epc = "returned"
  /\ lpc' = "released"
  /\ UNCHANGED <<attrVars, audioQ, resultQ, workerVars, sent, polled, execVars>>

\* stop(), called by finalize() on the loop thread: on maximum duration before
\* any finish, on inactivity or a closed connection also while finish() runs.
StopCall ==
  /\ lpc = "idle" /\ wpc # "unborn"
  /\ running' = FALSE
  /\ lpc' = IF thread THEN "joining" ELSE "stopped"
  /\ UNCHANGED <<finished, thread, audioQ, resultQ, workerVars, sent, polled, execVars>>

StopReturn ==
  /\ lpc = "joining"
  /\ wpc = "exited" \/ JoinMayTimeOut
  /\ lpc' = "stopped"
  /\ UNCHANGED <<attrVars, audioQ, resultQ, workerVars, sent, polled, execVars>>

LoopStep == \/ StartWorker \/ AddAudio \/ PutChunk \/ PollResult \/ PollNothing
            \/ SubmitFinish \/ Release \/ StopCall \/ StopReturn

-----------------------------------------------------------------------------
(* The executor thread: finish() *)

\* The early returns, then _finished = True; no call separates them.
FinishEnter ==
  /\ epc = "submitted"
  /\ IF Accepts
       THEN finished' = TRUE /\ epc' = "putting"
       ELSE epc' = "returned" /\ UNCHANGED finished
  /\ UNCHANGED <<running, thread, audioQ, resultQ, workerVars, loopVars, ret, timedOut>>

PutFinish ==
  /\ epc = "putting"
  /\ audioQ' = Append(audioQ, FINISH)
  /\ epc' = "joining"
  /\ UNCHANGED <<attrVars, resultQ, workerVars, loopVars, ret, timedOut>>

\* Mutant: join() without a timeout.
JoinReturnsAtExit == wpc = "exited"

\* What lets join(timeout=5.0) return.
JoinReturns == wpc = "exited" \/ JoinMayTimeOut

FinishJoin ==
  /\ epc = "joining" /\ JoinReturns
  /\ timedOut' = (wpc # "exited")
  /\ thread' = FALSE
  /\ epc' = "taking"
  /\ UNCHANGED <<running, finished, audioQ, resultQ, workerVars, loopVars, ret>>

\* result_queue.get_nowait(): the oldest result still queued, whatever it is.
TakeResult ==
  /\ epc = "taking"
  /\ IF resultQ = <<>>
       THEN UNCHANGED <<ret, resultQ>>
       ELSE ret' = Head(resultQ) /\ resultQ' = Tail(resultQ)
  /\ epc' = "returned"
  /\ UNCHANGED <<attrVars, audioQ, workerVars, loopVars, timedOut>>

ExecutorStep == FinishEnter \/ PutFinish \/ FinishJoin \/ TakeResult

-----------------------------------------------------------------------------
(* The worker thread: _worker_loop *)

\* Mutant: finish() ends the loop at once, before the queue is drained.
KeepsRunningUntilFinished == running /\ ~finished

\* Mutant: the loop does not look at the flag stop() clears.
KeepsRunningAlways == TRUE

\* while self.running
KeepsRunning == running

CheckRunning ==
  /\ wpc = "check"
  /\ wpc' = IF KeepsRunning THEN "get" ELSE "leaving"
  /\ UNCHANGED <<attrVars, audioQ, resultQ, model, chunk, pending, seg, taken,
                 withheld, discarded, flush, loopVars, execVars>>

\* get(timeout=0.1) raises queue.Empty.
GetNothing ==
  /\ wpc = "get" /\ audioQ = <<>>
  /\ wpc' = "check"
  /\ UNCHANGED <<attrVars, audioQ, resultQ, model, chunk, pending, seg, taken,
                 withheld, discarded, flush, loopVars, execVars>>

\* Mutant: the sentinel is not told from audio.
IsFinishNever(item) == FALSE

\* audio_data is self._FINISH
IsFinish(item) == item = FINISH

GetItem ==
  /\ wpc = "get" /\ audioQ # <<>>
  /\ audioQ' = Tail(audioQ)
  /\ IF IsFinish(Head(audioQ))
       THEN wpc' = "final" /\ UNCHANGED <<chunk, taken>>
       ELSE wpc' = "feed" /\ chunk' = Head(audioQ) /\ taken' = taken + 1
  /\ UNCHANGED <<attrVars, resultQ, model, pending, seg, withheld, discarded,
                 flush, loopVars, execVars>>

\* _ensure_model_loaded: one attempt for the life of the worker.
LoadModel ==
  /\ wpc = "feed" /\ model = "untried"
  /\ model' \in {"ready", "unavailable"}
  /\ UNCHANGED <<attrVars, audioQ, resultQ, wpc, chunk, pending, seg, taken,
                 withheld, discarded, flush, loopVars, execVars>>

\* No model, or a recognizer call that raises: the chunk is gone.
DropChunk ==
  /\ wpc = "feed"
  /\ \/ model = "unavailable"
     \/ model = "ready" /\ RecognizerMayFail
  /\ discarded' = discarded \cup {chunk}
  /\ chunk' = FINISH
  /\ wpc' = "check"
  /\ UNCHANGED <<attrVars, audioQ, resultQ, model, pending, seg, taken,
                 withheld, flush, loopVars, execVars>>

\* The utterance left open after Result() and after PartialResult().
SegmentAfter(isFinal) == IF isFinal THEN {} ELSE seg \cup {chunk}

\* Mutant: a partial result is marked final.
MarkedFinalAlways(isFinal) == TRUE

\* is_final of the ASRResult made in either branch.
MarkedFinal(isFinal) == isFinal

\* AcceptWaveform, then Result() at the end of an utterance, else PartialResult().
Recognize(isFinal) ==
  /\ wpc = "feed" /\ model = "ready"
  /\ pending' = [final |-> MarkedFinal(isFinal), covers |-> seg \cup {chunk}]
  /\ seg' = SegmentAfter(isFinal)
  /\ chunk' = FINISH
  /\ wpc' = "decide"
  /\ UNCHANGED <<attrVars, audioQ, resultQ, model, taken, withheld, discarded,
                 flush, loopVars, execVars>>

\* if not self._finished, read before the put.
Decide ==
  /\ wpc = "decide"
  /\ IF finished
       THEN /\ withheld' = withheld \cup {pending}
            /\ pending' = NoResult
            /\ wpc' = "check"
       ELSE wpc' = "publish" /\ UNCHANGED <<withheld, pending>>
  /\ UNCHANGED <<attrVars, audioQ, resultQ, model, chunk, seg, taken, discarded,
                 flush, loopVars, execVars>>

Publish ==
  /\ wpc = "publish"
  /\ resultQ' = Append(resultQ, pending)
  /\ pending' = NoResult
  /\ wpc' = "check"
  /\ UNCHANGED <<attrVars, audioQ, model, chunk, seg, taken, withheld, discarded,
                 flush, loopVars, execVars>>

\* Mutant: the guard of ordinary results applied to the last one too.
QueueAfterFlushUnlessFinished ==
  IF finished THEN resultQ ELSE Append(resultQ, [final |-> TRUE, covers |-> seg])

\* result_queue once FinalResult() has been queued.
QueueAfterFlush == Append(resultQ, [final |-> TRUE, covers |-> seg])

\* Mutant: the break is missing.
AfterFinishLoops == "check"

\* Where the sentinel leaves the worker.
AfterFinish == "leaving"

\* The sentinel with a recognizer: FinalResult() and break.
Flush ==
  /\ wpc = "final" /\ model = "ready"
  /\ resultQ' = QueueAfterFlush
  /\ seg' = {}
  /\ flush' = "done"
  /\ wpc' = AfterFinish
  /\ UNCHANGED <<attrVars, audioQ, model, chunk, pending, taken, withheld,
                 discarded, loopVars, execVars>>

\* The sentinel without one.
FlushNothing ==
  /\ wpc = "final" /\ model # "ready"
  /\ wpc' = AfterFinish
  /\ UNCHANGED <<attrVars, audioQ, resultQ, model, chunk, pending, seg, taken,
                 withheld, discarded, flush, loopVars, execVars>>

\* FinalResult() raises: "keep worker running", with the sentinel consumed.
FlushRaises ==
  /\ wpc = "final" /\ model = "ready" /\ RecognizerMayFail
  /\ flush' = "failed"
  /\ wpc' = "check"
  /\ UNCHANGED <<attrVars, audioQ, resultQ, model, chunk, pending, seg, taken,
                 withheld, discarded, loopVars, execVars>>

\* The line after the loop.
Leave ==
  /\ wpc = "leaving"
  /\ running' = FALSE
  /\ wpc' = "exited"
  /\ UNCHANGED <<finished, thread, audioQ, resultQ, model, chunk, pending, seg,
                 taken, withheld, discarded, flush, loopVars, execVars>>

WorkerStep == \/ CheckRunning \/ GetNothing \/ GetItem \/ LoadModel \/ DropChunk
              \/ Recognize(TRUE) \/ Recognize(FALSE) \/ Decide \/ Publish
              \/ Flush \/ FlushNothing \/ FlushRaises \/ Leave

-----------------------------------------------------------------------------
Stopped == lpc \in {"joining", "stopped"}

Terminated ==
  /\ lpc \in {"released", "stopped"} /\ epc \in {"none", "returned"}
  /\ wpc = "exited"
  /\ UNCHANGED vars

Next == LoopStep \/ ExecutorStep \/ WorkerStep \/ Terminated

\* The OS schedules every thread that can run; new frames, a finish and a stop
\* are the server's choice and are not promised.
Fairness ==
  /\ WF_vars(WorkerStep)
  /\ WF_vars(ExecutorStep)
  /\ WF_vars(PutChunk \/ PollResult \/ PollNothing \/ StopReturn)

Spec == Init /\ [][Next]_vars /\ Fairness

-----------------------------------------------------------------------------
(* Properties *)

FlagsOK ==
  /\ running \in BOOLEAN /\ finished \in BOOLEAN /\ thread \in BOOLEAN
  /\ timedOut \in BOOLEAN

DataOK ==
  /\ model \in {"ready", "untried", "unavailable"}
  /\ audioQ \in Seq(Chunk \cup {FINISH})
  /\ resultQ \in Seq(Result)
  /\ wpc \in {"unborn", "check", "get", "feed", "decide", "publish", "final",
              "leaving", "exited"}
  /\ chunk \in Chunk \cup {FINISH} /\ (chunk \in Chunk <=> wpc = "feed")
  /\ pending \in Result \cup {NoResult}
  /\ pending \in Result <=> wpc \in {"decide", "publish"}
  /\ seg \in SUBSET Chunk
  /\ lpc \in {"idle", "adding", "polling", "joining", "stopped", "released"}
  /\ epc \in {"none", "submitted", "putting", "joining", "taking", "returned"}
  /\ ret \in Result \cup {NoResult}
  /\ sent \in 0..MaxChunks /\ taken \in 0..MaxChunks
  /\ polled \in SUBSET Result /\ withheld \in SUBSET Result
  /\ discarded \in SUBSET Chunk
  /\ flush \in {"none", "done", "failed"}

\* Every variable has its type, and the worker holds a chunk exactly while it
\* is about to feed it and a result exactly until that is queued or withheld.
TypeOK == FlagsOK /\ DataOK

\* The worker consumes the chunks in capture order, each once, and nothing is
\* ever queued behind the sentinel, where no one would read it: the guard of
\* add_audio is tested before its put(), so only the server's finalizing flag
\* keeps a chunk from overtaking the sentinel of finish().
QueueInOrder ==
  /\ \A i \in 1..Len(audioQ) :
       audioQ[i] = IF taken + i <= sent THEN taken + i ELSE FINISH
  /\ Len(audioQ) \in (sent - taken)..(sent - taken + 1)

FinalsOf(results) == {r \in results : r.final}
ResultsIn(q) == {q[i] : i \in 1..Len(q)}

\* The final results the worker has produced, wherever they are now: queued,
\* read, returned, about to be queued, or withheld because finish() had begun.
Finals == FinalsOf(ResultsIn(resultQ) \cup polled \cup withheld
                   \cup ({ret, pending} \ {NoResult}))

\* The chunks whose words are in a final result.
Settled == UNION {r.covers : r \in Finals}

Queued == (taken + 1)..sent
InHand == {chunk} \ {FINISH}

\* No audio vanishes between the threads: every chunk add_audio took is still
\* queued, in the worker's hand, in the open utterance, in a final result, or
\* was dropped for want of a working recognizer.
NothingLost == 1..sent = Queued \cup InHand \cup seg \cup Settled \cup discarded

\* No words are said twice: two final results never cover the same chunk, and a
\* chunk of the open utterance, in hand or dropped is in none.
NoTextTwice ==
  /\ \A r1, r2 \in Finals : r1 # r2 => r1.covers \cap r2.covers = {}
  /\ Settled \cap (Queued \cup InHand \cup seg \cup discarded) = {}
  /\ seg \cap (Queued \cup InHand \cup discarded) = {}
  /\ (Queued \cup InHand) \cap discarded = {}

\* What the two say of each state, over time: a chunk once settled stays settled,
\* utterances are cut off the stream from left to right, whole, and nothing that
\* the threads do between them takes a word back.
Words == INSTANCE Transcript WITH
  heard <- sent, open <- Queued \cup InHand \cup seg,
  utterances <- {r.covers : r \in Finals}, dropped <- discarded

RefinesTranscript == Words!Spec

\* finish() drains: when it returns, nobody having stopped the worker and the
\* join not having timed out, the worker has taken every chunk and closed every
\* utterance (unless the recognizer dropped the chunk or FinalResult failed).
\* The server may still not see them all: it reads one result, the guard on
\* _finished withholds others.
Drained ==
  epc = "returned" /\ ~Stopped /\ ~timedOut /\ flush # "failed" /\ model = "ready"
    => 1..sent = Settled \cup discarded

\* finish() returns None only to a caller who lost the worker: it was stopped,
\* the join timed out, FinalResult failed, or there is no model.
NoneOnlyWhenDue ==
  epc = "returned" /\ ret = NoResult
    => Stopped \/ timedOut \/ flush = "failed" \/ model # "ready"

\* A submitted finish() returns: the to_thread call does not hang the stream.
FinishReturns == (epc = "submitted") ~> (epc = "returned")

\* The worker thread ends after a finish(), unless FinalResult raised.
FinishEndsWorker == (epc = "submitted") ~> (wpc = "exited" \/ flush = "failed")

\* The worker thread ends after a stop(), whatever the recognizer does.
StopEndsWorker == Stopped ~> (wpc = "exited")

\* worker.py:94 and test_asr_worker.py:88: what finish() returns is the final
\* transcription.
FinishReturnsFinal == epc = "returned" /\ ret # NoResult => ret.final

\* DEC-ASIO-008: the event loop does not wait for ASR processing.
LoopNotBlockedByAsr == lpc = "joining" => wpc \notin {"feed", "final"}
=============================================================================
