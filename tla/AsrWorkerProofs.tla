--------------------------- MODULE AsrWorkerProofs ---------------------------
(* Theorems about AsrWorker, for any number of chunks and any thread schedule. *)
EXTENDS AsrWorker, TLAPS

\* What the queue needs besides its shape: a chunk on its way there means that
\* finish() has not been asked for, and there is no sentinel on the queue before
\* finish() puts it there.
SentinelInv ==
  /\ taken <= sent
  /\ lpc = "adding" => epc = "none" /\ sent < MaxChunks
  /\ epc \in {"none", "submitted", "putting"} => Len(audioQ) = sent - taken

IInv == TypeOK /\ QueueInOrder /\ SentinelInv

-----------------------------------------------------------------------------
\* The initial state satisfies the invariant.
LEMMA InitIInv == Init => IInv
  <1> SUFFICES ASSUME Init PROVE IInv
    OBVIOUS
  <1>1. FlagsOK
    BY DEF Init, FlagsOK
  <1>2. DataOK
    BY MaxChunksAssumption, NoResultAssumption DEF Init, DataOK, Chunk, FINISH
  <1>3. QueueInOrder /\ SentinelInv
    BY DEF Init, QueueInOrder, SentinelInv
  <1> QED BY <1>1, <1>2, <1>3 DEF IInv, TypeOK

\* A chunk put on the queue of a worker nobody is finishing.
LEMMA PutChunkIInv == IInv /\ PutChunk => IInv'
  <1> SUFFICES ASSUME IInv, PutChunk PROVE IInv'
    OBVIOUS
  <1> USE DEF IInv, PutChunk, attrVars, workerVars, execVars
  <1>1. sent < MaxChunks /\ Len(audioQ) = sent - taken /\ sent \in Nat /\ taken \in Nat
    BY MaxChunksAssumption DEF SentinelInv, TypeOK, DataOK
  <1>2. TypeOK'
    BY <1>1, MaxChunksAssumption DEF TypeOK, FlagsOK, DataOK, Chunk
  <1>3. Len(audioQ') = Len(audioQ) + 1 /\ audioQ'[Len(audioQ) + 1] = sent + 1
        /\ \A i \in 1..Len(audioQ) : audioQ'[i] = audioQ[i]
    BY DEF TypeOK, DataOK
  <1>4. QueueInOrder'
    <2>1. taken' = taken /\ sent' = sent + 1 /\ Len(audioQ') = sent' - taken'
      BY <1>1, <1>3
    <2>2. ASSUME NEW i \in 1..Len(audioQ')
          PROVE  audioQ'[i] = IF taken' + i <= sent' THEN taken' + i ELSE FINISH
      <3>1. CASE i \in 1..Len(audioQ)
        BY <1>1, <1>3, <2>1, <3>1 DEF QueueInOrder
      <3>2. CASE i = Len(audioQ) + 1
        BY <1>1, <1>3, <2>1, <3>2
      <3> QED BY <1>1, <1>3, <2>1, <3>1, <3>2
    <2> QED BY <1>1, <2>1, <2>2 DEF QueueInOrder
  <1>5. SentinelInv'
    BY <1>1, <1>3 DEF SentinelInv, TypeOK, DataOK
  <1> QED BY <1>2, <1>4, <1>5

\* The sentinel put behind all the chunks there will be.
LEMMA PutFinishIInv == IInv /\ PutFinish => IInv'
  <1> SUFFICES ASSUME IInv, PutFinish PROVE IInv'
    OBVIOUS
  <1> USE DEF IInv, PutFinish, attrVars, workerVars, loopVars
  <1>1. Len(audioQ) = sent - taken /\ sent \in Nat /\ taken \in Nat
    BY DEF SentinelInv, TypeOK, DataOK
  <1>2. TypeOK'
    BY DEF TypeOK, FlagsOK, DataOK
  <1>3. Len(audioQ') = Len(audioQ) + 1 /\ audioQ'[Len(audioQ) + 1] = FINISH
        /\ \A i \in 1..Len(audioQ) : audioQ'[i] = audioQ[i]
    BY DEF TypeOK, DataOK
  <1>4. QueueInOrder'
    BY <1>1, <1>3 DEF QueueInOrder, TypeOK, DataOK
  <1>5. SentinelInv'
    BY <1>1, <1>3 DEF SentinelInv, TypeOK, DataOK
  <1> QED BY <1>2, <1>4, <1>5

\* The worker takes the next chunk or, behind the last one, the sentinel.
LEMMA GetItemIInv == IInv /\ GetItem => IInv'
  <1> SUFFICES ASSUME IInv, GetItem PROVE IInv'
    OBVIOUS
  <1> USE DEF IInv, GetItem, attrVars, loopVars, execVars, IsFinish
  <1>1. /\ sent \in Nat /\ taken \in Nat /\ sent <= MaxChunks /\ MaxChunks \in Nat
        /\ taken <= sent /\ Len(audioQ) \in Nat /\ Len(audioQ) >= 1
    BY MaxChunksAssumption DEF SentinelInv, TypeOK, DataOK
  <1>2. /\ Len(audioQ') = Len(audioQ) - 1
        /\ \A i \in 1..Len(audioQ') : audioQ'[i] = audioQ[i + 1]
        /\ Head(audioQ) = audioQ[1]
    BY <1>1 DEF TypeOK, DataOK
  <1>3. CASE Head(audioQ) = FINISH
    <2>1. taken = sent /\ Len(audioQ) = 1
      BY <1>1, <1>2, <1>3 DEF QueueInOrder, FINISH
    <2>2. TypeOK'
      BY <1>3 DEF TypeOK, FlagsOK, DataOK, Chunk, FINISH
    <2>3. taken' = taken /\ sent' = sent /\ Len(audioQ') = 0
          /\ UNCHANGED <<lpc, epc>>
      BY <1>2, <1>3, <2>1
    <2>4. QueueInOrder'
      BY <1>1, <2>1, <2>3 DEF QueueInOrder
    <2>5. SentinelInv'
      BY <1>1, <2>1, <2>3 DEF SentinelInv
    <2> QED BY <2>2, <2>4, <2>5
  <1>4. CASE Head(audioQ) # FINISH
    <2>1. taken + 1 <= sent /\ Head(audioQ) = taken + 1 /\ Head(audioQ) \in Chunk
      BY <1>1, <1>2, <1>4 DEF QueueInOrder, Chunk
    <2>2. TypeOK'
      BY <1>1, <1>4, <2>1 DEF TypeOK, FlagsOK, DataOK, Chunk, FINISH
    <2>3. QueueInOrder'
      BY <1>1, <1>2, <1>4, <2>1 DEF QueueInOrder
    <2>4. SentinelInv'
      BY <1>1, <1>2, <1>4, <2>1 DEF SentinelInv, QueueInOrder
    <2> QED BY <2>2, <2>3, <2>4
  <1> QED BY <1>3, <1>4

\* The steps that leave audioQ alone.
QuietStep ==
  \/ StartWorker \/ AddAudio \/ PollResult \/ PollNothing \/ SubmitFinish
  \/ Release \/ StopCall \/ StopReturn
  \/ FinishEnter \/ FinishJoin \/ TakeResult
  \/ CheckRunning \/ GetNothing \/ LoadModel \/ DropChunk
  \/ Recognize(TRUE) \/ Recognize(FALSE) \/ Decide \/ Publish
  \/ Flush \/ FlushNothing \/ FlushRaises \/ Leave \/ Terminated \/ UNCHANGED vars

\* They keep the queue's part of the invariant ...
LEMMA QuietQueue == IInv /\ QuietStep => QueueInOrder' /\ SentinelInv'
  <1> SUFFICES ASSUME IInv, QuietStep PROVE QueueInOrder' /\ SentinelInv'
    OBVIOUS
  <1> USE DEF IInv, vars, attrVars, workerVars, loopVars, execVars
  <1>1. UNCHANGED <<audioQ, sent, taken>>
    BY DEF QuietStep, StartWorker, AddAudio, PollResult, PollNothing, SubmitFinish,
      Release, StopCall, StopReturn, FinishEnter, FinishJoin, TakeResult,
      CheckRunning, GetNothing, LoadModel, DropChunk, Recognize, Decide, Publish,
      Flush, FlushNothing, FlushRaises, Leave, Terminated
  <1>2. lpc' = "adding" => epc' = "none" /\ sent < MaxChunks
    <2>1. CASE AddAudio
      BY <2>1 DEF AddAudio, MayFeed
    <2>2. CASE ~AddAudio
      <3>1. lpc' = "adding" => lpc = "adding" /\ (epc' = epc \/ epc # "none")
        BY <2>2 DEF QuietStep, StartWorker, PollResult, PollNothing, SubmitFinish,
          Release, StopCall, StopReturn, FinishEnter, FinishJoin, TakeResult,
          CheckRunning, GetNothing, LoadModel, DropChunk, Recognize, Decide, Publish,
          Flush, FlushNothing, FlushRaises, Leave, Terminated
      <3> QED BY <3>1 DEF SentinelInv
    <2> QED BY <2>1, <2>2
  <1>3. epc' \in {"none", "submitted", "putting"} => epc \in {"none", "submitted", "putting"}
    BY DEF QuietStep, StartWorker, AddAudio, PollResult, PollNothing, SubmitFinish,
      Release, StopCall, StopReturn, FinishEnter, FinishJoin, TakeResult,
      CheckRunning, GetNothing, LoadModel, DropChunk, Recognize, Decide, Publish,
      Flush, FlushNothing, FlushRaises, Leave, Terminated
  <1> QED BY <1>1, <1>2, <1>3 DEF QueueInOrder, SentinelInv

\* ... and the types, those of the flags ...
LEMMA FlagTypes == FlagsOK /\ [Next]_vars => FlagsOK'
  <1> SUFFICES ASSUME FlagsOK, [Next]_vars PROVE FlagsOK'
    OBVIOUS
  <1> USE DEF FlagsOK, vars, attrVars, workerVars, loopVars, execVars
  <1>1. CASE LoopStep
    BY <1>1 DEF LoopStep, StartWorker, AddAudio, PutChunk, PollResult, PollNothing,
      SubmitFinish, Release, StopCall, StopReturn
  <1>2. CASE ExecutorStep
    BY <1>2 DEF ExecutorStep, FinishEnter, PutFinish, FinishJoin, TakeResult
  <1>3. CASE WorkerStep
    BY <1>3 DEF WorkerStep, CheckRunning, GetNothing, GetItem, LoadModel, DropChunk,
      Recognize, Decide, Publish, Flush, FlushNothing, FlushRaises, Leave
  <1>4. CASE Terminated \/ UNCHANGED vars
    BY <1>4 DEF Terminated
  <1> QED BY <1>1, <1>2, <1>3, <1>4 DEF Next

\* ... those of the data, in the steps of the loop and of the executor ...
LEMMA LoopTypes ==
  ASSUME DataOK,
         \/ StartWorker \/ AddAudio \/ PollResult \/ PollNothing \/ SubmitFinish
         \/ Release \/ StopCall \/ StopReturn
         \/ FinishEnter \/ FinishJoin \/ TakeResult
  PROVE  DataOK'
  <1> USE DEF DataOK, attrVars, workerVars, loopVars, execVars
  <1>1. CASE StartWorker BY <1>1 DEF StartWorker
  <1>2. CASE AddAudio BY <1>2 DEF AddAudio
  <1>3. CASE PollResult BY <1>3 DEF PollResult
  <1>4. CASE PollNothing BY <1>4 DEF PollNothing
  <1>5. CASE SubmitFinish BY <1>5 DEF SubmitFinish
  <1>6. CASE Release BY <1>6 DEF Release
  <1>7. CASE StopCall BY <1>7 DEF StopCall
  <1>8. CASE StopReturn BY <1>8 DEF StopReturn
  <1>9. CASE FinishEnter BY <1>9 DEF FinishEnter
  <1>10. CASE FinishJoin BY <1>10 DEF FinishJoin
  <1>11. CASE TakeResult BY <1>11 DEF TakeResult
  <1> QED BY <1>1, <1>2, <1>3, <1>4, <1>5, <1>6, <1>7, <1>8, <1>9, <1>10, <1>11

\* ... and in those of the worker.
LEMMA WorkerTypes ==
  ASSUME DataOK,
         \/ CheckRunning \/ GetNothing \/ LoadModel \/ DropChunk
         \/ Recognize(TRUE) \/ Recognize(FALSE) \/ Decide \/ Publish
         \/ Flush \/ FlushNothing \/ FlushRaises \/ Leave
  PROVE  DataOK'
  <1> USE NoResultAssumption
      DEF DataOK, attrVars, workerVars, loopVars, execVars, Chunk, Result, FINISH
  <1>1. CASE CheckRunning BY <1>1 DEF CheckRunning
  <1>2. CASE GetNothing BY <1>2 DEF GetNothing
  <1>3. CASE LoadModel BY <1>3 DEF LoadModel
  <1>4. CASE DropChunk BY <1>4 DEF DropChunk
  <1>5. ASSUME NEW b \in BOOLEAN, Recognize(b) PROVE DataOK'
    BY <1>5 DEF Recognize, MarkedFinal, SegmentAfter
  <1>6. CASE Decide BY <1>6 DEF Decide
  <1>7. CASE Publish BY <1>7 DEF Publish
  <1>8. CASE Flush BY <1>8 DEF Flush, QueueAfterFlush, AfterFinish
  <1>9. CASE FlushNothing BY <1>9 DEF FlushNothing, AfterFinish
  <1>10. CASE FlushRaises BY <1>10 DEF FlushRaises
  <1>11. CASE Leave BY <1>11 DEF Leave
  <1> QED BY <1>1, <1>2, <1>3, <1>4, <1>5, <1>6, <1>7, <1>8, <1>9, <1>10, <1>11

\* The invariant is inductive.
LEMMA NextIInv == IInv /\ [Next]_vars => IInv'
  <1> SUFFICES ASSUME IInv, [Next]_vars PROVE IInv'
    OBVIOUS
  <1>1. CASE PutChunk BY <1>1, PutChunkIInv
  <1>2. CASE PutFinish BY <1>2, PutFinishIInv
  <1>3. CASE GetItem BY <1>3, GetItemIInv
  <1>4. CASE QuietStep
    <2>1. QueueInOrder' /\ SentinelInv'
      BY <1>4, QuietQueue
    <2>2. TypeOK'
      <3>1. Terminated \/ UNCHANGED vars => DataOK'
        BY DEF IInv, Terminated, TypeOK, DataOK, vars, attrVars, workerVars,
          loopVars, execVars
      <3>2. DataOK'
        BY <1>4, <3>1, LoopTypes, WorkerTypes DEF QuietStep, IInv, TypeOK
      <3> QED BY <3>2, FlagTypes DEF IInv, TypeOK
    <2> QED BY <2>1, <2>2 DEF IInv
  <1> QED
    BY <1>1, <1>2, <1>3, <1>4
    DEF Next, LoopStep, ExecutorStep, WorkerStep, QuietStep

\* The types hold in every state of every behaviour.
THEOREM TypesHold == Spec => []TypeOK
  <1>1. IInv => TypeOK
    BY DEF IInv
  <1> QED BY InitIInv, NextIInv, <1>1, PTL DEF Spec

\* The worker consumes every chunk once and in capture order, and the sentinel
\* of finish() is behind all of them, however the three threads interleave.
THEOREM ChunksInOrder == Spec => []QueueInOrder
  <1>1. IInv => QueueInOrder
    BY DEF IInv
  <1> QED BY InitIInv, NextIInv, <1>1, PTL DEF Spec
-----------------------------------------------------------------------------
(* What becomes of the words: no chunk is lost or in two utterances,       *)
(* finish() drains, and the three threads together implement Transcript.   *)

Open == Queued \cup InHand \cup seg

\* The results the worker has made, final or not, wherever they are.
Held == ResultsIn(resultQ) \cup polled \cup withheld \cup ({ret, pending} \ {NoResult})

\* What the worker has in hand is the chunk taken last, after all of the open
\* utterance; finish() has nothing to return before it takes it.
HandInv ==
  /\ seg \subseteq 1..taken
  /\ wpc = "feed" => chunk = taken /\ seg \subseteq 1..(taken - 1)
  /\ epc # "returned" => ret = NoResult

WordsInv == IInv /\ HandInv /\ NothingLost /\ NoTextTwice

-----------------------------------------------------------------------------
(* Results move, and none is lost *)

\* A result appended to a queue of results is in it, with all the others.
LEMMA ResultsOfAppend ==
  ASSUME NEW q \in Seq(Result), NEW r \in Result
  PROVE  ResultsIn(Append(q, r)) = ResultsIn(q) \cup {r}
  <1>1. /\ Len(Append(q, r)) = Len(q) + 1 /\ Append(q, r)[Len(q) + 1] = r
        /\ \A i \in 1..Len(q) : Append(q, r)[i] = q[i]
        /\ Len(q) \in Nat
    OBVIOUS
  <1>2. 1..(Len(q) + 1) = 1..Len(q) \cup {Len(q) + 1}
    BY <1>1
  <1> QED BY <1>1, <1>2 DEF ResultsIn

\* A queue of results holds its head and the rest.
LEMMA ResultsOfTail ==
  ASSUME NEW q \in Seq(Result), q # <<>>
  PROVE  Head(q) \in Result /\ ResultsIn(q) = ResultsIn(Tail(q)) \cup {Head(q)}
  <1>1. /\ Len(q) \in Nat /\ Len(q) >= 1 /\ Len(Tail(q)) = Len(q) - 1
        /\ \A i \in 1..(Len(q) - 1) : Tail(q)[i] = q[i + 1]
        /\ Head(q) = q[1] /\ \A i \in 1..Len(q) : q[i] \in Result
    OBVIOUS
  <1>2. ResultsIn(Tail(q)) \cup {Head(q)} \subseteq ResultsIn(q)
    <2>1. \A i \in 1..(Len(q) - 1) : i + 1 \in 1..Len(q)
      BY <1>1
    <2> QED BY <1>1, <2>1 DEF ResultsIn
  <1>3. ResultsIn(q) \subseteq ResultsIn(Tail(q)) \cup {Head(q)}
    <2> SUFFICES ASSUME NEW i \in 1..Len(q)
                 PROVE  q[i] \in ResultsIn(Tail(q)) \cup {Head(q)}
      BY DEF ResultsIn
    <2>1. CASE i = 1
      BY <1>1, <2>1
    <2>2. CASE i > 1
      <3>1. i - 1 \in 1..(Len(q) - 1) /\ Tail(q)[i - 1] = q[i]
        BY <1>1, <2>2
      <3> QED BY <1>1, <3>1 DEF ResultsIn
    <2> QED BY <2>1, <2>2
  <1> QED BY <1>1, <1>2, <1>3

\* The steps that make a result, drop a chunk or put one on the queue.
MakingStep == PutChunk \/ DropChunk \/ Recognize(TRUE) \/ Recognize(FALSE) \/ Flush

\* All others only move results ...
LEMMA MovesHold ==
  ASSUME IInv, HandInv, [Next]_vars, ~MakingStep
  PROVE  Held' = Held
  <1> USE DEF Held, vars, attrVars, workerVars, loopVars, execVars
  <1>1. resultQ \in Seq(Result) /\ ret \in Result \cup {NoResult}
        /\ (pending \in Result <=> wpc \in {"decide", "publish"})
        /\ pending \in Result \cup {NoResult} /\ NoResult \notin Result
    BY NoResultAssumption DEF IInv, TypeOK, DataOK
  <1>2. CASE PollResult
    <2>1. ResultsIn(resultQ) = ResultsIn(resultQ') \cup {Head(resultQ)}
      BY <1>1, <1>2, ResultsOfTail DEF PollResult
    <2> QED BY <1>2, <2>1 DEF PollResult
  <1>3. CASE TakeResult
    <2>1. CASE resultQ = <<>>
      BY <1>3, <2>1 DEF TakeResult
    <2>2. CASE resultQ # <<>>
      <3>1. /\ ResultsIn(resultQ) = ResultsIn(resultQ') \cup {ret'}
            /\ ret' # NoResult
        BY <1>1, <1>3, <2>2, ResultsOfTail DEF TakeResult
      <3>2. ret = NoResult
        BY <1>3 DEF TakeResult, HandInv
      <3> QED BY <1>3, <3>1, <3>2 DEF TakeResult
    <2> QED BY <2>1, <2>2
  <1>4. CASE Publish
    <2>1. pending \in Result
      BY <1>1, <1>4 DEF Publish
    <2>2. ResultsIn(resultQ') = ResultsIn(resultQ) \cup {pending}
      BY <1>1, <1>4, <2>1, ResultsOfAppend DEF Publish
    <2> QED BY <1>1, <1>4, <2>1, <2>2 DEF Publish
  <1>5. CASE Decide
    <2>1. pending \in Result
      BY <1>1, <1>5 DEF Decide
    <2> QED BY <1>1, <1>5, <2>1 DEF Decide
  <1>6. CASE ~(PollResult \/ TakeResult \/ Publish \/ Decide)
    <2>1. UNCHANGED <<resultQ, polled, withheld, ret, pending>>
      BY <1>6 DEF MakingStep, Next, LoopStep, StartWorker, AddAudio, PollNothing,
        SubmitFinish, Release, StopCall, StopReturn, ExecutorStep, FinishEnter,
        PutFinish, FinishJoin, WorkerStep, CheckRunning, GetNothing, GetItem,
        LoadModel, FlushNothing, FlushRaises, Leave, Terminated
    <2> QED BY <2>1
  <1> QED BY <1>2, <1>3, <1>4, <1>5, <1>6

\* ... and so do they move chunks, from the queue to the hand at most.
LEMMA MovesOpen ==
  ASSUME IInv, HandInv, [Next]_vars, ~MakingStep
  PROVE  Open' = Open /\ UNCHANGED <<sent, discarded, seg>>
  <1> USE DEF Open, Queued, InHand, vars, attrVars, workerVars, loopVars, execVars
  <1>1. CASE GetItem
    <2>1. /\ sent \in Nat /\ taken \in Nat /\ chunk = FINISH
          /\ audioQ \in Seq(Chunk \cup {FINISH}) /\ Len(audioQ) >= 1
          /\ Head(audioQ) = audioQ[1]
      BY <1>1 DEF GetItem, IInv, TypeOK, DataOK, Chunk
    <2>2. UNCHANGED <<sent, discarded, seg>>
      BY <1>1 DEF GetItem
    <2>3. CASE Head(audioQ) = FINISH
      BY <1>1, <2>2, <2>3 DEF GetItem, IsFinish
    <2>4. CASE Head(audioQ) # FINISH
      <3>1. Head(audioQ) = taken + 1 /\ taken + 1 <= sent
        BY <2>1, <2>4 DEF IInv, QueueInOrder
      <3>2. (taken + 1)..sent = (taken' + 1)..sent' \cup {chunk'} /\ chunk' # FINISH
        BY <1>1, <2>1, <2>2, <2>4, <3>1 DEF GetItem, IsFinish, FINISH
      <3> QED BY <2>1, <2>2, <3>2
    <2> QED BY <2>3, <2>4
  <1>2. CASE ~GetItem
    <2>1. UNCHANGED <<sent, taken, chunk, seg, discarded>>
      BY <1>2 DEF MakingStep, Next, LoopStep, StartWorker, AddAudio, PollResult,
        PollNothing, SubmitFinish, Release, StopCall, StopReturn, ExecutorStep,
        FinishEnter, PutFinish, FinishJoin, TakeResult, WorkerStep, CheckRunning,
        GetNothing, LoadModel, Decide, Publish, FlushNothing, FlushRaises, Leave,
        Terminated
    <2> QED BY <2>1
  <1> QED BY <1>1, <1>2

\* Hand and open utterance stay behind the queue.
LEMMA NextHandInv == IInv /\ HandInv /\ [Next]_vars => HandInv'
  <1> SUFFICES ASSUME IInv, HandInv, [Next]_vars PROVE HandInv'
    OBVIOUS
  <1> USE DEF HandInv, vars, attrVars, workerVars, loopVars, execVars
  <1>1. /\ taken \in Nat /\ (chunk \in Chunk <=> wpc = "feed") /\ seg \subseteq Chunk
        /\ wpc = "get" => chunk = FINISH
    BY DEF IInv, TypeOK, DataOK, FINISH, Chunk
  <1>2. CASE GetItem
    <2>1. audioQ # <<>> /\ wpc = "get" /\ Len(audioQ) >= 1 /\ Head(audioQ) = audioQ[1]
      BY <1>2 DEF GetItem, IInv, TypeOK, DataOK
    <2>2. Head(audioQ) # FINISH => Head(audioQ) = taken + 1
      BY <2>1 DEF IInv, QueueInOrder
    <2> QED BY <1>1, <1>2, <2>2 DEF GetItem, IsFinish
  <1>3. CASE DropChunk
    BY <1>1, <1>3 DEF DropChunk
  <1>4. ASSUME NEW b \in BOOLEAN, Recognize(b) PROVE HandInv'
    <2>1. wpc = "feed" /\ seg' = SegmentAfter(b) /\ taken' = taken
      BY <1>4 DEF Recognize
    <2>2. chunk \in 1..taken /\ seg \subseteq 1..taken
      BY <1>1, <2>1, MaxChunksAssumption DEF Chunk
    <2>3. SegmentAfter(b) \subseteq 1..taken
      BY <2>2 DEF SegmentAfter
    <2> QED BY <1>4, <2>1, <2>3 DEF Recognize
  <1>5. CASE Flush
    BY <1>1, <1>5 DEF Flush, AfterFinish
  <1>6. CASE TakeResult
    BY <1>6 DEF TakeResult
  <1>7. CASE ~(GetItem \/ DropChunk \/ Recognize(TRUE) \/ Recognize(FALSE) \/ Flush
               \/ TakeResult)
    <2>1. UNCHANGED <<seg, taken, chunk, ret>>
      BY <1>7 DEF Next, LoopStep, StartWorker, AddAudio, PutChunk, PollResult,
        PollNothing, SubmitFinish, Release, StopCall, StopReturn, ExecutorStep,
        FinishEnter, PutFinish, FinishJoin, WorkerStep, CheckRunning, GetNothing,
        LoadModel, Decide, Publish, FlushNothing, FlushRaises, Leave, Terminated
    <2>2. (wpc' = "feed" => wpc = "feed") /\ (epc' # "returned" => epc # "returned")
      BY <1>7 DEF Next, LoopStep, StartWorker, AddAudio, PutChunk, PollResult,
        PollNothing, SubmitFinish, Release, StopCall, StopReturn, ExecutorStep,
        FinishEnter, PutFinish, FinishJoin, WorkerStep, CheckRunning, GetNothing,
        LoadModel, Decide, Publish, FlushNothing, FlushRaises, Leave, Terminated,
        AfterFinish
    <2> QED BY <2>1, <2>2
  <1> QED BY <1>2, <1>3, <1>4, <1>5, <1>6, <1>7

\* What is open up to the chunk taken last: the next utterance.
Utterance == {k \in Open : k <= taken}
UtteranceResult == [final |-> TRUE, covers |-> Utterance]

HearStep ==
  /\ sent' = sent + 1 /\ Open' = Open \cup {sent + 1}
  /\ Finals' = Finals /\ discarded' = discarded
DropStep ==
  /\ chunk \in Open /\ chunk \in 0..sent
  /\ Open' = Open \ {chunk} /\ discarded' = discarded \cup {chunk}
  /\ sent' = sent /\ Finals' = Finals
CloseStep ==
  /\ Open' = Open \ Utterance /\ Finals' = Finals \cup {UtteranceResult}
  /\ sent' = sent /\ discarded' = discarded
StayStep ==
  sent' = sent /\ Open' = Open /\ Finals' = Finals /\ discarded' = discarded

\* To the words, every step of the threads is one of these four.
LEMMA StepKinds ==
  ASSUME IInv, HandInv, [Next]_vars
  PROVE  HearStep \/ DropStep \/ CloseStep \/ StayStep
  <1> USE DEF vars, attrVars, workerVars, loopVars, execVars
  <1>1. /\ sent \in Nat /\ taken \in Nat /\ taken <= sent /\ seg \subseteq Chunk
        /\ (chunk \in Chunk <=> wpc = "feed") /\ chunk \in Chunk \cup {FINISH}
        /\ resultQ \in Seq(Result) /\ FINISH \notin Chunk
        /\ pending \in Result \cup {NoResult}
        /\ (pending \in Result <=> wpc \in {"decide", "publish"})
        /\ Chunk \subseteq Nat
    BY DEF IInv, TypeOK, DataOK, SentinelInv, FINISH, Chunk
  <1>2. Finals = FinalsOf(Held)
    BY DEF Finals, Held
  <1>0. (\A k \in Queued : ~(k <= taken)) /\ (\A k \in seg : k <= taken)
    BY <1>1 DEF Queued, HandInv
  <1>3. CASE PutChunk
    <2>1. UNCHANGED <<resultQ, polled, withheld, ret, pending, discarded, taken, chunk, seg>>
          /\ sent' = sent + 1
      BY <1>3 DEF PutChunk
    <2>2. Finals' = Finals
      BY <2>1 DEF Finals
    <2>3. (taken + 1)..(sent + 1) = (taken + 1)..sent \cup {sent + 1}
      BY <1>1
    <2> QED BY <2>1, <2>2, <2>3 DEF HearStep, Open, Queued, InHand
  <1>4. CASE DropChunk
    <2>1. UNCHANGED <<resultQ, polled, withheld, ret, pending, sent, taken, seg>>
          /\ discarded' = discarded \cup {chunk} /\ chunk' = FINISH /\ wpc = "feed"
      BY <1>4 DEF DropChunk
    <2>2. Finals' = Finals
      BY <2>1 DEF Finals
    <2>3. chunk = taken /\ chunk \notin seg /\ chunk # FINISH /\ chunk \in 0..sent
      BY <1>1, <2>1 DEF HandInv
    <2>4. chunk \notin (taken + 1)..sent
      BY <1>1, <2>3
    <2> QED BY <2>1, <2>2, <2>3, <2>4 DEF DropStep, Open, Queued, InHand
  <1>5. CASE Recognize(FALSE)
    <2> DEFINE r == [final |-> FALSE, covers |-> seg \cup {chunk}]
    <2>1. UNCHANGED <<resultQ, polled, withheld, ret, sent, taken, discarded>>
          /\ pending' = r /\ seg' = seg \cup {chunk} /\ chunk' = FINISH
          /\ wpc = "feed"
      BY <1>5 DEF Recognize, MarkedFinal, SegmentAfter
    <2>2. pending = NoResult /\ chunk # FINISH
      BY <1>1, <2>1
    <2>3. r.final = FALSE
      OBVIOUS
    <2>4. Finals' = Finals
      <3>1. Finals' = FinalsOf(ResultsIn(resultQ) \cup polled \cup withheld
                               \cup ({ret, r} \ {NoResult}))
        BY <2>1 DEF Finals
      <3>2. Finals = FinalsOf(ResultsIn(resultQ) \cup polled \cup withheld
                              \cup ({ret} \ {NoResult}))
        BY <2>2 DEF Finals
      <3> HIDE DEF r
      <3> QED BY <2>3, <3>1, <3>2 DEF FinalsOf
    <2>5. Open' = Open
      BY <2>1, <2>2 DEF Open, Queued, InHand
    <2> QED BY <2>1, <2>4, <2>5 DEF StayStep
  <1>6. CASE Recognize(TRUE)
    <2> DEFINE r == [final |-> TRUE, covers |-> seg \cup {chunk}]
    <2>1. UNCHANGED <<resultQ, polled, withheld, ret, sent, taken, discarded>>
          /\ pending' = r /\ seg' = {} /\ chunk' = FINISH /\ wpc = "feed"
      BY <1>6 DEF Recognize, MarkedFinal, SegmentAfter
    <2>2. pending = NoResult /\ chunk \in Chunk /\ chunk # FINISH /\ chunk = taken
      BY <1>1, <2>1 DEF HandInv
    <2>3. Utterance = seg \cup {chunk}
      <3>1. chunk <= taken
        BY <1>1, <2>2
      <3> QED BY <1>0, <2>2, <3>1 DEF Utterance, Open, InHand
    <2>4. r = UtteranceResult
      BY <2>3 DEF UtteranceResult
    <2>5. r \in Result /\ r # NoResult /\ r.final = TRUE
      <3>1. seg \cup {chunk} \in SUBSET Chunk
        BY <1>1, <2>2
      <3>2. r \in Result
        BY <3>1 DEF Result
      <3> QED BY <3>2, NoResultAssumption
    <2>6. Finals' = Finals \cup {r}
      <3>1. Finals' = FinalsOf(ResultsIn(resultQ) \cup polled \cup withheld
                               \cup ({ret, r} \ {NoResult}))
        BY <2>1 DEF Finals
      <3>2. Finals = FinalsOf(ResultsIn(resultQ) \cup polled \cup withheld
                              \cup ({ret} \ {NoResult}))
        BY <2>2 DEF Finals
      <3> HIDE DEF r
      <3> QED BY <2>5, <3>1, <3>2 DEF FinalsOf
    <2>7. Open' = Open \ Utterance
      <3>1. Open' = Queued
        BY <2>1 DEF Open, Queued, InHand
      <3>2. Open = Queued \cup (seg \cup {chunk}) /\ chunk \notin Queued
        BY <1>1, <1>0, <2>2 DEF Open, InHand
      <3>3. Open \ Utterance = Queued
        BY <1>0, <2>3, <3>2
      <3> QED BY <3>1, <3>3
    <2> QED BY <2>1, <2>4, <2>6, <2>7 DEF CloseStep
  <1>7. CASE Flush
    <2> DEFINE r == [final |-> TRUE, covers |-> seg]
    <2>1. UNCHANGED <<polled, withheld, ret, pending, sent, taken, discarded, chunk>>
          /\ resultQ' = Append(resultQ, r) /\ seg' = {} /\ wpc = "final"
      BY <1>7 DEF Flush, QueueAfterFlush
    <2>2. chunk = FINISH /\ r \in Result /\ r.final = TRUE
      BY <1>1, <2>1 DEF Result
    <2>3. Utterance = seg
      BY <1>0, <2>2 DEF Utterance, Open, InHand
    <2>4. r = UtteranceResult
      BY <2>3 DEF UtteranceResult
    <2>5. Finals' = Finals \cup {r}
      <3>1. ResultsIn(resultQ') = ResultsIn(resultQ) \cup {r}
        BY <1>1, <2>1, <2>2, ResultsOfAppend
      <3>2. Finals' = FinalsOf(ResultsIn(resultQ) \cup {r} \cup polled \cup withheld
                               \cup ({ret, pending} \ {NoResult}))
        BY <2>1, <3>1 DEF Finals
      <3> HIDE DEF r
      <3> QED BY <2>2, <3>2 DEF FinalsOf, Finals
    <2>6. Open' = Open \ Utterance
      <3>1. Open' = Queued
        BY <2>1, <2>2 DEF Open, Queued, InHand
      <3>2. Open \ Utterance = Queued
        BY <1>0, <2>2 DEF Open, Utterance, InHand
      <3> QED BY <3>1, <3>2
    <2> QED BY <2>1, <2>4, <2>5, <2>6 DEF CloseStep
  <1>8. CASE ~MakingStep
    <2>1. Held' = Held /\ Open' = Open /\ UNCHANGED <<sent, discarded>>
      BY <1>8, MovesHold, MovesOpen
    <2>2. Finals' = FinalsOf(Held)' /\ FinalsOf(Held)' = FinalsOf(Held')
      BY DEF Finals, Held, FinalsOf
    <2> QED BY <1>2, <2>1, <2>2 DEF StayStep
  <1> QED BY <1>3, <1>4, <1>5, <1>6, <1>7, <1>8 DEF MakingStep

\* The two properties in terms of what is open and what is settled.
Partition ==
  /\ 1..sent = Open \cup Settled \cup discarded
  /\ \A r1, r2 \in Finals : r1 # r2 => r1.covers \cap r2.covers = {}
  /\ Settled \cap (Open \cup discarded) = {} /\ Open \cap discarded = {}

LEMMA PartitionMeans == WordsInv <=> IInv /\ HandInv /\ Partition
  <1>1. NothingLost <=> 1..sent = Open \cup Settled \cup discarded
    BY DEF NothingLost, Open
  <1>2. IInv /\ HandInv => seg \cap (Queued \cup InHand) = {}
    <2> SUFFICES ASSUME IInv, HandInv PROVE seg \cap (Queued \cup InHand) = {}
      OBVIOUS
    <2>1. /\ taken \in Nat /\ (chunk \in Chunk <=> wpc = "feed")
          /\ chunk \in Chunk \cup {FINISH}
      BY DEF IInv, TypeOK, DataOK
    <2>2. (\A k \in Queued : k > taken) /\ (\A k \in seg : ~(k > taken))
      BY <2>1 DEF Queued, HandInv
    <2>3. chunk \notin seg \/ chunk = FINISH
      BY <2>1 DEF HandInv
    <2> QED BY <2>2, <2>3 DEF InHand
  <1>3. Partition /\ seg \cap (Queued \cup InHand) = {} => NoTextTwice
    BY DEF Partition, NoTextTwice, Open
  <1>4. NoTextTwice /\ NothingLost => Partition
    BY <1>1 DEF Partition, NoTextTwice, Open
  <1> QED BY <1>1, <1>2, <1>3, <1>4 DEF WordsInv, Partition

\* Each of the four kinds of steps keeps the parts apart and complete.
LEMMA NextWordsInv == WordsInv /\ [Next]_vars => WordsInv'
  <1> SUFFICES ASSUME WordsInv, [Next]_vars PROVE WordsInv'
    OBVIOUS
  <1>1. IInv /\ HandInv /\ Partition
    BY PartitionMeans
  <1>2. IInv' /\ HandInv'
    BY <1>1, NextIInv, NextHandInv
  <1>3. sent \in Nat
    BY <1>1 DEF IInv, TypeOK, DataOK
  <1>4. Partition'
    <2>1. CASE HearStep
      <3>1. Settled' = Settled
        BY <2>1 DEF HearStep, Settled
      <3>2. 1..sent' = 1..sent \cup {sent + 1} /\ sent + 1 \notin 1..sent
        BY <1>3, <2>1 DEF HearStep
      <3> QED BY <1>1, <2>1, <3>1, <3>2 DEF Partition, HearStep
    <2>2. CASE DropStep
      <3>1. Settled' = Settled
        BY <2>2 DEF DropStep, Settled
      <3> QED BY <1>1, <2>2, <3>1 DEF Partition, DropStep
    <2>3. CASE CloseStep
      <3>1. Settled' = Settled \cup Utterance /\ Utterance \subseteq Open
        <4>1. UtteranceResult.covers = Utterance
          BY DEF UtteranceResult
        <4>2. Settled' = UNION {r.covers : r \in Finals \cup {UtteranceResult}}
          BY <2>3 DEF CloseStep, Settled
        <4> QED BY <4>1, <4>2 DEF Settled, Utterance
      <3>2. \A r \in Finals : r.covers \subseteq Settled
        BY DEF Settled
      <3>3. UtteranceResult.covers = Utterance
        BY DEF UtteranceResult
      <3>4. \A r \in Finals : r.covers \cap UtteranceResult.covers = {}
        BY <1>1, <3>1, <3>2, <3>3 DEF Partition
      <3>5. \A r1, r2 \in Finals' : r1 # r2 => r1.covers \cap r2.covers = {}
        BY <1>1, <2>3, <3>4 DEF Partition, CloseStep
      <3> QED BY <1>1, <2>3, <3>1, <3>5 DEF Partition, CloseStep
    <2>4. CASE StayStep
      BY <1>1, <2>4 DEF Partition, StayStep, Settled
    <2> QED BY <1>1, <2>1, <2>2, <2>3, <2>4, StepKinds
  <1>5. WordsInv' <=> (IInv /\ HandInv /\ Partition)'
    BY PartitionMeans, PTL
  <1> QED BY <1>2, <1>4, <1>5

\* At first nothing was said.
LEMMA InitWordsInv == Init => WordsInv
  <1> SUFFICES ASSUME Init PROVE WordsInv
    OBVIOUS
  <1>1. Held = {} /\ Open = {} /\ discarded = {} /\ sent = 0
    BY DEF Init, Held, ResultsIn, Open, Queued, InHand
  <1>2. Finals = {} /\ Settled = {}
    BY <1>1 DEF Finals, Held, FinalsOf, Settled
  <1>3. HandInv
    BY DEF Init, HandInv
  <1> QED BY <1>1, <1>2, <1>3, InitIInv, PartitionMeans DEF Partition

\* No chunk add_audio took ever vanishes between the three threads.
THEOREM EveryChunkAccounted == Spec => []NothingLost
  <1>1. WordsInv => NothingLost
    BY DEF WordsInv
  <1> QED BY InitWordsInv, NextWordsInv, <1>1, PTL DEF Spec

\* No chunk's words are ever in two final results.
THEOREM EveryChunkOnce == Spec => []NoTextTwice
  <1>1. WordsInv => NoTextTwice
    BY DEF WordsInv
  <1> QED BY InitWordsInv, NextWordsInv, <1>1, PTL DEF Spec

\* The three threads with their queues implement the transcript: utterances are
\* cut off from left to right and stay.
THEOREM ThreadsTranscribe == Spec => RefinesTranscript
  <1>1. Init => Words!Init
    <2> SUFFICES ASSUME Init PROVE Words!Init
      OBVIOUS
    <2>1. Held = {} /\ Open = {} /\ discarded = {} /\ sent = 0
      BY DEF Init, Held, ResultsIn, Open, Queued, InHand
    <2>2. Finals = {}
      BY <2>1 DEF Finals, Held, FinalsOf
    <2> QED BY <2>1, <2>2 DEF Words!Init, Open
  <1>2. WordsInv /\ [Next]_vars => [Words!Next]_(Words!transcriptVars)
    <2> SUFFICES ASSUME WordsInv, [Next]_vars
                 PROVE  [Words!Next]_(Words!transcriptVars)
      OBVIOUS
    <2> DEFINE said == {r.covers : r \in Finals}
    <2>1. IInv /\ HandInv /\ sent \in Nat /\ taken \in Nat /\ taken <= sent
      BY DEF WordsInv, IInv, TypeOK, DataOK, SentinelInv
    <2>2. CASE HearStep
      <3>1. Words!Hear
        BY <2>2 DEF HearStep, Words!Hear, Open
      <3> QED BY <3>1 DEF Words!Next
    <2>3. CASE DropStep
      <3>1. Words!Drop(chunk)
        BY <2>3 DEF DropStep, Words!Drop, Open
      <3> QED BY <2>3, <3>1 DEF Words!Next, DropStep
    <2>4. CASE CloseStep
      <3>1. said' = said \cup {Utterance}
        <4>1. said' = {r.covers : r \in Finals'}
          OBVIOUS
        <4>2. UtteranceResult.covers = Utterance
          BY DEF UtteranceResult
        <4>3. Finals' = Finals \cup {UtteranceResult}
          BY <2>4 DEF CloseStep
        <4> HIDE DEF UtteranceResult, Utterance
        <4> QED BY <4>1, <4>2, <4>3
      <3>2. Words!Close(taken)
        BY <2>4, <3>1 DEF CloseStep, Words!Close, Utterance, Open
      <3>3. taken \in 0..sent
        BY <2>1
      <3>4. Words!Next
        BY <3>2, <3>3 DEF Words!Next, Words!Close
      <3> QED BY <3>4
    <2>5. CASE StayStep
      <3>1. UNCHANGED Words!transcriptVars
        <4>1. said' = said
          BY <2>5 DEF StayStep
        <4> QED BY <2>5, <4>1 DEF StayStep, Words!transcriptVars, Open
      <3> QED BY <3>1
    <2> QED BY <2>1, <2>2, <2>3, <2>4, <2>5, StepKinds
  <1> QED BY InitWordsInv, NextWordsInv, <1>1, <1>2, PTL
          DEF Spec, RefinesTranscript, Words!Spec

-----------------------------------------------------------------------------
(* finish() drains *)

Joined == {"joining", "taking", "returned"}

\* Only stop() and the worker's own end clear running; who has finish() under way
\* polls no more; the sentinel comes after every chunk; an unstopped worker leaves
\* the loop by the sentinel only; and the last result is there for finish().
EndInv ==
  /\ ~Stopped /\ wpc \notin {"unborn", "exited"} => running
  /\ finished => epc \notin {"none", "submitted"}
  /\ epc # "none" => wpc # "unborn" /\ lpc \notin {"adding", "polling"}
  /\ wpc = "final" => taken = sent /\ epc \in Joined
  /\ wpc \in {"leaving", "exited"} /\ ~Stopped =>
       /\ taken = sent /\ epc \in Joined
       /\ model = "ready" => flush = "done" /\ seg = {}
  /\ epc \in {"taking", "returned"} /\ ~Stopped /\ ~timedOut => wpc = "exited"
  /\ flush = "done" => epc \in Joined
  /\ flush = "done" /\ epc \in {"joining", "taking"} => resultQ # <<>>
  /\ flush = "done" /\ epc = "returned" /\ ~timedOut /\ ~Stopped => ret # NoResult

\* Every step keeps it.
LEMMA NextEndInv == IInv /\ EndInv /\ [Next]_vars => EndInv'
  <1> SUFFICES ASSUME IInv, EndInv, [Next]_vars PROVE EndInv'
    OBVIOUS
  <1> USE NoResultAssumption
      DEF EndInv, Stopped, Joined, vars, attrVars, workerVars, loopVars, execVars
  <1>1. resultQ \in Seq(Result)
    BY DEF IInv, TypeOK, DataOK
  <1>2. CASE LoopStep
    <2>1. CASE StartWorker BY <2>1 DEF StartWorker
    <2>2. CASE AddAudio BY <2>2 DEF AddAudio, MayFeed
    <2>3. CASE PutChunk
      <3>1. epc = "none"
        BY <2>3 DEF PutChunk
      <3> QED BY <2>3, <3>1 DEF PutChunk
    <2>4. CASE PollResult
      <3>1. epc = "none"
        BY <2>4 DEF PollResult
      <3> QED BY <2>4, <3>1 DEF PollResult
    <2>5. CASE PollNothing BY <2>5 DEF PollNothing
    <2>6. CASE SubmitFinish BY <2>6 DEF SubmitFinish
    <2>7. CASE Release BY <2>7 DEF Release
    <2>8. CASE StopCall BY <2>8 DEF StopCall
    <2>9. CASE StopReturn BY <2>9 DEF StopReturn
    <2> QED BY <1>2, <2>1, <2>2, <2>3, <2>4, <2>5, <2>6, <2>7, <2>8, <2>9 DEF LoopStep
  <1>3. CASE ExecutorStep
    <2>1. CASE FinishEnter BY <2>1 DEF FinishEnter, Accepts
    <2>2. CASE PutFinish BY <2>2 DEF PutFinish
    <2>3. CASE FinishJoin BY <2>3 DEF FinishJoin
    <2>4. CASE TakeResult
      <3>1. resultQ # <<>> => ret' # NoResult
        BY <1>1, <2>4, ResultsOfTail DEF TakeResult
      <3> QED BY <2>4, <3>1 DEF TakeResult
    <2> QED BY <1>3, <2>1, <2>2, <2>3, <2>4 DEF ExecutorStep
  <1>4. CASE WorkerStep
    <2>1. CASE CheckRunning BY <2>1 DEF CheckRunning, KeepsRunning
    <2>2. CASE GetNothing BY <2>2 DEF GetNothing
    <2>3. CASE GetItem
      <3>1. Len(audioQ) >= 1 /\ Head(audioQ) = audioQ[1] /\ Len(audioQ) \in Nat
            /\ taken \in Nat /\ sent \in Nat /\ taken <= sent
        BY <2>3 DEF GetItem, IInv, TypeOK, DataOK, SentinelInv
      <3>2. Head(audioQ) = FINISH => taken = sent
        BY <3>1 DEF IInv, QueueInOrder, FINISH
      <3>3. taken = sent => epc \in Joined
        BY <3>1 DEF IInv, SentinelInv, TypeOK, DataOK
      <3>4. CASE Head(audioQ) = FINISH
        BY <2>3, <3>2, <3>3, <3>4 DEF GetItem, IsFinish
      <3>5. CASE Head(audioQ) # FINISH
        BY <2>3, <3>5 DEF GetItem, IsFinish
      <3> QED BY <3>4, <3>5
    <2>4. CASE LoadModel BY <2>4 DEF LoadModel
    <2>5. CASE DropChunk BY <2>5 DEF DropChunk
    <2>6. ASSUME NEW b \in BOOLEAN, Recognize(b) PROVE EndInv'
      BY <2>6 DEF Recognize
    <2>7. CASE Decide BY <2>7 DEF Decide
    <2>8. CASE Publish
      <3>1. resultQ' # <<>>
        BY <1>1, <2>8 DEF Publish, IInv, TypeOK, DataOK
      <3> QED BY <2>8, <3>1 DEF Publish
    <2>9. CASE Flush
      <3>1. resultQ' # <<>>
        BY <1>1, <2>9 DEF Flush, QueueAfterFlush
      <3> QED BY <2>9, <3>1 DEF Flush, AfterFinish
    <2>10. CASE FlushNothing BY <2>10 DEF FlushNothing, AfterFinish
    <2>11. CASE FlushRaises BY <2>11 DEF FlushRaises
    <2>12. CASE Leave BY <2>12 DEF Leave
    <2> QED BY <1>4, <2>1, <2>2, <2>3, <2>4, <2>5, <2>6, <2>7, <2>8, <2>9, <2>10,
               <2>11, <2>12 DEF WorkerStep
  <1>5. CASE Terminated \/ UNCHANGED vars
    BY <1>5 DEF Terminated
  <1> QED BY <1>2, <1>3, <1>4, <1>5 DEF Next

LEMMA InitEndInv == Init => EndInv
  BY DEF Init, EndInv, Stopped, Joined

\* When an undisturbed finish() returns, every chunk is in a final result or was
\* dropped by the recognizer.
THEOREM FinishDrains == Spec => []Drained
  <1>1. WordsInv /\ EndInv => Drained
    <2> SUFFICES ASSUME WordsInv, EndInv, epc = "returned", ~Stopped, ~timedOut,
                        model = "ready"
                 PROVE  1..sent = Settled \cup discarded
      BY DEF Drained
    <2>1. wpc = "exited" /\ taken = sent /\ seg = {}
      BY DEF EndInv, Joined
    <2>2. chunk = FINISH /\ sent \in Nat
      BY <2>1 DEF WordsInv, IInv, TypeOK, DataOK
    <2>3. Queued = {} /\ InHand = {}
      BY <2>1, <2>2 DEF Queued, InHand
    <2> QED BY <2>1, <2>3 DEF WordsInv, NothingLost
  <1> QED BY InitIInv, NextIInv, InitWordsInv, NextWordsInv, InitEndInv, NextEndInv,
             <1>1, PTL DEF Spec

\* finish() returns None only to a caller who lost the worker.
THEOREM NoneMeansLost == Spec => []NoneOnlyWhenDue
  <1>1. EndInv => NoneOnlyWhenDue
    BY DEF EndInv, NoneOnlyWhenDue, Joined
  <1> QED BY InitIInv, NextIInv, InitEndInv, NextEndInv, <1>1, PTL DEF Spec
-----------------------------------------------------------------------------
(* That the worker ends, without fairness *)

\* After stop(), where the worker is: it comes to its loop's test once more.
StopAhead ==
  (CASE wpc = "get" -> 6 [] wpc \in {"feed", "final"} -> 5 [] wpc = "decide" -> 4
   []   wpc = "publish" -> 3 [] wpc = "check" -> 2 [] wpc = "leaving" -> 1 [] OTHER -> 0)
  + (IF model = "untried" THEN 1 ELSE 0)

\* A stopped worker ends after seven steps at most, however much is queued.
StopIsPrompt ==
  Stopped =>
    /\ StopAhead \in 0..7 /\ Stopped'
    /\ IF WorkerStep THEN StopAhead' < StopAhead ELSE StopAhead' = StopAhead

\* The sentinel is on the queue, or was taken from it.
Signalled == finished /\ epc # "putting"

\* It stays the last item of the queue until the worker takes it.
SentinelThere ==
  Signalled /\ flush # "failed" /\ wpc \notin {"final", "leaving", "exited"}
    => Len(audioQ) = sent - taken + 1

\* What a worker with the sentinel behind its chunks has to do at most.
DrainAhead ==
  6 * Len(audioQ)
  + (CASE wpc = "feed" -> 9 [] wpc = "decide" -> 8 [] wpc = "publish" -> 7
     []   wpc = "check" -> 5 [] wpc = "get" -> 4 [] wpc = "final" -> 2
     []   wpc = "leaving" -> 1 [] OTHER -> 0)
  + (IF model = "untried" THEN 1 ELSE 0)

\* Once finish() has put its sentinel, the worker never polls an empty queue, every
\* step of it brings it nearer to its end, and no other thread gives it more work,
\* unless FinalResult raises: then the sentinel is gone.
DrainRunsOut ==
  Signalled /\ flush # "failed" =>
    /\ wpc = "get" => audioQ # <<>>
    /\ DrainAhead \in Nat /\ Signalled'
    /\ IF WorkerStep THEN DrainAhead' < DrainAhead \/ flush' = "failed"
                     ELSE DrainAhead' = DrainAhead
\* What a stopped worker finds at its loop's test.
StopInv == Stopped => ~running /\ wpc # "unborn"

LEMMA NextStopInv == StopInv /\ [Next]_vars => StopInv'
  <1> SUFFICES ASSUME StopInv, [Next]_vars PROVE StopInv'
    OBVIOUS
  <1> USE DEF StopInv, Stopped, vars, attrVars, workerVars, loopVars, execVars
  <1>1. CASE LoopStep
    BY <1>1 DEF LoopStep, StartWorker, AddAudio, PutChunk, PollResult, PollNothing,
      SubmitFinish, Release, StopCall, StopReturn
  <1>2. CASE ExecutorStep
    BY <1>2 DEF ExecutorStep, FinishEnter, PutFinish, FinishJoin, TakeResult
  <1>3. CASE WorkerStep
    <2>1. /\ UNCHANGED lpc /\ wpc \notin {"unborn"} /\ wpc' # "unborn"
          /\ running' \in {running, FALSE}
      BY <1>3 DEF WorkerStep, CheckRunning, GetNothing, GetItem, LoadModel, DropChunk, Recognize,
        Decide, Publish, Flush, FlushNothing, FlushRaises, Leave, AfterFinish
    <2> QED BY <2>1
  <1>4. CASE Terminated \/ UNCHANGED vars
    BY <1>4 DEF Terminated
  <1> QED BY <1>1, <1>2, <1>3, <1>4 DEF Next

\* The other threads leave a stopped worker where it is.
LEMMA OthersLeaveWorker ==
  ASSUME [Next]_vars, ~WorkerStep, wpc # "unborn"
  PROVE  UNCHANGED <<wpc, model, flush, taken>>
  <1> USE DEF vars, attrVars, workerVars, loopVars, execVars
  <1>1. CASE LoopStep
    BY <1>1 DEF LoopStep, StartWorker, AddAudio, PutChunk, PollResult, PollNothing,
      SubmitFinish, Release, StopCall, StopReturn
  <1>2. CASE ExecutorStep
    BY <1>2 DEF ExecutorStep, FinishEnter, PutFinish, FinishJoin, TakeResult
  <1>3. CASE Terminated \/ UNCHANGED vars
    BY <1>3 DEF Terminated
  <1> QED BY <1>1, <1>2, <1>3 DEF Next

\* stop() ends the worker within a bounded number of its own steps: what its
\* five-second join waits for is at most one call of the recognizer.
THEOREM StopEndsSoon == Spec => [][StopIsPrompt]_vars
  <1>1. ASSUME IInv, StopInv, [Next]_vars, Stopped
        PROVE  /\ StopAhead \in 0..7 /\ Stopped'
               /\ IF WorkerStep THEN StopAhead' < StopAhead ELSE StopAhead' = StopAhead
    <2>1. StopAhead \in 0..7
      BY DEF StopAhead
    <2>2. Stopped'
      BY <1>1 DEF Next, LoopStep, StartWorker, AddAudio, PutChunk, PollResult, PollNothing,
        SubmitFinish, Release, StopCall, StopReturn, ExecutorStep, FinishEnter, PutFinish,
        FinishJoin, TakeResult, WorkerStep, CheckRunning, GetNothing, GetItem, LoadModel,
        DropChunk, Recognize, Decide, Publish, Flush, FlushNothing, FlushRaises, Leave,
        Terminated, Stopped, vars, loopVars
    <2>3. ASSUME WorkerStep PROVE StopAhead' < StopAhead
      <3> USE DEF StopAhead
      <3>1. CASE CheckRunning
        BY <1>1, <3>1 DEF CheckRunning, KeepsRunning, StopInv
      <3>2. CASE GetNothing \/ GetItem
        BY <3>2 DEF GetNothing, GetItem
      <3>3. CASE LoadModel
        BY <3>3 DEF LoadModel
      <3>4. CASE DropChunk
        BY <3>4 DEF DropChunk
      <3>5. ASSUME NEW b \in BOOLEAN, Recognize(b) PROVE StopAhead' < StopAhead
        BY <3>5 DEF Recognize
      <3>6. CASE Decide \/ Publish
        BY <3>6 DEF Decide, Publish
      <3>7. CASE Flush \/ FlushNothing \/ FlushRaises
        BY <3>7 DEF Flush, FlushNothing, FlushRaises, AfterFinish
      <3>8. CASE Leave
        BY <3>8 DEF Leave
      <3> QED BY <2>3, <3>1, <3>2, <3>3, <3>4, <3>5, <3>6, <3>7, <3>8 DEF WorkerStep
    <2>4. ASSUME ~WorkerStep PROVE StopAhead' = StopAhead
      <3>1. UNCHANGED <<wpc, model>>
        BY <1>1, <2>4, OthersLeaveWorker DEF StopInv
      <3> QED BY <3>1 DEF StopAhead
    <2> QED BY <2>1, <2>2, <2>3, <2>4
  <1>2. Init => StopInv
    BY DEF Init, StopInv, Stopped
  <1>3. IInv /\ StopInv /\ [Next]_vars => [StopIsPrompt]_vars
    BY <1>1 DEF StopIsPrompt
  <1> QED BY InitIInv, NextIInv, <1>2, NextStopInv, <1>3, PTL DEF Spec

\* No thread but the worker touches the queue once the sentinel is on it.
LEMMA OthersLeaveQueue ==
  ASSUME IInv, EndInv, [Next]_vars, ~WorkerStep, Signalled
  PROVE  Signalled' /\ UNCHANGED <<audioQ, sent, taken, wpc, model, flush>>
  <1> USE DEF vars, attrVars, workerVars, loopVars, execVars
  <1>0. epc \notin {"none", "submitted", "putting"} /\ wpc # "unborn" /\ lpc # "adding"
    BY DEF EndInv, Signalled
  <1>1. UNCHANGED <<wpc, model, flush, taken>>
    BY <1>0, OthersLeaveWorker
  <1>2. CASE LoopStep
    BY <1>0, <1>1, <1>2 DEF LoopStep, StartWorker, AddAudio, PutChunk, PollResult, PollNothing,
      SubmitFinish, Release, StopCall, StopReturn, Signalled
  <1>3. CASE ExecutorStep
    BY <1>0, <1>1, <1>3 DEF ExecutorStep, FinishEnter, PutFinish, FinishJoin, TakeResult, Signalled
  <1>4. CASE Terminated \/ UNCHANGED vars
    BY <1>1, <1>4 DEF Terminated, Signalled
  <1> QED BY <1>2, <1>3, <1>4 DEF Next

\* What taking an item does to a queue that ends in the sentinel.
LEMMA TakesFromQueue ==
  ASSUME IInv, Len(audioQ) = sent - taken + 1, GetItem
  PROVE  /\ Len(audioQ') = Len(audioQ) - 1 /\ Len(audioQ) \in Nat
         /\ sent \in Nat /\ taken \in Nat /\ sent' = sent
         /\ \/ wpc' = "final" /\ taken' = taken
            \/ wpc' = "feed" /\ taken' = taken + 1
  <1>1. /\ sent \in Nat /\ taken \in Nat /\ audioQ \in Seq(Chunk \cup {FINISH})
        /\ audioQ # <<>> /\ audioQ' = Tail(audioQ) /\ UNCHANGED sent
    BY DEF IInv, TypeOK, DataOK, GetItem, loopVars
  <1>2. Len(audioQ') = Len(audioQ) - 1 /\ Len(audioQ) \in Nat
    BY <1>1
  <1> QED BY <1>1, <1>2 DEF GetItem

\* The worker's other steps leave the queue alone.
LEMMA OthersOfWorker ==
  ASSUME WorkerStep, ~GetItem
  PROVE  UNCHANGED <<audioQ, sent, taken, finished, epc>>
  BY DEF WorkerStep, CheckRunning, GetNothing, LoadModel, DropChunk, Recognize, Decide, Publish,
    Flush, FlushNothing, FlushRaises, Leave, attrVars, loopVars, execVars

LEMMA NextSentinelThere ==
  ASSUME IInv, EndInv, SentinelThere, [Next]_vars PROVE SentinelThere'
  <1> USE DEF SentinelThere
  <1>0. Signalled => Signalled'
    <2>1. CASE WorkerStep
      BY <2>1 DEF WorkerStep, CheckRunning, GetNothing, GetItem, LoadModel, DropChunk, Recognize,
        Decide, Publish, Flush, FlushNothing, FlushRaises, Leave, Signalled, attrVars, execVars
    <2>2. CASE ~WorkerStep
      BY <2>2, OthersLeaveQueue
    <2> QED BY <2>1, <2>2
  <1>1. CASE Signalled /\ ~WorkerStep
    BY <1>1, OthersLeaveQueue
  <1>2. CASE Signalled /\ WorkerStep /\ ~GetItem
    <2>1. UNCHANGED <<audioQ, sent, taken>>
      BY <1>2, OthersOfWorker
    <2>2. flush' # "failed" /\ wpc' \notin {"final", "leaving", "exited"}
            => flush # "failed" /\ wpc \notin {"final", "leaving", "exited"}
      BY <1>2 DEF WorkerStep, CheckRunning, GetNothing, LoadModel, DropChunk, Recognize, Decide,
        Publish, Flush, FlushNothing, FlushRaises, Leave, AfterFinish
    <2> QED BY <1>2, <2>1, <2>2
  <1>3. CASE Signalled /\ GetItem
    <2>1. wpc = "get" /\ flush' = flush
      BY <1>3 DEF GetItem
    <2>2. CASE flush = "failed"
      BY <2>1, <2>2
    <2>3. CASE flush # "failed"
      <3>1. Len(audioQ) = sent - taken + 1
        BY <1>3, <2>1, <2>3
      <3> QED BY <1>3, <3>1, TakesFromQueue
    <2> QED BY <2>2, <2>3
  <1>4. CASE ~Signalled /\ Signalled'
    <2>1. PutFinish
      <3>1. CASE LoopStep
        BY <1>4, <3>1 DEF LoopStep, StartWorker, AddAudio, PutChunk, PollResult, PollNothing,
          SubmitFinish, Release, StopCall, StopReturn, Signalled, EndInv, attrVars, execVars
      <3>2. CASE ExecutorStep
        BY <1>4, <3>2 DEF ExecutorStep, FinishEnter, FinishJoin, TakeResult, Signalled,
          attrVars
      <3>3. CASE WorkerStep \/ Terminated \/ UNCHANGED vars
        BY <1>4, <3>3 DEF WorkerStep, CheckRunning, GetNothing, GetItem, LoadModel, DropChunk,
          Recognize, Decide, Publish, Flush, FlushNothing, FlushRaises, Leave, Signalled,
          Terminated, vars, attrVars, execVars
      <3> QED BY <3>1, <3>2, <3>3 DEF Next
    <2>2. Len(audioQ) = sent - taken /\ sent \in Nat /\ taken \in Nat
      BY <2>1 DEF PutFinish, IInv, SentinelInv, TypeOK, DataOK
    <2>3. Len(audioQ') = Len(audioQ) + 1 /\ UNCHANGED <<sent, taken>>
      BY <2>1 DEF PutFinish, IInv, TypeOK, DataOK, loopVars, workerVars
    <2> QED BY <2>2, <2>3
  <1> QED BY <1>1, <1>2, <1>3, <1>4

\* After finish() has put its sentinel the worker ends by draining its queue, in
\* at most so many steps as the queue is long, whatever the recognizer does short
\* of failing in FinalResult: it never waits for an item that will not come.
THEOREM FinishRunsOut == Spec => [][DrainRunsOut]_vars
  <1>1. ASSUME IInv, EndInv, SentinelThere, [Next]_vars, Signalled, flush # "failed"
        PROVE  /\ wpc = "get" => audioQ # <<>>
               /\ DrainAhead \in Nat /\ Signalled'
               /\ IF WorkerStep THEN DrainAhead' < DrainAhead \/ flush' = "failed"
                                ELSE DrainAhead' = DrainAhead
    <2>0. /\ sent \in Nat /\ taken \in Nat /\ taken <= sent
          /\ audioQ \in Seq(Chunk \cup {FINISH}) /\ Len(audioQ) \in Nat
      BY <1>1 DEF IInv, TypeOK, DataOK, SentinelInv
    <2>1. wpc = "get" => audioQ # <<>> /\ Len(audioQ) = sent - taken + 1
      BY <1>1, <2>0 DEF SentinelThere
    <2>2. DrainAhead \in Nat
      BY <2>0 DEF DrainAhead
    <2>3. Signalled'
      <3>1. CASE WorkerStep
        BY <1>1, <3>1 DEF WorkerStep, CheckRunning, GetNothing, GetItem, LoadModel, DropChunk,
          Recognize, Decide, Publish, Flush, FlushNothing, FlushRaises, Leave, Signalled,
          attrVars, execVars
      <3>2. CASE ~WorkerStep
        BY <1>1, <3>2, OthersLeaveQueue
      <3> QED BY <3>1, <3>2
    <2>4. ASSUME WorkerStep PROVE DrainAhead' < DrainAhead \/ flush' = "failed"
      <3>1. CASE GetItem
        <4>1. wpc = "get" /\ model' = model
          BY <3>1 DEF GetItem
        <4>2. Len(audioQ') = Len(audioQ) - 1 /\ wpc' \in {"final", "feed"}
          BY <1>1, <2>1, <3>1, <4>1, TakesFromQueue
        <4> QED BY <2>0, <4>1, <4>2 DEF DrainAhead
      <3>2. CASE ~GetItem
        <4> USE DEF DrainAhead
        <4>1. UNCHANGED audioQ /\ ~GetNothing
          BY <2>1, <2>4, <3>2, OthersOfWorker DEF GetNothing
        <4>2. CASE CheckRunning
          BY <2>0, <4>1, <4>2 DEF CheckRunning
        <4>3. CASE LoadModel
          BY <2>0, <4>1, <4>3 DEF LoadModel
        <4>4. CASE DropChunk
          BY <2>0, <4>1, <4>4 DEF DropChunk
        <4>5. ASSUME NEW b \in BOOLEAN, Recognize(b) PROVE DrainAhead' < DrainAhead
          BY <2>0, <4>1, <4>5 DEF Recognize
        <4>6. CASE Decide \/ Publish
          BY <2>0, <4>1, <4>6 DEF Decide, Publish
        <4>7. CASE Flush \/ FlushNothing
          BY <2>0, <4>1, <4>7 DEF Flush, FlushNothing, AfterFinish
        <4>8. CASE FlushRaises
          BY <4>8 DEF FlushRaises
        <4>9. CASE Leave
          BY <2>0, <4>1, <4>9 DEF Leave
        <4> QED BY <2>4, <3>2, <4>1, <4>2, <4>3, <4>4, <4>5, <4>6, <4>7, <4>8, <4>9
                DEF WorkerStep
      <3> QED BY <3>1, <3>2
    <2>5. ASSUME ~WorkerStep PROVE DrainAhead' = DrainAhead
      <3>1. UNCHANGED <<audioQ, wpc, model>>
        BY <1>1, <2>5, OthersLeaveQueue
      <3> QED BY <3>1 DEF DrainAhead
    <2> QED BY <2>1, <2>2, <2>3, <2>4, <2>5
  <1>2. Init => SentinelThere
    BY DEF Init, SentinelThere, Signalled
  <1>3. IInv /\ EndInv /\ SentinelThere /\ [Next]_vars => [DrainRunsOut]_vars
    BY <1>1 DEF DrainRunsOut
  <1>4. IInv /\ EndInv /\ SentinelThere /\ [Next]_vars => SentinelThere'
    BY NextSentinelThere
  <1> QED BY InitIInv, NextIInv, InitEndInv, NextEndInv, <1>2, <1>3, <1>4, PTL DEF Spec
=============================================================================
