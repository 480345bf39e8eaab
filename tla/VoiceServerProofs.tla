-------------------------- MODULE VoiceServerProofs --------------------------
(***************************************************************************)
(* Theorems about VoiceServer, for any connections, ids and bounds.  What  *)
(* an operation does to one Stream object is proved on the record; what    *)
(* the connections' dictionaries do is a relation between table and st.    *)
(***************************************************************************)
EXTENDS VoiceServer, TLAPS

\* What holds of one Stream object: written and answered once, the WAV when it
\* is finalized, a task when it is finalizing, and concluded only if finalized
\* and without a worker; a finalized one has none, unless finalize() has failed.
RecordInv(r) ==
  /\ r \in StreamRecord
  /\ r.written = IF r.finalized THEN 1 ELSE 0
  /\ r.tasks <= 1
  /\ r.finalizing => r.finalized \/ r.task # "none"
  /\ ~r.finalizing => r.tasks = 0 /\ r.task = "none"
  /\ r.task \notin {"none", "created", "asr"} => r.finalized /\ r.worker \notin Alive
  /\ r.worker \in {"finishing", "draining"} => r.task = "asr"
  /\ r.worker \in {"interrupted", "abandoned"} => r.task \notin {"none", "created"}
  /\ r.finalized /\ r.broken = "no" => r.worker \notin Alive
  /\ ~r.finalized => r.broken = "no"

\* q is r after an operation: the same stream, and no less ended or forsaken.
Evolves(r, q) ==
  /\ RecordInv(q) /\ q.conn = r.conn /\ q.id = r.id
  /\ r.finalized => q.finalized
  /\ r.finalizing => q.finalizing
  /\ r.evicted => q.evicted
  /\ r.broken = "closing" => q.broken = "closing"

\* q is r with other words in it.
SameControl(r, q) ==
  /\ q \in StreamRecord
  /\ q.conn = r.conn /\ q.id = r.id /\ q.evicted = r.evicted /\ q.broken = r.broken
  /\ q.finalized = r.finalized /\ q.finalizing = r.finalizing /\ q.worker = r.worker
  /\ q.task = r.task /\ q.tasks = r.tasks /\ q.written = r.written

\* The transcript of r is not finished.
Early(r) == r.task \in {"none", "created", "asr"}

\* q is r after an operation that leaves the words alone and does not finish the
\* transcript.
Quiet(r, q) ==
  /\ q.accumulated = r.accumulated /\ q.last = r.last /\ q.said = r.said
  /\ q.results = r.results /\ q.withheld = r.withheld
  /\ Early(q) <=> Early(r)
  /\ q.task = "none" => r.task = "none"
  /\ q.worker \in {"none", "failed"} => r.worker \in {"none", "failed"}
  /\ r.worker \in {"draining", "interrupted"} => q.worker \in {"draining", "interrupted"}
  /\ ~Early(r) => q.worker = r.worker

SameKey(s, t) == st[s].conn = st[t].conn /\ st[s].id = st[t].id

\* A stream nothing has ended yet, and that the server has not lost sight of.
Live(s) == ~st[s].finalized /\ ~st[s].finalizing /\ ~Forsaken(s)

\* The dictionaries name streams by their connection and id, and have all those
\* that are live; an id is used again only after its stream has begun to end.
TableInv ==
  /\ \A c \in Conns, i \in Ids :
       table[c][i] # NoStream =>
         /\ table[c][i] \in 1..count
         /\ st[table[c][i]].conn = c /\ st[table[c][i]].id = i
  /\ \A c \in Conns : ~hello[c] => \A i \in Ids : table[c][i] = NoStream
  /\ \A s \in 1..count :
       Live(s) => open[st[s].conn] /\ table[st[s].conn][st[s].id] = s
  /\ \A s, t \in 1..count : t < s /\ SameKey(s, t) => ~Live(t)

StateOK ==
  /\ open \in [Conns -> BOOLEAN] /\ hello \in [Conns -> BOOLEAN]
  /\ idle \in [Conns -> BOOLEAN]
  /\ table \in [Conns -> [Ids -> Stream \cup {NoStream}]]
  /\ count \in 0..MaxStreams /\ fed \in 0..MaxFrames
  /\ st \in Seq(StreamRecord) /\ DOMAIN st = 1..count

IInv == StateOK /\ (\A s \in 1..count : RecordInv(st[s])) /\ TableInv

-----------------------------------------------------------------------------
(* Operations on one Stream object *)

LEMMA EvolvesTransitive ==
  ASSUME NEW p, NEW q, NEW r, Evolves(p, q), Evolves(q, r)
  PROVE  Evolves(p, r)
  BY DEF Evolves

LEMMA SameControlEvolves ==
  ASSUME NEW r, RecordInv(r), NEW q, SameControl(r, q)
  PROVE  Evolves(r, q)
  BY DEF SameControl, Evolves, RecordInv

LEMMA QuietTransitive ==
  ASSUME NEW p, NEW q, NEW r, Quiet(p, q), Quiet(q, r)
  PROVE  Quiet(p, r)
  BY DEF Quiet

LEMMA NewStreamInv ==
  ASSUME NEW c \in Conns, NEW i \in Ids
  PROVE  RecordInv(NewStream(c, i)) /\ NewStream(c, i).conn = c /\ NewStream(c, i).id = i
  BY DEF NewStream, RecordInv, StreamRecord, Text, Blank, Alive

\* What finalize() does to the fields of a stream that is not finalized.
LEMMA FinalizedFields ==
  ASSUME NEW r \in StreamRecord, ~r.finalized
  PROVE  LET q == Finalized(r)
         IN  /\ q \in StreamRecord /\ q.finalized /\ q.written = r.written + 1
             /\ q.worker \notin Alive
             /\ r.worker \notin Alive => q.worker = r.worker
             /\ r.worker \in {"running", "finishing"} => q.worker = "stopped"
             /\ r.worker = "draining" => q.worker = "interrupted"
             /\ q.conn = r.conn /\ q.id = r.id /\ q.finalizing = r.finalizing
             /\ q.task = r.task /\ q.tasks = r.tasks /\ q.broken = r.broken
             /\ q.evicted = r.evicted /\ q.said = r.said /\ q.queued = r.queued
             /\ q.results = r.results /\ q.withheld = r.withheld
             /\ q.accumulated = r.accumulated /\ q.last = r.last /\ q.partial = r.partial
  <1> DEFINE w == CASE r.worker \in {"running", "finishing"} -> "stopped"
                    [] r.worker = "draining" -> "interrupted"
                    [] OTHER -> r.worker
             q == [r EXCEPT !.finalized = TRUE, !.written = r.written + 1, !.worker = w]
  <1>1. Finalized(r) = q
    BY DEF Finalized
  <1>2. /\ w \in {"none", "failed", "stopped", "interrupted", "abandoned"}
        /\ r.worker \notin Alive => w = r.worker
        /\ r.worker \in {"running", "finishing"} => w = "stopped"
        /\ r.worker = "draining" => w = "interrupted"
    BY DEF StreamRecord, Alive
  <1>3. r.written + 1 \in Nat
    BY DEF StreamRecord
  <1> HIDE DEF w
  <1> QED BY <1>1, <1>2, <1>3, ZenonT(60) DEF StreamRecord, Alive

LEMMA FinalizedInv ==
  ASSUME NEW r, RecordInv(r)
  PROVE  Evolves(r, Finalized(r)) /\ Finalized(r).finalized /\ Quiet(r, Finalized(r))
  <1>1. CASE r.finalized
    BY <1>1 DEF Finalized, Evolves, Quiet
  <1>2. CASE ~r.finalized
    <2> DEFINE q == Finalized(r)
    <2>1. /\ q \in StreamRecord /\ q.finalized /\ q.written = r.written + 1
          /\ q.worker \notin Alive
          /\ q.conn = r.conn /\ q.id = r.id /\ q.finalizing = r.finalizing
          /\ q.task = r.task /\ q.tasks = r.tasks /\ q.broken = r.broken
          /\ q.evicted = r.evicted
          /\ r.worker \notin Alive => q.worker = r.worker
          /\ r.worker \in {"running", "finishing"} => q.worker = "stopped"
          /\ r.worker = "draining" => q.worker = "interrupted"
          /\ q.accumulated = r.accumulated /\ q.last = r.last /\ q.said = r.said
          /\ q.results = r.results /\ q.withheld = r.withheld
      BY <1>2, FinalizedFields DEF RecordInv
    <2> HIDE DEF q
    <2>2. Evolves(r, q) /\ q.finalized
      BY <1>2, <2>1 DEF Evolves, RecordInv, Alive
    <2>3. Quiet(r, q)
      BY <2>1 DEF Quiet, RecordInv, Alive, Early, StreamRecord
    <2> QED BY <2>2, <2>3 DEF q
  <1> QED BY <1>1, <1>2

LEMMA BrokenInv ==
  ASSUME NEW r, RecordInv(r), ~r.finalized, NEW when \in {"write", "closing"}
  PROVE  LET q == Broken(r, when)
         IN  /\ Evolves(r, q) /\ Quiet(r, q) /\ q.finalized /\ q.broken = when
             /\ q.finalizing = r.finalizing /\ q.task = r.task /\ q.worker = r.worker
  <1> DEFINE q == Broken(r, when)
  <1>1. r \in StreamRecord /\ r.written = 0 /\ r.broken = "no"
    BY DEF RecordInv
  <1>2. q = [r EXCEPT !.finalized = TRUE, !.written = 1, !.broken = when]
    BY <1>1 DEF Broken
  <1>3. /\ q \in StreamRecord /\ q.finalized /\ q.written = 1 /\ q.broken = when
        /\ q.conn = r.conn /\ q.id = r.id /\ q.finalizing = r.finalizing
        /\ q.task = r.task /\ q.tasks = r.tasks /\ q.evicted = r.evicted
        /\ q.worker = r.worker
        /\ q.accumulated = r.accumulated /\ q.last = r.last /\ q.said = r.said
        /\ q.results = r.results /\ q.withheld = r.withheld
    <2> HIDE DEF q
    <2>1. when \in {"no", "write", "closing"} /\ 1 \in Nat
      OBVIOUS
    <2> QED BY <1>1, <1>2, <2>1 DEF StreamRecord
  <1> HIDE DEF q
  <1>4. Evolves(r, q)
    BY <1>1, <1>3 DEF Evolves, RecordInv
  <1>5. Quiet(r, q)
    BY <1>3 DEF Quiet, Early
  <1> QED BY <1>3, <1>4, <1>5 DEF q

LEMMA WithTaskInv ==
  ASSUME NEW r, RecordInv(r), ~r.finalizing
  PROVE  /\ Evolves(r, WithTask(r)) /\ Quiet(r, WithTask(r)) /\ WithTask(r).finalizing
         /\ WithTask(r).finalized = r.finalized /\ WithTask(r).worker = r.worker
         /\ WithTask(r).task = "created"
  <1> DEFINE q == WithTask(r)
  <1>1. r \in StreamRecord /\ r.tasks = 0 /\ r.task = "none"
    BY DEF RecordInv
  <1>2. /\ q \in StreamRecord /\ q.finalizing = TRUE /\ q.task = "created" /\ q.tasks = 1
        /\ q.conn = r.conn /\ q.id = r.id /\ q.finalized = r.finalized
        /\ q.worker = r.worker /\ q.written = r.written /\ q.broken = r.broken
        /\ q.evicted = r.evicted
        /\ q.accumulated = r.accumulated /\ q.last = r.last /\ q.said = r.said
        /\ q.results = r.results /\ q.withheld = r.withheld
    <2>1. q = [r EXCEPT !.finalizing = TRUE, !.task = "created", !.tasks = 1]
      BY <1>1 DEF WithTask
    <2> HIDE DEF q
    <2> QED BY <1>1, <2>1 DEF StreamRecord
  <1> HIDE DEF q
  <1>3. Evolves(r, q)
    BY <1>1, <1>2 DEF Evolves, RecordInv
  <1>4. Quiet(r, q)
    BY <1>1, <1>2 DEF Quiet, Early
  <1> QED BY <1>2, <1>3, <1>4 DEF q

LEMMA WithWorkerInv ==
  ASSUME NEW r, RecordInv(r), ~r.finalized, ~r.finalizing, NEW q \in WithWorker(r)
  PROVE  /\ Evolves(r, q) /\ Quiet(r, q)
         /\ ~q.finalized /\ ~q.finalizing /\ q.task = "none"
  <1>1. r \in StreamRecord /\ r.task = "none" /\ r.broken = "no"
    BY DEF RecordInv
  <1>2. CASE q = r
    BY <1>1, <1>2 DEF Evolves, Quiet
  <1>3. ASSUME NEW w \in {"running", "failed"}, q = [r EXCEPT !.worker = w],
               r.worker = "none"
        PROVE  /\ Evolves(r, q) /\ Quiet(r, q)
               /\ ~q.finalized /\ ~q.finalizing /\ q.task = "none"
    <2>1. /\ q \in StreamRecord /\ q.worker = w /\ q.finalizing = r.finalizing
          /\ q.conn = r.conn /\ q.id = r.id /\ q.finalized = r.finalized
          /\ q.written = r.written /\ q.broken = r.broken /\ q.evicted = r.evicted
          /\ q.task = r.task /\ q.tasks = r.tasks
          /\ q.accumulated = r.accumulated /\ q.last = r.last /\ q.said = r.said
          /\ q.results = r.results /\ q.withheld = r.withheld
      BY <1>1, <1>3 DEF StreamRecord
    <2>2. Quiet(r, q)
      BY <1>1, <1>3, <2>1 DEF Quiet, Early
    <2> QED BY <1>1, <2>1, <2>2 DEF Evolves, RecordInv
  <1> QED BY <1>2, <1>3 DEF WithWorker

\* Operations on the words and the queues.
LEMMA WithChunkControl ==
  ASSUME NEW r \in StreamRecord
  PROVE  SameControl(r, WithChunk(r)) /\ Quiet(r, WithChunk(r))
  <1>1. r.queued + 1 \in Nat
    BY DEF StreamRecord
  <1> QED BY <1>1 DEF WithChunk, SameControl, Quiet, Early, StreamRecord

LEMMA WithTextControl ==
  ASSUME NEW r \in StreamRecord, NEW text \in Text
  PROVE  SameControl(r, WithText(r, text))
  <1>1. Append(r.accumulated, text) \in Seq(Text)
    BY DEF StreamRecord
  <1>2. CASE text = Blank
    BY <1>2 DEF WithText, SameControl
  <1>3. CASE text # Blank
    <2> DEFINE longer == Append(r.accumulated, text)
               q == [r EXCEPT !.accumulated = longer]
    <2>1. WithText(r, text) = q
      BY <1>3 DEF WithText
    <2> HIDE DEF longer
    <2>2. SameControl(r, q)
      BY <1>1 DEF SameControl, StreamRecord, longer
    <2> QED BY <2>1, <2>2
  <1> QED BY <1>2, <1>3

\* A chunk recognized: nothing comes of it, or a result that is queued or not.
LEMMA RecognizedFields ==
  ASSUME NEW r \in StreamRecord, r.queued > 0, NEW q \in Recognized(r)
  PROVE  /\ SameControl(r, q)
         /\ q.accumulated = r.accumulated /\ q.last = r.last /\ q.partial = r.partial
         /\ \/ q.said = r.said /\ q.results = r.results /\ q.withheld = r.withheld
            \/ \E x \in Outcomes(r) :
                 /\ q.said = IF Completes(x) THEN x.text ELSE r.said
                 /\ q.results = IF r.worker = "draining" THEN r.results
                                ELSE Append(r.results, x)
                 /\ q.withheld = (r.withheld \/ (r.worker = "draining" /\ Completes(x)))
  <1>1. r.queued - 1 \in Nat /\ r.said \in Nat /\ r.results \in Seq(Result)
        /\ r.withheld \in BOOLEAN
    BY DEF StreamRecord
  <1>2. CASE q = [r EXCEPT !.queued = r.queued - 1]
    BY <1>1, <1>2 DEF SameControl, StreamRecord
  <1>3. ASSUME NEW n \in Nat, NEW y \in Seq(Result), NEW w \in BOOLEAN,
               q = [r EXCEPT !.queued = r.queued - 1, !.said = n, !.results = y,
                             !.withheld = w]
        PROVE  /\ SameControl(r, q)
               /\ q.accumulated = r.accumulated /\ q.last = r.last /\ q.partial = r.partial
               /\ q.said = n /\ q.results = y /\ q.withheld = w
    BY <1>1, <1>3 DEF SameControl, StreamRecord
  <1>4. \/ q = [r EXCEPT !.queued = r.queued - 1]
        \/ \E x \in Outcomes(r) :
             q = [r EXCEPT !.queued = r.queued - 1,
                           !.said = IF Completes(x) THEN x.text ELSE r.said,
                           !.results = IF r.worker = "draining" THEN r.results
                                       ELSE Append(r.results, x),
                           !.withheld = (r.withheld \/ (r.worker = "draining" /\ Completes(x)))]
    <2>1. /\ [r EXCEPT !.queued = r.queued - 1].said = r.said
          /\ [r EXCEPT !.queued = r.queued - 1].results = r.results
          /\ [r EXCEPT !.queued = r.queued - 1].withheld = r.withheld
      BY DEF StreamRecord
    <2> QED BY <2>1, ZenonT(60) DEF Recognized
  <1>5. ASSUME NEW x \in Outcomes(r), NEW n, NEW y, NEW w,
               n = IF Completes(x) THEN x.text ELSE r.said,
               y = IF r.worker = "draining" THEN r.results ELSE Append(r.results, x),
               w = (r.withheld \/ (r.worker = "draining" /\ Completes(x)))
        PROVE  n \in Nat /\ y \in Seq(Result) /\ w \in BOOLEAN
    <2>1. n \in Nat /\ w \in BOOLEAN /\ x \in Result
      BY <1>1, <1>5 DEF Outcomes, Blank, Completes, Result, Text
    <2> QED BY <1>1, <1>5, <2>1
  <1>6. CASE \E x \in Outcomes(r) :
               q = [r EXCEPT !.queued = r.queued - 1,
                             !.said = IF Completes(x) THEN x.text ELSE r.said,
                             !.results = IF r.worker = "draining" THEN r.results
                                         ELSE Append(r.results, x),
                             !.withheld = (r.withheld \/ (r.worker = "draining" /\ Completes(x)))]
    <2>1. PICK x \in Outcomes(r) :
               q = [r EXCEPT !.queued = r.queued - 1,
                             !.said = IF Completes(x) THEN x.text ELSE r.said,
                             !.results = IF r.worker = "draining" THEN r.results
                                         ELSE Append(r.results, x),
                             !.withheld = (r.withheld \/ (r.worker = "draining" /\ Completes(x)))]
      BY <1>6
    <2> DEFINE n == IF Completes(x) THEN x.text ELSE r.said
               y == IF r.worker = "draining" THEN r.results ELSE Append(r.results, x)
               w == r.withheld \/ (r.worker = "draining" /\ Completes(x))
    <2>2. n \in Nat /\ y \in Seq(Result) /\ w \in BOOLEAN
      BY <1>5
    <2>3. q = [r EXCEPT !.queued = r.queued - 1, !.said = n, !.results = y, !.withheld = w]
      BY <2>1
    <2> HIDE DEF n, y, w
    <2>4. /\ SameControl(r, q)
          /\ q.accumulated = r.accumulated /\ q.last = r.last /\ q.partial = r.partial
          /\ q.said = n /\ q.results = y /\ q.withheld = w
      BY <1>3, <2>2, <2>3
    <2> USE DEF n, y, w
    <2> QED BY <2>4
  <1> QED BY <1>2, <1>4, <1>6

\* The oldest result is taken by a frame, or by finish().
LEMMA PolledFields ==
  ASSUME NEW r \in StreamRecord
  PROVE  /\ SameControl(r, Polled(r))
         /\ r.results = <<>> => Polled(r) = r
         /\ r.results # <<>> =>
              LET x == Head(r.results)
                  q == Polled(r)
              IN  /\ q.results = Tail(r.results) /\ q.last = x.text
                  /\ q.accumulated = IF Completes(x) THEN Append(r.accumulated, x.text)
                                     ELSE r.accumulated
                  /\ q.said = r.said /\ q.withheld = r.withheld
  <1>1. CASE r.results = <<>>
    BY <1>1 DEF Polled, SameControl
  <1>2. CASE r.results # <<>>
    <2> DEFINE x == Head(r.results)
               q == [r EXCEPT !.results = Tail(r.results), !.last = x.text]
               longer == Append(r.accumulated, x.text)
    <2>1. /\ x \in Result /\ x.text \in Nat /\ Tail(r.results) \in Seq(Result)
          /\ longer \in Seq(Nat)
      <3>1. r.results \in Seq(Result) /\ r.accumulated \in Seq(Nat)
        BY DEF StreamRecord, Text
      <3> HIDE DEF x
      <3>2. x \in Result /\ Tail(r.results) \in Seq(Result)
        BY <1>2, <3>1 DEF x
      <3> QED BY <3>1, <3>2 DEF Result, Text
    <2>2. Polled(r) = IF x.final THEN IF x.text = Blank THEN q ELSE [q EXCEPT !.accumulated = longer]
                      ELSE [q EXCEPT !.partial = x.text]
      <3>1. q.accumulated = r.accumulated
        BY DEF StreamRecord
      <3> QED BY <1>2, <3>1 DEF Polled, WithText
    <2> HIDE DEF x, longer
    <2>3. /\ SameControl(r, q) /\ q.results = Tail(r.results) /\ q.last = x.text
          /\ q.accumulated = r.accumulated /\ q.said = r.said /\ q.withheld = r.withheld
      BY <2>1 DEF SameControl, StreamRecord, Text
    <2> DEFINE told == [q EXCEPT !.accumulated = longer]
               told2 == [q EXCEPT !.partial = x.text]
    <2>4. /\ SameControl(r, told) /\ told.results = Tail(r.results) /\ told.last = x.text
          /\ told.accumulated = longer /\ told.said = r.said /\ told.withheld = r.withheld
      <3> HIDE DEF q
      <3> QED BY <2>1, <2>3 DEF SameControl, StreamRecord, Text
    <2>5. /\ SameControl(r, told2) /\ told2.results = Tail(r.results) /\ told2.last = x.text
          /\ told2.accumulated = r.accumulated /\ told2.said = r.said
          /\ told2.withheld = r.withheld
      <3> HIDE DEF q
      <3> QED BY <2>1, <2>3 DEF SameControl, StreamRecord, Text
    <2> HIDE DEF q, told, told2
    <2>6. Polled(r) = IF x.final THEN IF x.text = Blank THEN q ELSE told ELSE told2
      BY <2>2 DEF told, told2
    <2> QED BY <1>2, <2>3, <2>4, <2>5, <2>6 DEF Completes, x, longer
  <1> QED BY <1>1, <1>2

LEMMA TakenFields ==
  ASSUME NEW r \in StreamRecord
  PROVE  /\ SameControl(r, Taken(r))
         /\ r.results = <<>> => Taken(r) = r
         /\ r.results # <<>> =>
              LET x == Head(r.results)
                  q == Taken(r)
              IN  /\ q.results = Tail(r.results) /\ q.last = x.text
                  /\ q.accumulated = IF x.text = Blank THEN r.accumulated
                                     ELSE Append(r.accumulated, x.text)
                  /\ q.said = r.said /\ q.withheld = r.withheld
  <1>1. CASE r.results = <<>>
    BY <1>1 DEF Taken, SameControl
  <1>2. CASE r.results # <<>>
    <2> DEFINE x == Head(r.results)
               q == [r EXCEPT !.last = x.text, !.results = Tail(r.results)]
               longer == Append(r.accumulated, x.text)
               told == [q EXCEPT !.accumulated = longer]
    <2>1. /\ x \in Result /\ x.text \in Nat /\ Tail(r.results) \in Seq(Result)
          /\ longer \in Seq(Nat)
      <3>1. r.results \in Seq(Result) /\ r.accumulated \in Seq(Nat)
        BY DEF StreamRecord, Text
      <3> HIDE DEF x
      <3>2. x \in Result /\ Tail(r.results) \in Seq(Result)
        BY <1>2, <3>1 DEF x
      <3> QED BY <3>1, <3>2 DEF Result, Text
    <2>2. Taken(r) = IF x.text = Blank THEN q ELSE told
      <3>1. q.accumulated = r.accumulated
        BY DEF StreamRecord
      <3> QED BY <1>2, <3>1 DEF Taken, WithText
    <2> HIDE DEF x, longer
    <2>3. /\ SameControl(r, q) /\ q.results = Tail(r.results) /\ q.last = x.text
          /\ q.accumulated = r.accumulated /\ q.said = r.said /\ q.withheld = r.withheld
      BY <2>1 DEF SameControl, StreamRecord, Text
    <2>4. /\ SameControl(r, told) /\ told.results = Tail(r.results) /\ told.last = x.text
          /\ told.accumulated = longer /\ told.said = r.said /\ told.withheld = r.withheld
      <3> HIDE DEF q
      <3> QED BY <2>1, <2>3 DEF SameControl, StreamRecord, Text
    <2> HIDE DEF q, told
    <2> QED BY <1>2, <2>2, <2>3, <2>4 DEF x, longer
  <1> QED BY <1>1, <1>2

LEMMA FlushedFields ==
  ASSUME NEW r \in StreamRecord, NEW q \in Flushed(r)
  PROVE  \E text \in {Blank, r.said + 1} :
           /\ SameControl(r, q)
           /\ q.results = Append(r.results, [final |-> TRUE, text |-> text])
           /\ q.said = IF text = Blank THEN r.said ELSE text
           /\ q.accumulated = r.accumulated /\ q.withheld = r.withheld
           /\ q.last = r.last /\ q.queued = r.queued
  <1>1. PICK text \in {Blank, r.said + 1} :
          q = [r EXCEPT !.results = Append(r.results, [final |-> TRUE, text |-> text]),
                        !.said = IF text = Blank THEN r.said ELSE text]
    BY DEF Flushed
  <1> DEFINE y == Append(r.results, [final |-> TRUE, text |-> text])
             n == IF text = Blank THEN r.said ELSE text
  <1>2. y \in Seq(Result) /\ n \in Nat
    <2>1. text \in Nat /\ r.said \in Nat /\ r.results \in Seq(Result)
      BY DEF StreamRecord, Blank
    <2>2. [final |-> TRUE, text |-> text] \in Result
      BY <2>1 DEF Result, Text
    <2> QED BY <2>1, <2>2
  <1>3. q = [r EXCEPT !.results = y, !.said = n]
    BY <1>1
  <1> HIDE DEF y, n
  <1>4. /\ SameControl(r, q) /\ q.results = y /\ q.said = n
        /\ q.accumulated = r.accumulated /\ q.withheld = r.withheld
        /\ q.last = r.last /\ q.queued = r.queued
    BY <1>2, <1>3 DEF SameControl, StreamRecord
  <1> QED BY <1>4 DEF y, n

\* The end of a pipeline's first part, in either way.
LEMMA ConcludedInv ==
  ASSUME NEW r, RecordInv(r), r.task \in {"created", "asr"}, r.worker \notin Alive,
         NEW f, f = Finalized(r) \/ (~r.finalized /\ f = Broken(r, "write")),
         NEW t \in {"llm", "done"}
  PROVE  Evolves(r, [f EXCEPT !.task = t]) /\ [f EXCEPT !.task = t].finalized
  <1> DEFINE q == [f EXCEPT !.task = t]
  <1>1. /\ Evolves(r, f) /\ f.finalized /\ f.finalizing = r.finalizing
        /\ f.worker \notin Alive
    <2>1. CASE f = Finalized(r)
      <3>1. f.worker \notin Alive /\ f.finalizing = r.finalizing
        <4>1. CASE r.finalized
          BY <2>1, <4>1 DEF Finalized
        <4>2. CASE ~r.finalized
          BY <2>1, <4>2, FinalizedFields DEF RecordInv
        <4> QED BY <4>1, <4>2
      <3> QED BY <2>1, <3>1, FinalizedInv
    <2>2. CASE ~r.finalized /\ f = Broken(r, "write")
      BY <2>2, BrokenInv
    <2> QED BY <2>1, <2>2
  <1>2. r.finalizing
    BY DEF RecordInv
  <1>3. /\ q \in StreamRecord /\ q.task = t
        /\ q.finalizing = f.finalizing /\ q.finalized = f.finalized /\ q.conn = f.conn
        /\ q.id = f.id /\ q.written = f.written /\ q.tasks = f.tasks
        /\ q.worker = f.worker /\ q.broken = f.broken /\ q.evicted = f.evicted
    BY <1>1 DEF Evolves, RecordInv, StreamRecord
  <1> HIDE DEF q
  <1>4. Evolves(f, q)
    BY <1>1, <1>2, <1>3 DEF Evolves, RecordInv, Alive
  <1>5. Evolves(r, q) /\ q.finalized
    BY <1>1, <1>3, <1>4, EvolvesTransitive
  <1> QED BY <1>5 DEF q

-----------------------------------------------------------------------------
(* All streams at once *)

\* What every step but a start message does to the streams.
AllEvolve ==
  /\ count' = count /\ DOMAIN st' = 1..count /\ st' \in Seq(StreamRecord)
  /\ \A s \in 1..count : Evolves(st[s], st'[s])

\* What every lemma below needs of the invariant.
LEMMA Facts ==
  ASSUME IInv
  PROVE  /\ count \in Nat /\ 1..count \subseteq Stream
         /\ \A c \in Conns, i \in Ids :
              table[c][i] # NoStream =>
                /\ table[c][i] \in 1..count
                /\ st[table[c][i]].conn = c /\ st[table[c][i]].id = i
         /\ \A c \in Conns : \A s \in Entries(c) : s \in 1..count /\ st[s].conn = c
         /\ \A s \in 1..count :
              /\ RecordInv(st[s]) /\ Evolves(st[s], st[s])
              /\ st[s] \in StreamRecord /\ st[s].conn \in Conns /\ st[s].id \in Ids
  <1>1. \A s \in 1..count : RecordInv(st[s])
    BY DEF IInv
  <1>2. \A s \in 1..count : st[s] \in StreamRecord /\ Evolves(st[s], st[s])
    BY <1>1 DEF RecordInv, Evolves
  <1>3. \A s \in 1..count : st[s].conn \in Conns /\ st[s].id \in Ids
    BY <1>2 DEF StreamRecord
  <1>4. \A c \in Conns, i \in Ids :
          table[c][i] # NoStream =>
            /\ table[c][i] \in 1..count
            /\ st[table[c][i]].conn = c /\ st[table[c][i]].id = i
    BY DEF IInv, TableInv
  <1>5. \A c \in Conns : \A s \in Entries(c) : s \in 1..count /\ st[s].conn = c
    BY <1>4 DEF Entries
  <1> QED BY <1>1, <1>2, <1>3, <1>4, <1>5, BoundsAssumption DEF IInv, StateOK, Stream

\* Replacing one stream,
LEMMA OneEvolves ==
  ASSUME IInv, NEW s \in 1..count, NEW q, Evolves(st[s], q),
         st' = [st EXCEPT ![s] = q], count' = count
  PROVE  /\ AllEvolve /\ st'[s] = q
         /\ \A t \in 1..count : t # s => st'[t] = st[t]
  <1>1. /\ st \in Seq(StreamRecord) /\ DOMAIN st = 1..count /\ q \in StreamRecord
        /\ \A t \in 1..count : RecordInv(st[t])
    BY DEF IInv, StateOK, Evolves, RecordInv
  <1>2. /\ DOMAIN st' = 1..count /\ st' \in Seq(StreamRecord) /\ st'[s] = q
        /\ \A t \in 1..count : t # s => st'[t] = st[t]
    <2>1. st \in [1..count -> StreamRecord] /\ count \in Nat
      BY <1>1 DEF IInv, StateOK
    <2>2. st' \in [1..count -> StreamRecord]
      BY <1>1, <2>1
    <2>3. st' \in Seq(StreamRecord)
      BY <2>1, <2>2
    <2> QED BY <2>1, <2>2, <2>3
  <1>3. \A t \in 1..count : Evolves(st[t], st[t])
    BY <1>1 DEF Evolves
  <1> QED BY <1>2, <1>3 DEF AllEvolve

\* ... or any of them.
LEMMA ManyEvolve ==
  ASSUME IInv, count' = count, DOMAIN st' = 1..count,
         st' = [s \in 1..count |-> st'[s]],
         \A s \in 1..count : Evolves(st[s], st'[s])
  PROVE  AllEvolve
  <1>1. count \in Nat /\ \A s \in 1..count : st'[s] \in StreamRecord
    BY Facts DEF Evolves, RecordInv
  <1>2. st' \in Seq(StreamRecord)
    BY <1>1
  <1> QED BY <1>2 DEF AllEvolve

\* Finalizing those in S: all, or, if finalize() raises, those up to one.
LEMMA SweepEvolves ==
  ASSUME IInv, NEW q, NEW S \in SUBSET (1..count), NEW when \in {"write", "closing"},
         \A s \in 1..count : Evolves(st[s], q[s]),
         NEW p \in {Swept(q, S)} \cup Cut(q, S, when)
  PROVE  /\ p = [s \in 1..count |-> p[s]]
         /\ \A s \in 1..count : Evolves(st[s], p[s]) /\ Quiet(q[s], p[s])
         /\ \/ \A s \in S : p[s].finalized
            \/ \E f \in S : /\ p[f].broken = when
                            /\ \A s \in S : s <= f => p[s].finalized
  <1>1. /\ count \in Nat
        /\ \A s \in 1..count :
             /\ RecordInv(q[s])
             /\ Evolves(st[s], Finalized(q[s])) /\ Finalized(q[s]).finalized
             /\ Quiet(q[s], Finalized(q[s])) /\ Quiet(q[s], q[s])
    <2>1. ASSUME NEW s \in 1..count
          PROVE  /\ RecordInv(q[s])
                 /\ Evolves(st[s], Finalized(q[s])) /\ Finalized(q[s]).finalized
                 /\ Quiet(q[s], Finalized(q[s])) /\ Quiet(q[s], q[s])
      <3>1. RecordInv(q[s])
        BY DEF Evolves
      <3>2. /\ Evolves(q[s], Finalized(q[s])) /\ Finalized(q[s]).finalized
            /\ Quiet(q[s], Finalized(q[s]))
        BY <3>1, FinalizedInv
      <3>3. Quiet(q[s], q[s])
        BY DEF Quiet
      <3> QED BY <3>1, <3>2, <3>3, EvolvesTransitive
    <2> QED BY <2>1, Facts
  <1>2. CASE p = Swept(q, S)
    BY <1>1, <1>2 DEF Swept
  <1>3. CASE p \in Cut(q, S, when)
    <2>1. PICK f \in S :
            /\ ~q[f].finalized
            /\ p = [s \in 1..count |-> IF s \in S /\ s < f THEN Finalized(q[s])
                                       ELSE IF s = f THEN Broken(q[s], when)
                                       ELSE q[s]]
      BY <1>3 DEF Cut
    <2>2. /\ Evolves(st[f], Broken(q[f], when)) /\ Broken(q[f], when).finalized
          /\ Broken(q[f], when).broken = when /\ Quiet(q[f], Broken(q[f], when))
      <3>1. f \in 1..count /\ RecordInv(q[f]) /\ Evolves(st[f], q[f])
        BY <1>1
      <3>2. /\ Evolves(q[f], Broken(q[f], when)) /\ Broken(q[f], when).finalized
            /\ Broken(q[f], when).broken = when /\ Quiet(q[f], Broken(q[f], when))
        BY <2>1, <3>1, BrokenInv
      <3> QED BY <3>1, <3>2, EvolvesTransitive
    <2>3. /\ p = [s \in 1..count |-> p[s]] /\ f \in 1..count
          /\ p[f] = Broken(q[f], when)
          /\ \A s \in 1..count : s # f =>
               p[s] = IF s \in S /\ s < f THEN Finalized(q[s]) ELSE q[s]
      BY <2>1
    <2>4. \A s \in 1..count : Evolves(st[s], p[s]) /\ Quiet(q[s], p[s])
      BY <1>1, <2>2, <2>3
    <2>5. \A s \in S : s <= f => p[s].finalized
      <3>1. \A s \in S : s <= f => s = f \/ s < f
        BY <1>1
      <3> QED BY <1>1, <2>2, <2>3, <3>1
    <2> QED BY <2>2, <2>3, <2>4, <2>5
  <1> QED BY <1>2, <1>3

\* Streams keep their keys, and what has begun to end goes on ending.
LEMMA EvolveKeeps ==
  ASSUME IInv, AllEvolve
  PROVE  /\ \A s \in 1..count : RecordInv(st'[s])
         /\ \A s \in 1..count : st'[s].conn = st[s].conn /\ st'[s].id = st[s].id
         /\ \A s, t \in 1..count : SameKey(s, t)' = SameKey(s, t)
         /\ \A s \in 1..count : Live(s)' => Live(s)
  <1>1. /\ \A s \in 1..count : RecordInv(st'[s])
        /\ \A s \in 1..count : st'[s].conn = st[s].conn /\ st'[s].id = st[s].id
        /\ count \in Nat
    BY Facts DEF AllEvolve, Evolves
  <1>2. \A s, t \in 1..count : SameKey(s, t)' = SameKey(s, t)
    BY <1>1 DEF SameKey
  <1>3. ASSUME NEW s \in 1..count, Forsaken(s) PROVE Forsaken(s)'
    <2>1. \A t \in 1..(s - 1) : t \in 1..count
      BY <1>1
    <2>2. CASE st[s].evicted
      BY <2>2 DEF Forsaken, AllEvolve, Evolves
    <2>3. CASE PassedOver(s)
      <3>1. PICK t \in 1..(s - 1) : st[t].conn = st[s].conn /\ st[t].broken = "closing"
        BY <2>3 DEF PassedOver
      <3>2. st'[t].conn = st'[s].conn /\ st'[t].broken = "closing"
        BY <1>1, <2>1, <3>1 DEF AllEvolve, Evolves
      <3> QED BY <3>2 DEF Forsaken, PassedOver
    <2> QED BY <1>3, <2>2, <2>3 DEF Forsaken
  <1>4. \A s \in 1..count : Live(s)' => Live(s)
    BY <1>3 DEF Live, AllEvolve, Evolves
  <1> QED BY <1>1, <1>2, <1>4

-----------------------------------------------------------------------------
(* The dictionaries *)

\* The relation between table and streams survives a step that starts no stream:
\* if entries only disappear, and those of streams that have begun to end, and a
\* connection goes only when its streams have.
LEMMA TableKept ==
  ASSUME IInv, AllEvolve, StateOK',
         \A c \in Conns, i \in Ids : table'[c][i] \in {table[c][i], NoStream},
         \A c \in Conns : hello[c] => hello'[c],
         \A s \in 1..count :
           Live(s) /\ Live(s)' => table'[st[s].conn][st[s].id] = table[st[s].conn][st[s].id],
         \A s \in 1..count : Live(s) /\ Live(s)' => open'[st[s].conn]
  PROVE  IInv'
  <1>1. /\ \A s \in 1..count : RecordInv(st'[s])
        /\ \A s \in 1..count : st'[s].conn = st[s].conn /\ st'[s].id = st[s].id
        /\ \A s, t \in 1..count : SameKey(s, t)' = SameKey(s, t)
        /\ \A s \in 1..count : Live(s)' => Live(s)
        /\ count' = count
    BY EvolveKeeps DEF AllEvolve
  <1>2. ASSUME NEW c \in Conns, NEW i \in Ids, table'[c][i] # NoStream
        PROVE  /\ table'[c][i] \in 1..count'
               /\ st'[table'[c][i]].conn = c /\ st'[table'[c][i]].id = i
    <2>1. table'[c][i] = table[c][i]
      BY <1>2
    <2> QED BY <1>1, <1>2, <2>1 DEF IInv, TableInv
  <1>3. \A c \in Conns : ~hello'[c] => \A i \in Ids : table'[c][i] = NoStream
    BY DEF IInv, TableInv
  <1>4. \A s \in 1..count' :
          Live(s)' => open'[st'[s].conn] /\ table'[st'[s].conn][st'[s].id] = s
    BY <1>1 DEF IInv, TableInv
  <1>5. \A s, t \in 1..count' : t < s /\ SameKey(s, t)' => ~Live(t)'
    BY <1>1 DEF IInv, TableInv
  <1>6. TableInv'
    BY <1>2, <1>3, <1>4, <1>5 DEF TableInv
  <1> QED BY <1>1, <1>6 DEF IInv

\* A start message: a new stream under a free id of a connection that is open.
LEMMA StartIInv ==
  ASSUME IInv, NEW c \in Conns, NEW i \in Ids, StartStream(c, i)
  PROVE  IInv'
  <1> DEFINE n == count + 1
             r == NewStream(c, i)
  <1>1. /\ count \in Nat /\ n \in Stream /\ n \in 1..n /\ MaxStreams \in Nat
        /\ count' = n /\ st' = Append(st, r) /\ n <= MaxStreams
        /\ st \in Seq(StreamRecord) /\ Len(st) = count
        /\ open[c] /\ hello[c] /\ table[c][i] = NoStream
        /\ table' = [table EXCEPT ![c][i] = n] /\ UNCHANGED <<open, hello, fed>>
        /\ idle' = [idle EXCEPT ![c] = FALSE]
    BY BoundsAssumption DEF StartStream, IInv, StateOK, Stream, Heard
  <1>2. RecordInv(r) /\ r.conn = c /\ r.id = i /\ r \in StreamRecord
    BY NewStreamInv DEF RecordInv
  <1> HIDE DEF r
  <1>3. /\ st' \in Seq(StreamRecord) /\ DOMAIN st' = 1..n /\ st'[n] = r
        /\ \A s \in 1..count : st'[s] = st[s]
    BY <1>1, <1>2
  <1>4. \A s \in 1..n : s \in 1..count \/ s = n
    BY <1>1
  <1>5. \A s \in 1..n : RecordInv(st'[s])
    BY <1>2, <1>3, <1>4 DEF IInv
  <1>6. StateOK'
    <2>1. table' \in [Conns -> [Ids -> Stream \cup {NoStream}]]
      BY <1>1 DEF IInv, StateOK
    <2>2. idle' \in [Conns -> BOOLEAN]
      BY <1>1 DEF IInv, StateOK
    <2> QED BY <1>1, <1>3, <2>1, <2>2 DEF IInv, StateOK
  <1>7. ASSUME NEW s \in 1..count PROVE Live(s)' = Live(s)
    <2>1. \A t \in 1..(s - 1) : t \in 1..count
      BY <1>1
    <2> QED BY <1>3, <2>1 DEF Live, Forsaken, PassedOver
  <1>8. ASSUME NEW d \in Conns, NEW j \in Ids
        PROVE  table'[d][j] = IF d = c /\ j = i THEN n ELSE table[d][j]
    BY <1>1 DEF IInv, StateOK
  <1>9. ASSUME NEW d \in Conns, NEW j \in Ids, table'[d][j] # NoStream
        PROVE  /\ table'[d][j] \in 1..count'
               /\ st'[table'[d][j]].conn = d /\ st'[table'[d][j]].id = j
    <2>1. CASE d = c /\ j = i
      BY <1>1, <1>2, <1>3, <1>8, <2>1
    <2>2. CASE ~(d = c /\ j = i)
      <3>1. table[d][j] \in 1..count /\ st[table[d][j]].conn = d /\ st[table[d][j]].id = j
        BY <1>8, <1>9, <2>2 DEF IInv, TableInv
      <3>2. table'[d][j] = table[d][j]
        BY <1>8, <2>2
      <3> QED BY <1>1, <1>3, <3>1, <3>2
    <2> QED BY <2>1, <2>2
  <1>10. \A d \in Conns : ~hello'[d] => \A j \in Ids : table'[d][j] = NoStream
    BY <1>1, <1>8 DEF IInv, TableInv
  <1>11. ASSUME NEW s \in 1..n, Live(s)'
         PROVE  open'[st'[s].conn] /\ table'[st'[s].conn][st'[s].id] = s
    <2>1. CASE s = n
      BY <1>1, <1>2, <1>3, <1>8, <2>1
    <2>2. CASE s \in 1..count
      <3>1. Live(s) /\ st'[s] = st[s] /\ st[s] \in StreamRecord
        BY <1>3, <1>7, <1>11, <2>2 DEF IInv, RecordInv
      <3>2. open[st[s].conn] /\ table[st[s].conn][st[s].id] = s
        BY <2>2, <3>1 DEF IInv, TableInv
      <3>3. ~(st[s].conn = c /\ st[s].id = i)
        <4>1. s # NoStream
          BY <1>1, <2>2, NoStreamAssumption DEF Stream
        <4> QED BY <1>1, <3>2, <4>1
      <3>4. st[s].conn \in Conns /\ st[s].id \in Ids
        BY <3>1 DEF StreamRecord
      <3> QED BY <1>1, <1>8, <3>1, <3>2, <3>3, <3>4
    <2> QED BY <1>4, <2>1, <2>2
  <1>12. ASSUME NEW s \in 1..n, NEW t \in 1..n, t < s, SameKey(s, t)'
         PROVE  ~Live(t)'
    <2>1. t \in 1..count
      BY <1>1, <1>12
    <2>2. CASE s \in 1..count
      <3>1. SameKey(s, t)
        BY <1>3, <1>12, <2>1, <2>2 DEF SameKey
      <3> QED BY <1>7, <1>12, <2>1, <2>2, <3>1 DEF IInv, TableInv
    <2>3. CASE s = n
      <3>1. st[t].conn = c /\ st[t].id = i
        BY <1>2, <1>3, <1>12, <2>1, <2>3 DEF SameKey
      <3>2. t # NoStream
        BY <1>1, <2>1, NoStreamAssumption DEF Stream
      <3>3. ~Live(t)
        BY <1>1, <2>1, <3>1, <3>2 DEF IInv, TableInv
      <3> QED BY <1>7, <2>1, <3>3
    <2> QED BY <1>4, <2>2, <2>3
  <1>13. TableInv'
    BY <1>1, <1>9, <1>10, <1>11, <1>12 DEF TableInv
  <1> QED BY <1>1, <1>5, <1>6, <1>13 DEF IInv

-----------------------------------------------------------------------------
(* One lemma per kind of step *)

\* Types of what the handlers do to idle and fed.
Aside == idle' \in [Conns -> BOOLEAN] /\ fed' \in 0..MaxFrames

LEMMA HeardType ==
  ASSUME IInv, NEW c \in Conns, Heard(c)
  PROVE  idle' \in [Conns -> BOOLEAN]
  BY DEF Heard, IInv, StateOK

\* Steps that replace one stream and leave the dictionaries alone.
LEMMA OneStreamIInv ==
  ASSUME IInv, NEW s \in 1..count, NEW q, Evolves(st[s], q),
         st' = [st EXCEPT ![s] = q], UNCHANGED <<open, hello, table, count>>, Aside
  PROVE  IInv'
  <1>1. AllEvolve
    BY OneEvolves
  <1>2. StateOK'
    BY <1>1 DEF AllEvolve, IInv, StateOK, Aside
  <1>3. \A t \in 1..count : Live(t) => open[st[t].conn]
    BY DEF IInv, TableInv
  <1> QED BY <1>1, <1>2, <1>3, TableKept

\* ... or remove the entry of a stream that has begun to end: if another one is
\* listed there, it is evicted.
LEMMA RemovedIInv ==
  ASSUME IInv, AllEvolve, NEW s \in 1..count,
         st'[s].finalized \/ st'[s].finalizing,
         LET t == table[st[s].conn][st[s].id]
         IN  t # s /\ t # NoStream =>
               st[t].finalized \/ st[t].finalizing \/ st'[t].evicted,
         UNCHANGED <<open, hello>>,
         table' = [table EXCEPT ![st[s].conn][st[s].id] = NoStream], Aside
  PROVE  IInv'
  <1>1. st[s].conn \in Conns /\ st[s].id \in Ids
    BY Facts
  <1>2. \A d \in Conns, j \in Ids :
          table'[d][j] = IF d = st[s].conn /\ j = st[s].id THEN NoStream ELSE table[d][j]
    BY <1>1 DEF IInv, StateOK
  <1>3. StateOK'
    BY <1>1 DEF AllEvolve, IInv, StateOK, Aside
  <1>4. ASSUME NEW t \in 1..count, Live(t), Live(t)'
        PROVE  table'[st[t].conn][st[t].id] = table[st[t].conn][st[t].id]
    <2>1. t # s
      BY <1>4 DEF Live
    <2>2. /\ table[st[t].conn][st[t].id] = t /\ t # NoStream
          /\ st[t].conn \in Conns /\ st[t].id \in Ids
      BY <1>4, Facts, NoStreamAssumption, SMTT(40) DEF IInv, TableInv
    <2>3. ~SameKey(s, t)
      <3>1. SUFFICES ASSUME SameKey(s, t) PROVE FALSE
        OBVIOUS
      <3>2. table[st[s].conn][st[s].id] = t
        BY <2>2, <3>1 DEF SameKey
      <3>3. st'[t].evicted
        BY <1>4, <2>1, <2>2, <3>2 DEF Live
      <3> QED BY <1>4, <3>3 DEF Live, Forsaken
    <2> QED BY <1>2, <2>2, <2>3 DEF SameKey
  <1>5. \A t \in 1..count : Live(t) => open[st[t].conn]
    BY DEF IInv, TableInv
  <1> QED BY <1>2, <1>3, <1>4, <1>5, TableKept, SMTT(40)

\* A stop message.
LEMMA StopIInv ==
  ASSUME IInv, NEW c \in Conns, NEW i \in Ids, StopMessage(c, i)
  PROVE  IInv'
  <1> DEFINE s == table[c][i]
  <1>1. /\ s \in 1..count /\ st[s].conn = c /\ st[s].id = i /\ s = table[c][i]
        /\ RecordInv(st[s]) /\ Evolves(st[s], st[s])
        /\ UNCHANGED <<open, hello, count, fed>> /\ Aside
    <2>1. Aside
      BY HeardType DEF StopMessage, Aside, IInv, StateOK
    <2> QED BY <2>1, Facts DEF StopMessage
  <1> HIDE DEF s
  <1>2. CASE Ending(st[s])
    <2>1. table' = [table EXCEPT ![c][i] = NoStream] /\ st' = st
      BY <1>2 DEF StopMessage, s
    <2>2. st' = [st EXCEPT ![s] = st[s]]
      BY <2>1 DEF IInv, StateOK
    <2>3. AllEvolve
      BY <1>1, <2>2, OneEvolves
    <2>4. st'[s].finalized \/ st'[s].finalizing
      BY <1>2, <2>1 DEF Ending
    <2> QED BY <1>1, <2>1, <2>3, <2>4, RemovedIInv
  <1>3. CASE ~Ending(st[s])
    <2>1. table' = table /\ st' = [st EXCEPT ![s] = WithTask(st[s])]
      BY <1>3 DEF StopMessage, s
    <2>2. Evolves(st[s], WithTask(st[s]))
      BY <1>1, <1>3, WithTaskInv DEF Ending
    <2> QED BY <1>1, <2>1, <2>2, OneStreamIInv
  <1> QED BY <1>2, <1>3

\* What an accepted frame makes of its stream: a worker, a chunk for it, a task
\* perhaps, and then the words.
LEMMA FrameSteps ==
  ASSUME IInv, NEW c \in Conns, NEW i \in Ids, AudioFrame(c, i)
  PROVE  LET s == table[c][i]
         IN  /\ s \in 1..count /\ ~st[s].finalized /\ ~st[s].finalizing
             /\ \E r \in WithWorker(st[s]) :
                  LET w == WithChunk(r)
                  IN  \E q \in {w, WithTask(w)} : \E p :
                        /\ p = q \/ (q.worker = "running" /\ p \in Recognized(q))
                        /\ st' = [st EXCEPT ![s] = Polled(p)]
                        /\ Evolves(st[s], q) /\ Quiet(st[s], q)
                        /\ q.task \in {"none", "created"}
                        /\ q.worker = "running" => q.queued > 0
                        /\ SameControl(q, p) /\ SameControl(p, Polled(p))
  <1> DEFINE s == table[c][i]
  <1>1. /\ s \in 1..count /\ RecordInv(st[s])
        /\ ~st[s].finalized /\ ~st[s].finalizing
    BY Facts DEF AudioFrame, Ending
  <1>2. PICK r \in WithWorker(st[s]), endpoint \in BOOLEAN :
          \E p \in IF r.worker = "running"
                     THEN {IF endpoint THEN WithTask(WithChunk(r)) ELSE WithChunk(r)}
                          \cup Recognized(IF endpoint THEN WithTask(WithChunk(r))
                                                      ELSE WithChunk(r))
                     ELSE {IF endpoint THEN WithTask(WithChunk(r)) ELSE WithChunk(r)} :
            st' = [st EXCEPT ![s] = Polled(p)]
    BY DEF AudioFrame
  <1> HIDE DEF s
  <1> DEFINE w == WithChunk(r)
             q == IF endpoint THEN WithTask(w) ELSE w
  <1>3. PICK p \in IF r.worker = "running" THEN {q} \cup Recognized(q) ELSE {q} :
          st' = [st EXCEPT ![s] = Polled(p)]
    BY <1>2
  <1>4. /\ Evolves(st[s], r) /\ Quiet(st[s], r) /\ r \in StreamRecord /\ RecordInv(r)
        /\ r.task = "none" /\ ~r.finalizing
    BY <1>1, WithWorkerInv DEF Evolves, RecordInv
  <1>5. /\ Evolves(st[s], w) /\ Quiet(st[s], w) /\ RecordInv(w) /\ w.task = "none" /\ ~w.finalizing
        /\ w.worker = r.worker /\ (r.worker = "running" => w.queued > 0)
    <2>1. SameControl(r, w) /\ Quiet(r, w)
      BY <1>4, WithChunkControl
    <2>2. Evolves(r, w) /\ w.task = "none" /\ ~w.finalizing /\ w.worker = r.worker
      BY <1>4, <2>1, SameControlEvolves DEF SameControl
    <2>3. r.worker = "running" => w.queued > 0
      BY <1>4 DEF WithChunk, StreamRecord
    <2> QED BY <1>4, <2>1, <2>2, <2>3, EvolvesTransitive, QuietTransitive DEF Evolves
  <1>6. /\ Evolves(st[s], q) /\ Quiet(st[s], q)
        /\ RecordInv(q) /\ q.task \in {"none", "created"}
        /\ q.worker = r.worker /\ (r.worker = "running" => q.queued > 0)
        /\ q \in {w, WithTask(w)}
    <2>1. CASE endpoint
      <3>1. Evolves(w, WithTask(w)) /\ WithTask(w).task = "created"
            /\ Quiet(w, WithTask(w)) /\ WithTask(w).worker = w.worker
        BY <1>5, WithTaskInv
      <3>2. WithTask(w).queued = w.queued
        <4>1. w \in StreamRecord
          BY <1>5 DEF RecordInv
        <4> HIDE DEF w
        <4> QED BY <4>1 DEF WithTask, StreamRecord
      <3> QED BY <1>5, <2>1, <3>1, <3>2, EvolvesTransitive, QuietTransitive DEF Evolves
    <2>2. CASE ~endpoint
      BY <1>5, <2>2
    <2> QED BY <2>1, <2>2
  <1> HIDE DEF q
  <1>7. SameControl(q, p)
    <2>1. q \in StreamRecord
      BY <1>6 DEF RecordInv
    <2>2. SameControl(q, q)
      BY <2>1 DEF SameControl
    <2> QED BY <1>3, <1>6, <2>1, <2>2, RecognizedFields
  <1>8. SameControl(p, Polled(p))
    BY <1>7, PolledFields DEF SameControl
  <1>9. p = q \/ (q.worker = "running" /\ p \in Recognized(q))
    BY <1>3, <1>6
  <1> HIDE DEF w
  <1> QED BY <1>1, <1>3, <1>5, <1>6, <1>7, <1>8, <1>9 DEF s, w

\* An accepted frame.
LEMMA FrameIInv ==
  ASSUME IInv, NEW c \in Conns, NEW i \in Ids, AudioFrame(c, i)
  PROVE  IInv'
  <1> DEFINE s == table[c][i]
  <1>1. s \in 1..count /\ UNCHANGED <<open, hello, table, count>> /\ Aside
    <2>1. Aside
      BY HeardType, BoundsAssumption DEF AudioFrame, Aside, IInv, StateOK
    <2> QED BY <2>1, Facts DEF AudioFrame
  <1>2. PICK q, p : /\ st' = [st EXCEPT ![s] = Polled(p)] /\ Evolves(st[s], q)
                    /\ SameControl(q, p) /\ SameControl(p, Polled(p))
    BY FrameSteps
  <1> HIDE DEF s
  <1>3. Evolves(st[s], Polled(p))
    <2>1. Evolves(q, p)
      BY <1>2, SameControlEvolves DEF Evolves
    <2>2. Evolves(p, Polled(p))
      BY <1>2, <2>1, SameControlEvolves DEF Evolves
    <2> QED BY <1>2, <2>1, <2>2, EvolvesTransitive
  <1> QED BY <1>1, <1>2, <1>3, OneStreamIInv

\* A timeout that finalizes every stream of the connection.
LEMMA InactivityIInv ==
  ASSUME IInv, NEW c \in Conns, Inactivity(c)
  PROVE  IInv'
  <1>1. /\ st' = Swept(st, Entries(c))
        /\ count' = count /\ hello' = hello /\ open' = open /\ Aside
        /\ table' = [table EXCEPT ![c] = [i \in Ids |-> NoStream]]
    BY HeardType DEF Inactivity, FinalizedByTimeout, Swept, Aside, IInv, StateOK
  <1>2. /\ st' = [s \in 1..count |-> st'[s]] /\ \A s \in 1..count : Evolves(st[s], st'[s])
        /\ \A s \in Entries(c) : s \in 1..count /\ st'[s].finalized
    <2>1. Entries(c) \in SUBSET (1..count) /\ \A s \in 1..count : Evolves(st[s], st[s])
      BY Facts
    <2>2. \A s \in Entries(c) : st'[s].finalized
      <3>1. \A s \in Entries(c) : st'[s] = Finalized(st[s]) /\ RecordInv(st[s])
        BY <1>1, <2>1, Facts DEF Swept
      <3> QED BY <3>1, FinalizedInv
    <2> QED BY <1>1, <2>1, <2>2, SweepEvolves
  <1>3. AllEvolve
    BY <1>1, <1>2, ManyEvolve
  <1>4. \A d \in Conns, i \in Ids :
          table'[d][i] = table[d][i] \/ (d = c /\ table'[d][i] = NoStream)
    BY <1>1 DEF IInv, StateOK
  <1>5. StateOK'
    BY <1>1, <1>3 DEF AllEvolve, IInv, StateOK, Aside
  <1>6. ASSUME NEW s \in 1..count, Live(s), Live(s)'
        PROVE  st[s].conn # c
    <2>1. SUFFICES ASSUME st[s].conn = c PROVE FALSE
      OBVIOUS
    <2>2. table[c][st[s].id] = s /\ st[s].id \in Ids
      BY <1>6, <2>1, Facts DEF IInv, TableInv
    <2>3. s # NoStream
      BY Facts, NoStreamAssumption
    <2>4. s \in Entries(c)
      BY <2>2, <2>3 DEF Entries
    <2> QED BY <1>2, <1>6, <2>4 DEF Live
  <1>7. \A s \in 1..count : Live(s) /\ Live(s)' =>
          table'[st[s].conn][st[s].id] = table[st[s].conn][st[s].id]
    BY <1>4, <1>6, Facts
  <1>8. \A s \in 1..count : Live(s) /\ Live(s)' => open'[st[s].conn]
    BY <1>1 DEF IInv, TableInv
  <1> QED BY <1>1, <1>3, <1>4, <1>5, <1>7, <1>8, TableKept

\* The handler ends: its finally clause comes to every stream it has not ended, or
\* passes over those behind one that could not be written.
LEMMA AbortIInv ==
  ASSUME IInv, NEW c \in Conns, NEW q, \A s \in 1..count : Evolves(st[s], q[s]),
         Abort(c, q), fed' = fed
  PROVE  IInv'
  <1>1. /\ count' = count /\ hello' = hello /\ table' = table
        /\ open' = [open EXCEPT ![c] = FALSE] /\ idle' = [idle EXCEPT ![c] = FALSE]
        /\ st' \in {Swept(q, Entries(c))} \cup Cut(q, Entries(c), "closing")
        /\ Entries(c) \in SUBSET (1..count)
    BY Facts DEF Abort
  <1>2. /\ st' = [s \in 1..count |-> st'[s]]
        /\ \A s \in 1..count : Evolves(st[s], st'[s])
        /\ \/ \A s \in Entries(c) : st'[s].finalized
           \/ \E f \in Entries(c) : /\ st'[f].broken = "closing"
                                    /\ \A s \in Entries(c) : s <= f => st'[s].finalized
    BY <1>1, SweepEvolves
  <1>3. AllEvolve
    BY <1>1, <1>2, ManyEvolve
  <1>4. StateOK'
    BY <1>1, <1>3 DEF AllEvolve, IInv, StateOK
  <1>5. ASSUME NEW s \in 1..count, Live(s), Live(s)'
        PROVE  st[s].conn # c
    <2>1. SUFFICES ASSUME st[s].conn = c PROVE FALSE
      OBVIOUS
    <2>2. table[c][st[s].id] = s /\ st[s].id \in Ids
      BY <1>5, <2>1, Facts DEF IInv, TableInv
    <2>3. s # NoStream
      BY Facts, NoStreamAssumption
    <2>4. s \in Entries(c) /\ ~st'[s].finalized
      BY <1>5, <2>2, <2>3 DEF Entries, Live
    <2>5. PICK f \in Entries(c) : st'[f].broken = "closing" /\ ~(s <= f)
      BY <1>2, <2>4
    <2>6. f \in 1..count /\ st[f].conn = c /\ count \in Nat
      BY Facts
    <2>7. f \in 1..(s - 1)
      BY <2>5, <2>6
    <2>8. st'[f].conn = st'[s].conn
      BY <1>2, <2>1, <2>6 DEF Evolves
    <2>9. PassedOver(s)'
      BY <2>5, <2>7, <2>8 DEF PassedOver
    <2> QED BY <1>5, <2>9 DEF Live, Forsaken
  <1>6. \A s \in 1..count : Live(s) /\ Live(s)' => open'[st[s].conn]
    <2>1. \A d \in Conns : d # c => open'[d] = open[d]
      BY <1>1 DEF IInv, StateOK
    <2>2. \A s \in 1..count : Live(s) => open[st[s].conn]
      BY DEF IInv, TableInv
    <2> QED BY <1>5, <2>1, <2>2, Facts
  <1> QED BY <1>1, <1>3, <1>4, <1>6, TableKept

LEMMA CloseIInv ==
  ASSUME IInv, NEW c \in Conns, Close(c) \/ InactivityFails(c)
  PROVE  IInv'
  <1>1. \A s \in 1..count : Evolves(st[s], st[s])
    BY Facts
  <1>2. CASE Close(c)
    BY <1>1, <1>2, AbortIInv DEF Close
  <1>3. CASE InactivityFails(c)
    <2>1. PICK q \in Cut(st, Entries(c), "write") : Abort(c, q)
      BY <1>3 DEF InactivityFails
    <2>2. \A s \in 1..count : Evolves(st[s], q[s])
      <3>1. Entries(c) \in SUBSET (1..count)
        BY Facts
      <3> QED BY <1>1, <3>1, SweepEvolves
    <2> QED BY <1>3, <2>1, <2>2, AbortIInv DEF InactivityFails
  <1> QED BY <1>2, <1>3

\* The stream of a frame beyond the maximum, if it can be written and if not.
LEMMA MaximumSteps ==
  ASSUME IInv, NEW s \in 1..count, ~Ending(st[s])
  PROVE  /\ Evolves(st[s], WithTask(Finalized(st[s])))
         /\ WithTask(Finalized(st[s])).finalized
         /\ Quiet(st[s], WithTask(Finalized(st[s])))
         /\ LET b == [Broken(st[s], "write") EXCEPT !.finalizing = TRUE]
            IN  Evolves(st[s], b) /\ Quiet(st[s], b)
  <1>1. RecordInv(st[s]) /\ ~st[s].finalized /\ ~st[s].finalizing
    BY Facts DEF Ending
  <1>2. Evolves(st[s], WithTask(Finalized(st[s]))) /\ WithTask(Finalized(st[s])).finalized
        /\ Quiet(st[s], WithTask(Finalized(st[s])))
    <2> DEFINE f == Finalized(st[s])
    <2>1. Evolves(st[s], f) /\ Quiet(st[s], f) /\ f.finalized /\ ~f.finalizing
      BY <1>1, FinalizedInv, FinalizedFields DEF RecordInv
    <2> HIDE DEF f
    <2>2. Evolves(f, WithTask(f)) /\ WithTask(f).finalized /\ Quiet(f, WithTask(f))
      BY <2>1, WithTaskInv DEF Evolves
    <2> QED BY <2>1, <2>2, EvolvesTransitive, QuietTransitive DEF f
  <1>3. LET b == [Broken(st[s], "write") EXCEPT !.finalizing = TRUE]
        IN  Evolves(st[s], b) /\ Quiet(st[s], b)
    <2> DEFINE a == Broken(st[s], "write")
               b == [a EXCEPT !.finalizing = TRUE]
    <2>1. Evolves(st[s], a) /\ a.finalized /\ Quiet(st[s], a)
      BY <1>1, BrokenInv
    <2> HIDE DEF a
    <2>2. /\ b \in StreamRecord /\ b.finalizing = TRUE
          /\ b.task = a.task /\ b.finalized = a.finalized /\ b.conn = a.conn
          /\ b.id = a.id /\ b.written = a.written /\ b.tasks = a.tasks
          /\ b.worker = a.worker /\ b.broken = a.broken /\ b.evicted = a.evicted
          /\ b.accumulated = a.accumulated /\ b.last = a.last /\ b.said = a.said
          /\ b.results = a.results /\ b.withheld = a.withheld
      BY <2>1 DEF Evolves, RecordInv, StreamRecord
    <2> HIDE DEF b
    <2>3. Evolves(a, b)
      BY <2>1, <2>2 DEF Evolves, RecordInv
    <2>4. Evolves(st[s], b) /\ Quiet(st[s], b)
      <3>1. Quiet(a, b)
        BY <2>2 DEF Quiet, Early
      <3> QED BY <2>1, <2>3, <3>1, EvolvesTransitive, QuietTransitive
    <2> QED BY <2>4 DEF a, b
  <1> QED BY <1>2, <1>3

\* A frame beyond the maximum.
LEMMA MaximumIInv ==
  ASSUME IInv, NEW c \in Conns, NEW i \in Ids, FrameBeyondMaximum(c, i)
  PROVE  IInv'
  <1> DEFINE s == table[c][i]
             q == WithTask(Finalized(st[s]))
             b == [Broken(st[s], "write") EXCEPT !.finalizing = TRUE]
  <1>1. /\ s \in 1..count /\ st[s].conn = c /\ st[s].id = i /\ s = table[c][i]
        /\ ~Ending(st[s]) /\ fed' = fed
    BY Facts DEF FrameBeyondMaximum
  <1>2. Evolves(st[s], q) /\ q.finalized /\ Evolves(st[s], b)
    BY <1>1, MaximumSteps
  <1>3. \/ /\ st' = [st EXCEPT ![s] = q] /\ table' = [table EXCEPT ![c][i] = NoStream]
           /\ Heard(c) /\ UNCHANGED <<open, hello, count>>
        \/ Abort(c, [st EXCEPT ![s] = b])
    BY DEF FrameBeyondMaximum
  <1> HIDE DEF q, b, s
  <1>4. CASE /\ st' = [st EXCEPT ![s] = q] /\ table' = [table EXCEPT ![c][i] = NoStream]
             /\ Heard(c) /\ UNCHANGED <<open, hello, count>>
    <2>1. AllEvolve /\ st'[s] = q
      BY <1>1, <1>2, <1>4, OneEvolves, ZenonT(60)
    <2>2. Aside
      <3>1. idle' \in [Conns -> BOOLEAN]
        BY <1>4, HeardType, Zenon
      <3>2. fed' \in 0..MaxFrames
        BY <1>1 DEF IInv, StateOK
      <3> QED BY <3>1, <3>2 DEF Aside
    <2> QED BY <1>1, <1>2, <1>4, <2>1, <2>2, RemovedIInv
  <1>5. CASE Abort(c, [st EXCEPT ![s] = b])
    <2>1. \A t \in 1..count : Evolves(st[t], [st EXCEPT ![s] = b][t])
      BY <1>1, <1>2, Facts DEF IInv, StateOK
    <2> QED BY <1>1, <1>5, <2>1, AbortIInv
  <1> QED BY <1>3, <1>4, <1>5

\* What becomes of the stream that is concluded from r, and of the others.
ConcludedFrom(s, r) ==
  \E f, t : /\ f = Finalized(r) \/ (~r.finalized /\ f = Broken(r, "write"))
            /\ t \in {"llm", "done"} /\ st'[s] = [f EXCEPT !.task = t]
            /\ f = Finalized(r) /\ Told(f) => t = "llm"

OthersKept(s) ==
  \A t \in 1..count : t # s =>
    st'[t] = st[t] \/ st'[t] = [st[t] EXCEPT !.evicted = TRUE]

\* A stretch of a pipeline task that concludes the stream.
LEMMA ConcludeSteps ==
  ASSUME IInv, NEW s \in 1..count, NEW r, Evolves(st[s], r), Conclude(s, r),
         r.task \in {"created", "asr"}, r.worker \notin Alive
  PROVE  /\ AllEvolve /\ ConcludedFrom(s, r) /\ OthersKept(s)
         /\ \/ table' = table
            \/ /\ table' = [table EXCEPT ![st[s].conn][st[s].id] = NoStream]
               /\ st'[s].finalized
               /\ LET u == table[st[s].conn][st[s].id]
                  IN  u # s /\ u # NoStream => st'[u].evicted
  <1>1. /\ RecordInv(r) /\ r.conn = st[s].conn /\ r.id = st[s].id
        /\ st[s].conn \in Conns /\ st[s].id \in Ids /\ count' = count
        /\ count \in Nat /\ DOMAIN st = 1..count
    BY Facts DEF Evolves, Conclude, IInv, StateOK
  <1>2. ASSUME ~r.finalized,
               st' = [st EXCEPT ![s] = [Broken(r, "write") EXCEPT !.task = "done"]]
        PROVE  /\ AllEvolve /\ st'[s] = [Broken(r, "write") EXCEPT !.task = "done"]
               /\ \A t \in 1..count : t # s => st'[t] = st[t]
    <2> DEFINE q == [Broken(r, "write") EXCEPT !.task = "done"]
    <2>1. Evolves(r, q)
      BY <1>1, <1>2, ConcludedInv
    <2> HIDE DEF q
    <2>2. Evolves(st[s], q)
      BY <2>1, EvolvesTransitive
    <2>3. st' = [st EXCEPT ![s] = q]
      BY <1>2 DEF q
    <2>4. AllEvolve /\ st'[s] = q /\ \A t \in 1..count : t # s => st'[t] = st[t]
      BY <1>1, <2>2, <2>3, OneEvolves
    <2> QED BY <2>4 DEF q
  <1> DEFINE told == IF Told(Finalized(r)) THEN "llm" ELSE "done"
             q == [Finalized(r) EXCEPT !.task = told]
             u == table[st[s].conn][st[s].id]
  <1>3. ASSUME st' = PoppedBy(s, q),
               table' = [table EXCEPT ![r.conn][r.id] = NoStream]
        PROVE  /\ AllEvolve /\ st'[s] = q /\ st'[s].finalized
               /\ \A t \in 1..count : t # s =>
                    \/ st'[t] = st[t]
                    \/ st'[t] = [st[t] EXCEPT !.evicted = TRUE]
               /\ u # s /\ u # NoStream => st'[u].evicted
               /\ table' = [table EXCEPT ![st[s].conn][st[s].id] = NoStream]
    <2>1. Evolves(r, q) /\ q.finalized
      <3>1. told \in {"llm", "done"}
        OBVIOUS
      <3> HIDE DEF told
      <3> QED BY <1>1, <3>1, ConcludedInv
    <2> HIDE DEF q
    <2>2. Evolves(st[s], q) /\ q.conn = st[s].conn /\ q.id = st[s].id
      BY <1>1, <2>1, EvolvesTransitive DEF Evolves
    <2>3. st' = [t \in 1..count |->
                   CASE t = s -> q
                     [] t # s /\ t = u -> [st[t] EXCEPT !.evicted = TRUE]
                     [] OTHER -> st[t]]
      BY <1>3, <2>2 DEF PoppedBy
    <2>4. /\ st'[s] = q
          /\ \A t \in 1..count : t # s =>
               st'[t] = IF t = u THEN [st[t] EXCEPT !.evicted = TRUE] ELSE st[t]
          /\ st' = [t \in 1..count |-> st'[t]]
      BY <2>3
    <2>5. ASSUME NEW t \in 1..count
          PROVE  /\ Evolves(st[t], [st[t] EXCEPT !.evicted = TRUE])
                 /\ [st[t] EXCEPT !.evicted = TRUE].evicted
      <3> DEFINE a == st[t]
                 b == [a EXCEPT !.evicted = TRUE]
      <3>1. RecordInv(a) /\ a \in StreamRecord
        BY Facts
      <3> HIDE DEF a
      <3>2. /\ b \in StreamRecord /\ b.finalizing = a.finalizing
            /\ b.task = a.task /\ b.finalized = a.finalized /\ b.conn = a.conn
            /\ b.id = a.id /\ b.written = a.written /\ b.tasks = a.tasks
            /\ b.worker = a.worker /\ b.broken = a.broken /\ b.evicted = TRUE
        BY <3>1 DEF StreamRecord
      <3> HIDE DEF b
      <3>3. Evolves(a, b) /\ b.evicted
        BY <3>1, <3>2 DEF Evolves, RecordInv
      <3> QED BY <3>3 DEF a, b
    <2>6. \A t \in 1..count : Evolves(st[t], st'[t])
      <3>1. ASSUME NEW t \in 1..count PROVE Evolves(st[t], st'[t])
        <4>1. CASE t = s
          BY <2>2, <2>4, <4>1
        <4>2. CASE t # s /\ t = u
          <5>1. st'[t] = [st[t] EXCEPT !.evicted = TRUE]
            BY <2>4, <4>2
          <5> QED BY <2>5, <5>1
        <4>3. CASE t # s /\ t # u
          <5>1. st'[t] = st[t]
            BY <2>4, <4>3
          <5> QED BY <5>1, Facts
        <4> HIDE DEF u
        <4> QED BY <4>1, <4>2, <4>3
      <3> QED BY <3>1
    <2>7. AllEvolve
      BY <1>1, <2>4, <2>6, ManyEvolve
    <2>8. u # s /\ u # NoStream => st'[u].evicted
      <3>1. u # NoStream => u \in 1..count
        BY <1>1, Facts
      <3> HIDE DEF u
      <3>2. u # s /\ u # NoStream => st'[u] = [st[u] EXCEPT !.evicted = TRUE]
        BY <2>4, <3>1
      <3> QED BY <2>5, <3>1, <3>2
    <2> QED BY <1>1, <1>3, <2>1, <2>4, <2>7, <2>8
  <1>4. \/ st' = PoppedBy(s, q) /\ table' = [table EXCEPT ![r.conn][r.id] = NoStream]
        \/ /\ ~r.finalized /\ table' = table
           /\ st' = [st EXCEPT ![s] = [Broken(r, "write") EXCEPT !.task = "done"]]
    BY DEF Conclude
  <1>5. told \in {"llm", "done"} /\ (Told(Finalized(r)) => told = "llm")
    OBVIOUS
  <1>6. CASE st' = PoppedBy(s, q) /\ table' = [table EXCEPT ![r.conn][r.id] = NoStream]
    <2> HIDE DEF told
    <2> QED BY <1>3, <1>5, <1>6 DEF ConcludedFrom, OthersKept
  <1>7. CASE /\ ~r.finalized /\ table' = table
             /\ st' = [st EXCEPT ![s] = [Broken(r, "write") EXCEPT !.task = "done"]]
    <2>1. Broken(r, "write") # Finalized(r)
      <3>1. Broken(r, "write").broken = "write" /\ Finalized(r).broken = "no"
        BY <1>1, <1>7, BrokenInv, FinalizedFields DEF RecordInv
      <3> QED BY <3>1
    <2> QED BY <1>2, <1>7, <2>1 DEF ConcludedFrom, OthersKept
  <1> QED BY <1>4, <1>6, <1>7

LEMMA ConcludeIInv ==
  ASSUME IInv, NEW s \in 1..count, NEW r, Evolves(st[s], r), Conclude(s, r),
         r.task \in {"created", "asr"}, r.worker \notin Alive
  PROVE  IInv'
  <1>1. /\ AllEvolve /\ UNCHANGED <<open, hello, idle, count, fed>>
        /\ \/ table' = table
           \/ /\ table' = [table EXCEPT ![st[s].conn][st[s].id] = NoStream]
              /\ st'[s].finalized
              /\ LET u == table[st[s].conn][st[s].id]
                 IN  u # s /\ u # NoStream => st'[u].evicted
    BY ConcludeSteps DEF Conclude
  <1>2. Aside
    BY <1>1 DEF Aside, IInv, StateOK
  <1>3. CASE table' = table
    <2>1. StateOK'
      BY <1>1, <1>3 DEF AllEvolve, IInv, StateOK
    <2>2. \A t \in 1..count : Live(t) => open[st[t].conn]
      BY DEF IInv, TableInv
    <2> QED BY <1>1, <1>3, <2>1, <2>2, TableKept
  <1>4. CASE table' # table
    BY <1>1, <1>2, <1>4, RemovedIInv
  <1> QED BY <1>3, <1>4
-----------------------------------------------------------------------------
(* The words of one stream *)

\* The results not yet taken go on where the transcript is: f[k] utterances are
\* complete after the first k of them, and all that have been said after the last
\* one, unless some were withheld.
Numbering(r, f) ==
  /\ f[0] = Len(r.accumulated)
  /\ f[Len(r.results)] <= r.said
  /\ ~r.withheld => f[Len(r.results)] = r.said
  /\ \A k \in 1..Len(r.results) :
       /\ r.results[k].text \in {Blank, f[k - 1] + 1}
       /\ f[k] = IF Completes(r.results[k]) THEN f[k - 1] + 1 ELSE f[k - 1]

Numbered(r) == \E f \in [Nat -> Nat] : Numbering(r, f)

\* Until its pipeline finishes the transcript is the utterances one by one; the
\* last result is blank, the last of them or a guess at the next.
WordsInv(r) ==
  /\ InOrder(r)
  /\ Early(r) =>
       /\ \A i \in 1..Len(r.accumulated) : r.accumulated[i] = i
       /\ r.last \in {Blank, Len(r.accumulated), Len(r.accumulated) + 1}
       /\ Numbered(r)
       /\ r.withheld => r.worker \in {"draining", "interrupted"}
       /\ r.worker \in {"none", "failed"} =>
            r.last = Blank /\ r.said = 0 /\ r.accumulated = <<>> /\ r.results = <<>>

Covered(r) == \A u \in 1..r.said : \E i \in 1..Len(r.accumulated) : r.accumulated[i] = u

\* r may be concluded.
Ready(r) ==
  /\ InOrder(r)
  /\ r.worker = "none" /\ r.results = <<>> /\ ~r.withheld => Covered(r)

\* What SpeechIsAnswered says of a step that makes r into q.
Moves(r, q) ==
  /\ WordsInv(q)
  /\ r.task \in {"created", "asr"} /\ q.task \notin {"created", "asr"} /\ Intact(q) =>
       Covered(q) /\ (q.said > 0 => q.task = "llm")

LEMMA AppendFacts ==
  ASSUME NEW T, NEW a \in Seq(T), NEW x \in T
  PROVE  /\ Append(a, x) \in Seq(T) /\ Len(Append(a, x)) = Len(a) + 1
         /\ Append(a, x)[Len(a) + 1] = x /\ Append(a, x) # <<>>
         /\ \A k \in 1..Len(a) : Append(a, x)[k] = a[k]
  OBVIOUS

LEMMA Predecessor ==
  ASSUME NEW n \in Nat, n >= 1
  PROVE  n - 1 \in Nat /\ n - 1 \in 0..(n - 1) /\ (n - 1) + 1 = n
  OBVIOUS

LEMMA TailFacts ==
  ASSUME NEW T, NEW a \in Seq(T), a # <<>>
  PROVE  /\ Tail(a) \in Seq(T) /\ Len(Tail(a)) = Len(a) - 1 /\ Len(a) \in Nat \ {0}
         /\ Head(a) = a[1] /\ a[1] \in T
         /\ \A k \in 1..Len(Tail(a)) : Tail(a)[k] = a[k + 1]
  OBVIOUS

LEMMA NewStreamWords ==
  ASSUME NEW c \in Conns, NEW i \in Ids
  PROVE  WordsInv(NewStream(c, i))
  <1> DEFINE r == NewStream(c, i)
             f == [k \in Nat |-> 0]
  <1>1. /\ r.accumulated = <<>> /\ r.results = <<>> /\ r.said = 0 /\ r.last = Blank
        /\ r.withheld = FALSE
    BY DEF NewStream
  <1> HIDE DEF r
  <1>2. f \in [Nat -> Nat] /\ Numbering(r, f)
    BY <1>1 DEF Numbering
  <1>3. WordsInv(r)
    BY <1>1, <1>2 DEF WordsInv, Numbered, InOrder
  <1> QED BY <1>3 DEF r

LEMMA QuietMoves ==
  ASSUME NEW r, r \in StreamRecord, WordsInv(r), NEW q, q \in StreamRecord, Quiet(r, q)
  PROVE  Moves(r, q)
  <1>1. InOrder(q)
    <2>1. CASE Early(r)
      BY <2>1 DEF Quiet, WordsInv, InOrder
    <2>2. CASE ~Early(r)
      BY <2>2 DEF Quiet, WordsInv, InOrder
    <2> QED BY <2>1, <2>2
  <1>2. Numbered(r) => Numbered(q)
    BY DEF Quiet, Numbered, Numbering
  <1>3. ~(r.task \in {"created", "asr"} /\ q.task \notin {"created", "asr"})
    BY DEF Quiet, Early
  <1>4. WordsInv(q)
    BY <1>1, <1>2 DEF Quiet, WordsInv
  <1> QED BY <1>3, <1>4 DEF Moves

\* The recognizer says the next result, which is queued or not.
LEMMA RecognizedWords ==
  ASSUME NEW r \in StreamRecord, WordsInv(r), Early(r), r.worker \in Alive, r.queued > 0,
         NEW q \in Recognized(r)
  PROVE  WordsInv(q)
  <1>1. PICK f \in [Nat -> Nat] : Numbering(r, f)
    BY DEF WordsInv, Numbered
  <1>2. /\ SameControl(r, q) /\ q.worker \in Alive /\ q \in StreamRecord
        /\ q.accumulated = r.accumulated /\ q.last = r.last
    BY RecognizedFields DEF SameControl
  <1>3. /\ r.results \in Seq(Result) /\ Len(r.results) \in Nat /\ r.said \in Nat
        /\ r.withheld \in BOOLEAN
    BY DEF StreamRecord
  <1>4. Numbered(q)
    <2>1. CASE q.said = r.said /\ q.results = r.results /\ q.withheld = r.withheld
      BY <1>1, <1>2, <2>1 DEF Numbered, Numbering
    <2>2. ASSUME NEW x \in Outcomes(r),
                 q.said = IF Completes(x) THEN x.text ELSE r.said,
                 q.results = IF r.worker = "draining" THEN r.results
                             ELSE Append(r.results, x),
                 q.withheld = (r.withheld \/ (r.worker = "draining" /\ Completes(x)))
          PROVE  Numbered(q)
      <3>1. /\ x.text \in {Blank, r.said + 1} /\ (Completes(x) => x.text = r.said + 1)
            /\ x \in Result
        <4>1. /\ x.text \in {Blank, r.said + 1} /\ x.final \in BOOLEAN
              /\ x = [final |-> x.final, text |-> x.text]
          BY DEF Outcomes
        <4>2. x.text \in Nat
          <5>1. r.said + 1 \in Nat /\ Blank \in Nat
            <6>1. r.said \in Nat
              BY <1>3, Zenon
            <6> QED BY <6>1 DEF Blank
          <5>2. x.text = Blank \/ x.text = r.said + 1
            BY <4>1
          <5> QED BY <5>1, <5>2, Zenon
        <4>3. x \in Result
          BY <4>1, <4>2 DEF Result, Text
        <4> QED BY <4>1, <4>3 DEF Completes
      <3>2. CASE r.worker = "draining"
        <4>1. /\ q.results = r.results
              /\ q.said = IF Completes(x) THEN r.said + 1 ELSE r.said
          BY <2>2, <3>1, <3>2
        <4>2. ~q.withheld => ~r.withheld /\ ~Completes(x)
          BY <2>2, <3>2
        <4>3. f[Len(r.results)] \in Nat
          BY <1>1, <1>3
        <4>4. /\ f[Len(q.results)] <= q.said
              /\ ~q.withheld => f[Len(q.results)] = q.said
          <5> DEFINE c == f[Len(r.results)]
          <5>1. c \in Nat /\ c <= r.said /\ (~r.withheld => c = r.said)
            BY <1>1, <4>3 DEF Numbering
          <5>2. f[Len(q.results)] = c
            BY <4>1
          <5> HIDE DEF c
          <5>3. c <= r.said + 1
            BY <1>3, <5>1
          <5> QED BY <4>1, <4>2, <5>1, <5>2, <5>3
        <4>5. Numbering(q, f)
          BY <1>1, <1>2, <4>1, <4>4 DEF Numbering
        <4> QED BY <4>5 DEF Numbered
      <3>3. CASE r.worker # "draining" /\ ~r.withheld
        <4> DEFINE n == Len(r.results) + 1
                   g == [f EXCEPT ![n] = IF Completes(x) THEN f[n - 1] + 1 ELSE f[n - 1]]
        <4>1. /\ q.results = Append(r.results, x) /\ Len(q.results) = n /\ n \in Nat
              /\ q.results[n] = x /\ n - 1 = Len(r.results)
              /\ \A k \in 1..(n - 1) : q.results[k] = r.results[k]
              /\ q.said = IF Completes(x) THEN r.said + 1 ELSE r.said
          <5>1. q.results = Append(r.results, x)
            BY <2>2, <3>3
          <5>2. q.said = IF Completes(x) THEN r.said + 1 ELSE r.said
            BY <2>2, <3>1
          <5>3. r.results \in Seq(Result) /\ Len(r.results) \in Nat /\ x \in Result
            BY <1>3, <3>1
          <5>4. n \in Nat /\ n - 1 = Len(r.results)
            BY <5>3
          <5>5. /\ Len(q.results) = n /\ q.results[n] = x
                /\ \A k \in 1..Len(r.results) : q.results[k] = r.results[k]
            <6>1. /\ Len(Append(r.results, x)) = Len(r.results) + 1
                  /\ Append(r.results, x)[Len(r.results) + 1] = x
                  /\ \A k \in 1..Len(r.results) : Append(r.results, x)[k] = r.results[k]
              BY <5>3, AppendFacts
            <6> QED BY <5>1, <6>1
          <5> HIDE DEF n
          <5> QED BY <5>1, <5>2, <5>4, <5>5
        <4>2. f[n - 1] = r.said
          BY <1>1, <3>3, <4>1 DEF Numbering
        <4> HIDE DEF n
        <4>3. /\ g \in [Nat -> Nat] /\ g[n] = q.said /\ f[n - 1] \in Nat /\ n >= 1
              /\ \A k \in 0..(n - 1) : g[k] = f[k]
          <5>1. n \in Nat /\ n >= 1 /\ f[n - 1] \in Nat
            <6>1. n \in Nat /\ n - 1 \in Nat
              BY <1>3, <4>1
            <6>2. n >= 1
              BY <6>1
            <6>3. f[n - 1] \in Nat
              BY <6>1
            <6> QED BY <6>1, <6>2, <6>3
          <5>2. g \in [Nat -> Nat] /\ \A k \in 0..(n - 1) : g[k] = f[k]
            BY <5>1
          <5>3. g[n] = q.said
            BY <4>1, <4>2, <5>1
          <5> QED BY <5>1, <5>2, <5>3
        <4> HIDE DEF g
        <4>4. ASSUME NEW k \in 1..n
              PROVE  /\ q.results[k].text \in {Blank, g[k - 1] + 1}
                     /\ g[k] = IF Completes(q.results[k]) THEN g[k - 1] + 1 ELSE g[k - 1]
          <5>1. CASE k = n
            <6>1. n - 1 \in 0..(n - 1) /\ q.results[k] = x /\ g[k] = q.said
              <7>1. n - 1 \in 0..(n - 1)
                <8>1. n \in Nat /\ n >= 1
                  BY <4>1, <4>3
                <8> QED BY <8>1, Predecessor
              <7>2. q.results[k] = x
                BY <4>1, <5>1
              <7>3. g[k] = q.said
                BY <4>3, <5>1
              <7> QED BY <7>1, <7>2, <7>3
            <6>2. g[k - 1] = r.said
              BY <4>2, <4>3, <5>1, <6>1
            <6>3. q.said = IF Completes(x) THEN r.said + 1 ELSE r.said
              BY <4>1
            <6> QED BY <3>1, <6>1, <6>2, <6>3
          <5>2. CASE k # n
            <6>1. k \in 1..(n - 1) /\ k \in 0..(n - 1) /\ k - 1 \in 0..(n - 1)
                  /\ k \in 1..Len(r.results)
              BY <4>1, <5>2
            <6> QED BY <1>1, <4>1, <4>3, <6>1 DEF Numbering
          <5> QED BY <5>1, <5>2
        <4>5. g[0] = f[0]
          BY <4>1, <4>3
        <4>6. q.said \in Nat /\ q.said <= q.said
          BY <1>2 DEF StreamRecord
        <4>7. Numbering(q, g)
          BY <1>1, <1>2, <4>1, <4>3, <4>4, <4>5, <4>6 DEF Numbering
        <4> QED BY <4>3, <4>7 DEF Numbered
      <3>4. r.worker # "draining" => ~r.withheld
        <4>1. r.withheld => r.worker \in {"draining", "interrupted"}
          BY DEF WordsInv
        <4> QED BY <4>1 DEF Alive
      <3> QED BY <3>2, <3>3, <3>4
    <2> QED BY <2>1, <2>2, RecognizedFields
  <1>5. Early(q) /\ q.worker \notin {"none", "failed"}
    BY <1>2 DEF SameControl, Early, Alive
  <1>6. InOrder(q)
    BY <1>2 DEF WordsInv, InOrder
  <1>7. q.withheld => q.worker = "draining"
    <2>1. r.withheld => r.worker = "draining"
      BY DEF WordsInv, Alive
    <2>2. q.withheld => r.worker = "draining"
      BY <2>1, RecognizedFields
    <2> QED BY <1>2, <2>2 DEF SameControl
  <1> QED BY <1>2, <1>4, <1>5, <1>6, <1>7 DEF WordsInv

\* The results behind the first one, and the transcript with it.
LEMMA ShiftedNumbering ==
  ASSUME NEW r \in StreamRecord, NEW f \in [Nat -> Nat], Numbering(r, f), r.results # <<>>,
         NEW q, q.results = Tail(r.results), q.said = r.said, q.withheld = r.withheld,
         Len(q.accumulated) = f[1]
  PROVE  Numbered(q)
  <1> DEFINE g == [k \in Nat |-> f[k + 1]]
  <1>1. /\ Len(r.results) \in Nat /\ Len(r.results) >= 1
        /\ Len(q.results) = Len(r.results) - 1
        /\ \A k \in 1..Len(q.results) : q.results[k] = r.results[k + 1]
    <2>1. r.results \in Seq(Result)
      BY DEF StreamRecord
    <2>2. /\ Len(Tail(r.results)) = Len(r.results) - 1 /\ Len(r.results) \in Nat \ {0}
          /\ \A k \in 1..Len(Tail(r.results)) : Tail(r.results)[k] = r.results[k + 1]
      BY <2>1, TailFacts, Zenon
    <2>3. Len(r.results) \in Nat /\ Len(r.results) >= 1
      BY <2>2
    <2> QED BY <2>2, <2>3, Zenon
  <1>2. g \in [Nat -> Nat] /\ \A k \in Nat : g[k] = f[k + 1]
    OBVIOUS
  <1> HIDE DEF g
  <1>3. g[0] = f[1]
    BY <1>2
  <1>4. g[Len(q.results)] = f[Len(r.results)]
    BY <1>1, <1>2
  <1>5. ASSUME NEW k \in 1..Len(q.results)
        PROVE  /\ q.results[k].text \in {Blank, g[k - 1] + 1}
               /\ g[k] = IF Completes(q.results[k]) THEN g[k - 1] + 1 ELSE g[k - 1]
    <2>1. k + 1 \in 1..Len(r.results) /\ k \in Nat /\ k - 1 \in Nat /\ (k + 1) - 1 = k
      BY <1>1
    <2>2. /\ g[k] = f[k + 1] /\ g[k - 1] = f[k] /\ q.results[k] = r.results[k + 1]
      <3>1. g[k] = f[k + 1]
        BY <1>2, <2>1
      <3>2. g[k - 1] = f[(k - 1) + 1] /\ (k - 1) + 1 = k
        <4>1. k - 1 \in Nat /\ (k - 1) + 1 = k
          BY <2>1
        <4>2. g[k - 1] = f[(k - 1) + 1]
          BY <1>2, <4>1
        <4> QED BY <4>1, <4>2
      <3> QED BY <1>1, <3>1, <3>2
    <2>3. /\ r.results[k + 1].text \in {Blank, f[k] + 1}
          /\ f[k + 1] = IF Completes(r.results[k + 1]) THEN f[k] + 1 ELSE f[k]
      BY <2>1 DEF Numbering
    <2> QED BY <2>2, <2>3
  <1>6. Numbering(q, g)
    BY <1>3, <1>4, <1>5 DEF Numbering
  <1> QED BY <1>2, <1>6 DEF Numbered

\* The first result waiting is blank, or the utterance the transcript is to have next.
LEMMA HeadNext ==
  ASSUME NEW r \in StreamRecord, NEW f \in [Nat -> Nat], Numbering(r, f), r.results # <<>>
  PROVE  LET x == Head(r.results)
             n == Len(r.accumulated)
         IN  /\ x \in Result /\ n \in Nat /\ x.text \in {Blank, n + 1}
             /\ f[1] = IF Completes(x) THEN n + 1 ELSE n
             /\ Completes(x) => x.text = n + 1
  <1> DEFINE x == Head(r.results)
             n == Len(r.accumulated)
  <1>1. r.results \in Seq(Result) /\ r.accumulated \in Seq(Text) /\ n \in Nat
    BY DEF StreamRecord
  <1>2. x = r.results[1] /\ x \in Result /\ Len(r.results) \in Nat \ {0}
    BY <1>1, TailFacts
  <1>3. 1 \in 1..Len(r.results)
    BY <1>2
  <1> HIDE DEF x
  <1>4. x.text \in {Blank, n + 1} /\ f[1] = IF Completes(x) THEN n + 1 ELSE n
    <2>1. f[1 - 1] = n
      BY DEF Numbering
    <2>2. /\ r.results[1].text \in {Blank, f[1 - 1] + 1}
          /\ f[1] = IF Completes(r.results[1]) THEN f[1 - 1] + 1 ELSE f[1 - 1]
      BY <1>3 DEF Numbering
    <2> HIDE DEF n
    <2> QED BY <1>2, <2>1, <2>2
  <1>5. Completes(x) => x.text = n + 1
    BY <1>4 DEF Completes
  <1> QED BY <1>1, <1>2, <1>4, <1>5 DEF x

\* A frame takes one result.
LEMMA PolledWords ==
  ASSUME NEW r \in StreamRecord, WordsInv(r), Early(r)
  PROVE  WordsInv(Polled(r))
  <1>1. CASE r.results = <<>>
    BY <1>1, PolledFields
  <1>2. CASE r.results # <<>>
    <2> DEFINE q == Polled(r)
               x == Head(r.results)
               n == Len(r.accumulated)
    <2>1. PICK f \in [Nat -> Nat] : Numbering(r, f)
      BY DEF WordsInv, Numbered
    <2>2. /\ SameControl(r, q) /\ q.results = Tail(r.results) /\ q.last = x.text
          /\ q.accumulated = IF Completes(x) THEN Append(r.accumulated, x.text)
                             ELSE r.accumulated
          /\ q.said = r.said /\ q.withheld = r.withheld
      BY <1>2, PolledFields
    <2>3. /\ x \in Result /\ n \in Nat /\ x.text \in {Blank, n + 1}
          /\ f[1] = IF Completes(x) THEN n + 1 ELSE n
          /\ Completes(x) => x.text = n + 1
      BY <1>2, <2>1, HeadNext
    <2>4. r.accumulated \in Seq(Text) /\ \A i \in 1..n : r.accumulated[i] = i
      BY DEF StreamRecord, WordsInv
    <2>5. x.text \in Text
      BY <2>3 DEF Result
    <2> HIDE DEF q, x
    <2>6. Len(q.accumulated) = f[1] /\ \A i \in 1..Len(q.accumulated) : q.accumulated[i] = i
      <3>1. CASE Completes(x)
        <4>1. /\ q.accumulated = Append(r.accumulated, x.text)
              /\ Len(q.accumulated) = n + 1 /\ q.accumulated[n + 1] = x.text
              /\ \A i \in 1..n : q.accumulated[i] = r.accumulated[i]
          <5>1. q.accumulated = Append(r.accumulated, x.text)
            BY <2>2, <3>1
          <5> DEFINE a == r.accumulated
                     u == x.text
          <5>2. a \in Seq(Text) /\ u \in Text
            BY <2>4, <2>5
          <5> HIDE DEF a, u
          <5>3. /\ Len(Append(a, u)) = Len(a) + 1 /\ Append(a, u)[Len(a) + 1] = u
                /\ \A i \in 1..Len(a) : Append(a, u)[i] = a[i]
            BY <5>2, AppendFacts
          <5> QED BY <5>1, <5>3 DEF a, u
        <4> HIDE DEF n
        <4>2. \A i \in 1..(n + 1) : i \in 1..n \/ i = n + 1
          BY <2>3
        <4> QED BY <2>3, <2>4, <3>1, <4>1, <4>2
      <3>2. CASE ~Completes(x)
        BY <2>2, <2>3, <2>4, <3>2
      <3> QED BY <3>1, <3>2
    <2>7. Numbered(q)
      BY <1>2, <2>1, <2>2, <2>6, ShiftedNumbering
    <2>8. q.last \in {Blank, Len(q.accumulated), Len(q.accumulated) + 1}
      <3>1. CASE Completes(x)
        BY <2>2, <2>3, <2>6, <3>1
      <3>2. CASE ~Completes(x)
        BY <2>2, <2>3, <2>6, <3>2
      <3> QED BY <3>1, <3>2
    <2>9. q.worker \notin {"none", "failed"} /\ (q.withheld => q.worker \in {"draining", "interrupted"})
      BY <1>2, <2>2 DEF WordsInv, SameControl
    <2>10. InOrder(q)
      BY <2>6 DEF InOrder
    <2>11. WordsInv(q)
      BY <2>6, <2>7, <2>8, <2>9, <2>10 DEF WordsInv
    <2> QED BY <2>11 DEF q
  <1> QED BY <1>1, <1>2

\* The text appended last.
LEMMA AppendedInOrder ==
  ASSUME NEW r \in StreamRecord, \A i \in 1..Len(r.accumulated) : r.accumulated[i] = i,
         NEW q, NEW text \in Text,
         q.accumulated = IF text = Blank THEN r.accumulated
                         ELSE Append(r.accumulated, text),
         \/ text \in {Blank, Len(r.accumulated) + 1}
         \/ text > Len(r.accumulated) /\ q.withheld
         \/ text = Len(r.accumulated) /\ q.worker = "stopped"
  PROVE  /\ InOrder(q)
         /\ text # Blank => q.accumulated # <<>> /\ Len(q.accumulated) = Len(r.accumulated) + 1
         /\ text = Len(r.accumulated) + 1 =>
              \A i \in 1..Len(q.accumulated) : q.accumulated[i] = i
         /\ text = Blank => \A i \in 1..Len(q.accumulated) : q.accumulated[i] = i
  <1> DEFINE n == Len(r.accumulated)
  <1>1. r.accumulated \in Seq(Text) /\ n \in Nat /\ text \in Nat
    BY DEF StreamRecord, Text
  <1>2. CASE text = Blank
    BY <1>1, <1>2 DEF InOrder, Blank
  <1>3. CASE text # Blank
    <2>1. /\ q.accumulated = Append(r.accumulated, text)
          /\ Len(q.accumulated) = n + 1 /\ q.accumulated[n + 1] = text
          /\ q.accumulated # <<>>
          /\ \A i \in 1..n : q.accumulated[i] = r.accumulated[i]
      BY <1>1, <1>3, AppendFacts
    <2> HIDE DEF n
    <2>2. \A i \in 1..(n + 1) : (i \in 1..n) \/ (i = n + 1 /\ i - 1 = n)
      BY <1>1
    <2>3. \A i \in 1..n : q.accumulated[i] = i
      BY <2>1 DEF n
    <2>4. \/ text = n + 1
          \/ text > n + 1 /\ q.withheld
          \/ text = n /\ q.worker = "stopped"
      BY <1>1, <1>3 DEF n
    <2>5. InOrder(q)
      BY <2>1, <2>2, <2>3, <2>4 DEF InOrder
    <2>6. text = n + 1 => \A i \in 1..(n + 1) : q.accumulated[i] = i
      BY <2>1, <2>2, <2>3
    <2> QED BY <1>3, <2>1, <2>5, <2>6 DEF n
  <1> QED BY <1>2, <1>3

LEMMA AppendHead ==
  ASSUME NEW T, NEW a \in Seq(T), a # <<>>, NEW x \in T
  PROVE  /\ Head(Append(a, x)) = Head(a) /\ Tail(Append(a, x)) # <<>>
         /\ Append(a, x) # <<>>
  OBVIOUS

LEMMA Later ==
  ASSUME NEW m \in Nat, NEW n \in Nat, n <= m
  PROVE  m + 1 > n
  OBVIOUS

\* finish() returns a result that had been waiting; when it has ended the thread
\* there is another one behind it.
LEMMA TakenWaiting ==
  ASSUME NEW r \in StreamRecord, WordsInv(r), Early(r), r.results # <<>>,
         NEW q \in StreamRecord, q.results # <<>>,
         Head(q.results) = Head(r.results), q.accumulated = r.accumulated,
         q.worker = "none" => Tail(q.results) # <<>>
  PROVE  Ready(Taken(q))
  <1> DEFINE n == Len(r.accumulated)
             t == Taken(q)
             x == Head(q.results)
  <1>1. PICK f \in [Nat -> Nat] : Numbering(r, f)
    BY DEF WordsInv, Numbered
  <1>2. x.text \in {Blank, n + 1} /\ x \in Result
    BY <1>1, HeadNext
  <1>3. \A i \in 1..n : r.accumulated[i] = i
    BY DEF WordsInv
  <1>4. /\ t.results = Tail(q.results) /\ t.worker = q.worker
        /\ t.accumulated = IF x.text = Blank THEN r.accumulated
                           ELSE Append(r.accumulated, x.text)
    BY TakenFields DEF SameControl
  <1>5. x.text \in Text
    BY <1>2 DEF Result
  <1> HIDE DEF t, x
  <1>6. InOrder(t)
    BY <1>2, <1>3, <1>4, <1>5, AppendedInOrder
  <1>7. Ready(t)
    BY <1>4, <1>6 DEF Ready
  <1> QED BY <1>7 DEF t

\* finish() returns what the flush yields.
LEMMA TakenFlush ==
  ASSUME NEW r \in StreamRecord, WordsInv(r), Early(r), r.results = <<>>,
         NEW q \in StreamRecord, NEW text \in {Blank, r.said + 1},
         q.results = Append(r.results, [final |-> TRUE, text |-> text]),
         q.said = IF text = Blank THEN r.said ELSE text,
         q.accumulated = r.accumulated, q.withheld = r.withheld
  PROVE  Ready(Taken(q))
  <1> DEFINE n == Len(r.accumulated)
             t == Taken(q)
  <1>1. PICK f \in [Nat -> Nat] : Numbering(r, f)
    BY DEF WordsInv, Numbered
  <1>2. /\ \A i \in 1..n : r.accumulated[i] = i
        /\ r.said \in Nat /\ n \in Nat
        /\ n <= r.said /\ (~r.withheld => n = r.said)
    BY <1>1 DEF WordsInv, StreamRecord, Numbering
  <1>3. q.results # <<>> /\ Head(q.results).text = text
    <2>1. q.results = <<[final |-> TRUE, text |-> text]>>
      OBVIOUS
    <2> QED BY <2>1
  <1>4. text \in Text
    BY <1>2, SMTT(40) DEF Text, Blank
  <1>5. /\ t.said = q.said /\ t.withheld = r.withheld
        /\ t.accumulated = IF text = Blank THEN r.accumulated
                           ELSE Append(r.accumulated, text)
    BY <1>3, TakenFields
  <1> HIDE DEF t
  <1>6. InOrder(t)
    <2>1. \/ text \in {Blank, n + 1}
          \/ text > n /\ t.withheld
      <3>1. r.said + 1 > n
        <4>1. r.said \in Nat /\ n \in Nat /\ n <= r.said
          BY <1>2
        <4> HIDE DEF n
        <4> QED BY <4>1, Later, Zenon
      <3>2. ~r.withheld => r.said + 1 = n + 1
        BY <1>2
      <3> QED BY <1>5, <3>1, <3>2
    <2> QED BY <1>2, <1>4, <1>5, <2>1, AppendedInOrder
  <1>7. ASSUME ~t.withheld PROVE Covered(t)
    <2>1. n = r.said /\ text \in {Blank, n + 1}
      BY <1>2, <1>5, <1>7
    <2>2. \A i \in 1..Len(t.accumulated) : t.accumulated[i] = i
      BY <1>2, <1>4, <1>5, <2>1, AppendedInOrder
    <2>3. t.said = Len(t.accumulated)
      <3>1. CASE text = Blank
        BY <1>5, <2>1, <3>1
      <3>2. CASE text # Blank
        <4>1. Len(t.accumulated) = n + 1
          BY <1>2, <1>4, <1>5, <2>1, <3>2, AppendedInOrder
        <4> QED BY <1>5, <2>1, <3>2, <4>1
      <3> QED BY <3>1, <3>2
    <2>4. ASSUME NEW u \in 1..t.said
          PROVE  \E i \in 1..Len(t.accumulated) : t.accumulated[i] = u
      <3>1. u \in 1..Len(t.accumulated)
        BY <2>3
      <3> QED BY <2>2, <3>1
    <2> QED BY <2>4 DEF Covered
  <1>8. Ready(t)
    BY <1>6, <1>7 DEF Ready
  <1> QED BY <1>8 DEF t

\* finish() returns: with the flush behind the results, or without.
LEMMA TakenReady ==
  ASSUME NEW r \in StreamRecord, WordsInv(r), Early(r), NEW q \in StreamRecord,
         q.accumulated = r.accumulated, q.withheld = r.withheld,
         \/ q.results = r.results /\ q.worker # "none"
         \/ \E text \in {Blank, r.said + 1} :
              /\ q.results = Append(r.results, [final |-> TRUE, text |-> text])
              /\ q.said = IF text = Blank THEN r.said ELSE text
  PROVE  Ready(Taken(q))
  <1>1. r.results \in Seq(Result) /\ r.said \in Nat
    BY DEF StreamRecord
  <1>2. CASE r.results = <<>> /\ q.results = r.results /\ q.worker # "none"
    <2>1. Taken(q) = q
      BY <1>2, TakenFields
    <2>2. InOrder(q)
      BY DEF WordsInv, InOrder
    <2> QED BY <1>2, <2>1, <2>2 DEF Ready
  <1>3. CASE r.results # <<>> /\ q.results = r.results /\ q.worker # "none"
    BY <1>3, TakenWaiting
  <1>4. ASSUME NEW text \in {Blank, r.said + 1},
               q.results = Append(r.results, [final |-> TRUE, text |-> text]),
               q.said = IF text = Blank THEN r.said ELSE text
        PROVE  Ready(Taken(q))
    <2>1. CASE r.results = <<>>
      BY <1>4, <2>1, TakenFlush
    <2>2. CASE r.results # <<>>
      <3> DEFINE y == [final |-> TRUE, text |-> text]
      <3>1. y \in Result
        BY <1>1 DEF Result, Text, Blank
      <3>2. q.results = Append(r.results, y)
        BY <1>4
      <3> HIDE DEF y
      <3>3. q.results # <<>> /\ Head(q.results) = Head(r.results) /\ Tail(q.results) # <<>>
        <4>1. r.results \in Seq(Result)
          BY <1>1
        <4>2. /\ Head(Append(r.results, y)) = Head(r.results)
              /\ Tail(Append(r.results, y)) # <<>> /\ Append(r.results, y) # <<>>
          BY <2>2, <3>1, <4>1, AppendHead, Zenon
        <4> QED BY <3>2, <4>2, Zenon
      <3> QED BY <2>2, <3>3, TakenWaiting
    <2> QED BY <2>1, <2>2
  <1> QED BY <1>2, <1>3, <1>4

-----------------------------------------------------------------------------
(* Every step: the invariant, and the words of all streams *)

AllWords == \A s \in 1..count : WordsInv(st[s])

Inv == IInv /\ AllWords

AllMove == \A s \in 1..count : Moves(st[s], st'[s])

LEMMA QuietAll ==
  ASSUME Inv, AllEvolve, \A s \in 1..count : Quiet(st[s], st'[s])
  PROVE  AllMove
  <1>1. \A s \in 1..count : /\ st[s] \in StreamRecord /\ WordsInv(st[s])
                            /\ st'[s] \in StreamRecord
    BY Facts DEF Inv, AllWords, AllEvolve, Evolves, RecordInv
  <1> QED BY <1>1, QuietMoves DEF AllMove

LEMMA OneMoves ==
  ASSUME Inv, NEW s \in 1..count, NEW q, Evolves(st[s], q), Moves(st[s], q),
         st' = [st EXCEPT ![s] = q], count' = count
  PROVE  AllMove
  <1>1. st'[s] = q /\ \A t \in 1..count : t # s => st'[t] = st[t]
    BY OneEvolves DEF Inv
  <1>2. \A t \in 1..count : Moves(st[t], st[t])
    <2>1. \A t \in 1..count : st[t] \in StreamRecord /\ WordsInv(st[t]) /\ Quiet(st[t], st[t])
      BY Facts DEF Inv, AllWords, Quiet
    <2> QED BY <2>1, QuietMoves
  <1> QED BY <1>1, <1>2 DEF AllMove

LEMMA OneQuiet ==
  ASSUME Inv, NEW s \in 1..count, NEW q, Evolves(st[s], q), Quiet(st[s], q),
         st' = [st EXCEPT ![s] = q], count' = count
  PROVE  AllMove
  <1>1. Moves(st[s], q)
    BY Facts, QuietMoves DEF Inv, AllWords, Evolves, RecordInv
  <1> QED BY <1>1, OneMoves

\* Streams untouched.
LEMMA SameMoves ==
  ASSUME Inv, UNCHANGED <<count, st>>
  PROVE  AllMove
  <1>1. \A t \in 1..count : st[t] \in StreamRecord /\ WordsInv(st[t]) /\ Quiet(st[t], st[t])
    BY Facts DEF Inv, AllWords, Quiet
  <1> QED BY <1>1, QuietMoves DEF AllMove

\* The worker's thread recognizes a chunk.
LEMMA RecognizeInv ==
  ASSUME Inv, NEW s \in 1..count, Recognize(s)
  PROVE  IInv' /\ AllMove
  <1>1. PICK q \in Recognized(st[s]) : st' = [st EXCEPT ![s] = q]
    BY DEF Recognize
  <1>2. /\ st[s].worker \in Alive /\ st[s].queued > 0
        /\ UNCHANGED <<open, hello, idle, table, count, fed>>
    BY DEF Recognize
  <1>3. RecordInv(st[s]) /\ st[s] \in StreamRecord /\ WordsInv(st[s]) /\ Early(st[s])
    BY <1>2, Facts DEF Inv, AllWords, RecordInv, Early, StreamRecord
  <1>4. SameControl(st[s], q) /\ Evolves(st[s], q) /\ WordsInv(q)
    BY <1>2, <1>3, RecognizedFields, SameControlEvolves, RecognizedWords
  <1>5. Moves(st[s], q)
    BY <1>4 DEF Moves, SameControl
  <1>6. Aside
    BY <1>2 DEF Aside, Inv, IInv, StateOK
  <1> QED BY <1>1, <1>2, <1>4, <1>5, <1>6, OneStreamIInv, OneMoves DEF Inv

\* The end of the first part of a pipeline.
LEMMA ConcludeMoves ==
  ASSUME Inv, NEW s \in 1..count, NEW r, Evolves(st[s], r), Conclude(s, r),
         r.task \in {"created", "asr"}, r.worker \notin Alive, Ready(r)
  PROVE  AllMove
  <1>1. RecordInv(r) /\ r \in StreamRecord
    BY DEF Evolves, RecordInv
  <1>2. PICK f, t : /\ f = Finalized(r) \/ (~r.finalized /\ f = Broken(r, "write"))
                    /\ t \in {"llm", "done"} /\ st'[s] = [f EXCEPT !.task = t]
                    /\ f = Finalized(r) /\ Told(f) => t = "llm"
    <2>1. ConcludedFrom(s, r)
      BY ConcludeSteps DEF Inv
    <2> QED BY <2>1 DEF ConcludedFrom
  <1>3. /\ f \in StreamRecord /\ Quiet(r, f) /\ f.worker = r.worker
        /\ f.broken = "no" => f = Finalized(r)
    <2>1. CASE f = Finalized(r)
      <3>1. Evolves(r, f) /\ Quiet(r, f)
        BY <1>1, <2>1, FinalizedInv
      <3>2. f.worker = r.worker
        <4>1. CASE r.finalized
          BY <2>1, <4>1 DEF Finalized
        <4>2. CASE ~r.finalized
          BY <1>1, <2>1, <4>2, FinalizedFields
        <4> QED BY <4>1, <4>2
      <3> QED BY <2>1, <3>1, <3>2 DEF Evolves, RecordInv
    <2>2. CASE ~r.finalized /\ f = Broken(r, "write")
      BY <1>1, <2>2, BrokenInv DEF Evolves, RecordInv
    <2> QED BY <1>2, <2>1, <2>2
  <1> DEFINE q == [f EXCEPT !.task = t]
  <1>4. /\ q.task = t /\ q.worker = f.worker /\ q.broken = f.broken
        /\ q.accumulated = f.accumulated /\ q.said = f.said
        /\ q.results = f.results /\ q.withheld = f.withheld
    BY <1>2, <1>3 DEF StreamRecord
  <1> HIDE DEF q
  <1>5. /\ q.accumulated = r.accumulated /\ q.said = r.said /\ q.worker = r.worker
        /\ q.results = r.results /\ q.withheld = r.withheld
    BY <1>3, <1>4 DEF Quiet
  <1>6. WordsInv(q)
    <2>1. InOrder(q)
      BY <1>5 DEF Ready, InOrder
    <2>2. ~Early(q)
      BY <1>2, <1>4 DEF Early
    <2> QED BY <2>1, <2>2 DEF WordsInv
  <1>7. ASSUME Intact(q) PROVE Covered(q) /\ (q.said > 0 => q.task = "llm")
    <2>1. Covered(r)
      BY <1>5, <1>7 DEF Intact, Ready
    <2>2. Covered(q)
      BY <1>5, <2>1 DEF Covered
    <2>3. ASSUME q.said > 0 PROVE q.task = "llm"
      <3>1. q.said \in Nat /\ q.accumulated \in Seq(Text)
        BY <1>1, <1>5 DEF StreamRecord
      <3>2. 1 \in 1..q.said
        BY <2>3, <3>1
      <3>3. PICK i \in 1..Len(q.accumulated) : q.accumulated[i] = 1
        BY <2>2, <3>2 DEF Covered
      <3>4. q.accumulated # <<>>
        BY <3>3
      <3>5. Told(f)
        <4>1. f.accumulated # <<>>
          BY <1>4, <3>4
        <4>2. Transcript(f) = f.accumulated
          BY <4>1 DEF Transcript
        <4> QED BY <4>1, <4>2 DEF Told
      <3>6. f = Finalized(r)
        BY <1>3, <1>4, <1>7 DEF Intact
      <3> QED BY <1>2, <1>4, <3>5, <3>6
    <2> QED BY <2>2, <2>3
  <1>8. Moves(st[s], st'[s])
    BY <1>2, <1>6, <1>7 DEF Moves, q
  <1>9. ASSUME NEW u \in 1..count, u # s PROVE Moves(st[u], st'[u])
    <2>1. st[u] \in StreamRecord /\ WordsInv(st[u])
      BY Facts DEF Inv, AllWords
    <2>2. st'[u] = st[u] \/ st'[u] = [st[u] EXCEPT !.evicted = TRUE]
      <3>1. OthersKept(s)
        BY ConcludeSteps DEF Inv
      <3> QED BY <1>9, <3>1 DEF OthersKept
    <2>3. st'[u] \in StreamRecord /\ Quiet(st[u], st'[u])
      <3> DEFINE a == st[u]
      <3>1. a \in StreamRecord
        BY <2>1
      <3> HIDE DEF a
      <3>2. /\ [a EXCEPT !.evicted = TRUE] \in StreamRecord
            /\ Quiet(a, [a EXCEPT !.evicted = TRUE]) /\ Quiet(a, a)
        BY <3>1, ZenonT(60) DEF Quiet, Early, StreamRecord
      <3> QED BY <2>2, <3>1, <3>2 DEF a
    <2> QED BY <2>1, <2>3, QuietMoves
  <1> QED BY <1>8, <1>9 DEF AllMove

LEMMA ConcludeInv ==
  ASSUME Inv, NEW s \in 1..count, NEW r, Evolves(st[s], r), Conclude(s, r),
         r.task \in {"created", "asr"}, r.worker \notin Alive, Ready(r)
  PROVE  IInv' /\ AllMove
  BY ConcludeMoves, ConcludeIInv DEF Inv

\* finish() has ended the thread, or given up on it.
LEMMA LetGoInv ==
  ASSUME NEW r, RecordInv(r), r.task = "asr", NEW p, SameControl(r, p),
         NEW w \in {"none", "abandoned"}
  PROVE  LET q == [p EXCEPT !.worker = w]
         IN  /\ Evolves(r, q) /\ q \in StreamRecord /\ q.worker = w /\ q.task = "asr"
             /\ q.accumulated = p.accumulated /\ q.said = p.said
             /\ q.results = p.results /\ q.withheld = p.withheld
  <1> DEFINE q == [p EXCEPT !.worker = w]
  <1>1. /\ q \in StreamRecord /\ q.worker = w /\ q.task = p.task
        /\ q.conn = p.conn /\ q.id = p.id /\ q.evicted = p.evicted /\ q.broken = p.broken
        /\ q.finalized = p.finalized /\ q.finalizing = p.finalizing
        /\ q.tasks = p.tasks /\ q.written = p.written
        /\ q.accumulated = p.accumulated /\ q.said = p.said
        /\ q.results = p.results /\ q.withheld = p.withheld
    BY DEF SameControl, StreamRecord
  <1> HIDE DEF q
  <1>2. Evolves(r, q) /\ q.task = "asr"
    BY <1>1 DEF Evolves, RecordInv, SameControl, Alive
  <1> QED BY <1>1, <1>2 DEF q

\* finish() returns.
LEMMA FinishReturnedInv ==
  ASSUME Inv, NEW s \in 1..count, FinishReturned(s)
  PROVE  IInv' /\ AllMove
  <1> DEFINE r == st[s]
  <1>1. /\ RecordInv(r) /\ r \in StreamRecord /\ Evolves(r, r) /\ WordsInv(r)
        /\ r.task = "asr" /\ Early(r)
    BY Facts DEF Inv, AllWords, FinishReturned, Early
  <1>2. \/ r.worker = "stopped" /\ Conclude(s, r)
        \/ r.worker = "draining" /\ r.queued = 0
           /\ \E q \in Flushed(r) : Conclude(s, Taken([q EXCEPT !.worker = "none"]))
        \/ r.worker = "draining" /\ Conclude(s, Taken([r EXCEPT !.worker = "abandoned"]))
        \/ r.worker = "interrupted" /\ r.queued = 0
           /\ \E q \in Flushed(r) : Conclude(s, Taken(q))
        \/ r.worker = "interrupted" /\ Conclude(s, Taken(r))
    BY DEF FinishReturned
  <1>3. ASSUME NEW q, q \in StreamRecord, Evolves(r, q), q.task = "asr",
               q.worker \notin Alive, Ready(Taken(q)), Conclude(s, Taken(q))
        PROVE  IInv' /\ AllMove
    <2>1. SameControl(q, Taken(q)) /\ RecordInv(q)
      BY <1>3, TakenFields DEF Evolves
    <2>2. /\ Evolves(r, Taken(q)) /\ Taken(q).task = "asr"
          /\ Taken(q).worker \notin Alive
      BY <1>3, <2>1, SameControlEvolves, EvolvesTransitive DEF SameControl
    <2> QED BY <1>3, <2>2, ConcludeInv
  <1> HIDE DEF r
  <1>4. CASE r.worker = "stopped" /\ Conclude(s, r)
    <2>1. Ready(r)
      BY <1>1, <1>4 DEF Ready, WordsInv
    <2> QED BY <1>1, <1>4, <2>1, ConcludeInv DEF r, Alive
  <1>5. ASSUME NEW q \in Flushed(r), Conclude(s, Taken([q EXCEPT !.worker = "none"]))
        PROVE  IInv' /\ AllMove
    <2> DEFINE w == [q EXCEPT !.worker = "none"]
    <2>1. PICK text \in {Blank, r.said + 1} :
            /\ SameControl(r, q)
            /\ q.results = Append(r.results, [final |-> TRUE, text |-> text])
            /\ q.said = IF text = Blank THEN r.said ELSE text
            /\ q.accumulated = r.accumulated /\ q.withheld = r.withheld
      BY <1>1, <1>5, FlushedFields
    <2>2. /\ Evolves(r, w) /\ w \in StreamRecord /\ w.worker = "none" /\ w.task = "asr"
          /\ w.accumulated = q.accumulated /\ w.said = q.said
          /\ w.results = q.results /\ w.withheld = q.withheld
      BY <1>1, <2>1, LetGoInv
    <2>3. Conclude(s, Taken(w))
      BY <1>5
    <2> HIDE DEF w
    <2>4. Ready(Taken(w))
      <3>1. /\ w.results = Append(r.results, [final |-> TRUE, text |-> text])
            /\ w.said = IF text = Blank THEN r.said ELSE text
            /\ w.accumulated = r.accumulated /\ w.withheld = r.withheld
        BY <2>1, <2>2
      <3> QED BY <1>1, <2>2, <3>1, TakenReady
    <2> QED BY <1>3, <2>2, <2>3, <2>4 DEF Alive
  <1>6. CASE Conclude(s, Taken([r EXCEPT !.worker = "abandoned"]))
    <2> DEFINE w == [r EXCEPT !.worker = "abandoned"]
    <2>1. SameControl(r, r)
      BY <1>1 DEF SameControl
    <2>2. /\ Evolves(r, w) /\ w \in StreamRecord /\ w.worker = "abandoned"
          /\ w.task = "asr" /\ w.accumulated = r.accumulated
          /\ w.results = r.results /\ w.withheld = r.withheld
      BY <1>1, <2>1, LetGoInv
    <2>3. Conclude(s, Taken(w))
      BY <1>6
    <2> HIDE DEF w
    <2>4. Ready(Taken(w))
      BY <1>1, <2>2, TakenReady
    <2> QED BY <1>3, <2>2, <2>3, <2>4 DEF Alive
  <1>7. ASSUME r.worker = "interrupted", NEW q \in Flushed(r), Conclude(s, Taken(q))
        PROVE  IInv' /\ AllMove
    <2>1. PICK text \in {Blank, r.said + 1} :
            /\ SameControl(r, q)
            /\ q.results = Append(r.results, [final |-> TRUE, text |-> text])
            /\ q.said = IF text = Blank THEN r.said ELSE text
            /\ q.accumulated = r.accumulated /\ q.withheld = r.withheld
      BY <1>1, <1>7, FlushedFields
    <2>2. q \in StreamRecord /\ q.worker = "interrupted" /\ q.task = "asr" /\ Evolves(r, q)
      BY <1>1, <1>7, <2>1, SameControlEvolves DEF SameControl
    <2>3. Ready(Taken(q))
      BY <1>1, <2>1, <2>2, TakenReady
    <2> QED BY <1>3, <1>7, <2>2, <2>3 DEF Alive
  <1>8. CASE r.worker = "interrupted" /\ Conclude(s, Taken(r))
    <2>1. Ready(Taken(r))
      BY <1>1, <1>8, TakenReady
    <2> QED BY <1>1, <1>3, <1>8, <2>1 DEF Alive
  <1> QED BY <1>2, <1>4, <1>5, <1>6, <1>7, <1>8

\* The other turns of a pipeline.
LEMMA TaskTurnInv ==
  ASSUME Inv, NEW s \in 1..count, TaskBegins(s) \/ FinishEnter(s) \/ Answered(s)
  PROVE  IInv' /\ AllMove
  <1> DEFINE r == st[s]
  <1>1. RecordInv(r) /\ r \in StreamRecord
    BY Facts DEF Inv
  <1>2. /\ UNCHANGED <<open, hello, table, count>> /\ Aside
    <2>1. UNCHANGED <<open, hello, idle, table, count, fed>>
      BY DEF TaskBegins, FinishEnter, Answered
    <2> QED BY <2>1 DEF Aside, Inv, IInv, StateOK
  <1>3. ASSUME NEW q, st' = [st EXCEPT ![s] = q], Evolves(r, q), Quiet(r, q)
        PROVE  IInv' /\ AllMove
    BY <1>2, <1>3, OneStreamIInv, OneQuiet DEF Inv
  <1> HIDE DEF r
  <1>4. ASSUME NEW t \in {"none", "created", "asr", "llm", "done"},
               NEW w \in {"none", "failed", "running", "finishing", "draining", "stopped",
                          "interrupted", "abandoned"}
        PROVE  LET q == [r EXCEPT !.task = t, !.worker = w]
               IN  /\ q \in StreamRecord /\ q.task = t /\ q.worker = w
                   /\ q.finalizing = r.finalizing /\ q.finalized = r.finalized
                   /\ q.conn = r.conn /\ q.id = r.id /\ q.evicted = r.evicted
                   /\ q.broken = r.broken /\ q.tasks = r.tasks /\ q.written = r.written
                   /\ q.accumulated = r.accumulated /\ q.last = r.last
                   /\ q.said = r.said /\ q.results = r.results
                   /\ q.withheld = r.withheld
    BY <1>1 DEF StreamRecord
  <1>5. CASE TaskBegins(s)
    <2> DEFINE q == [r EXCEPT !.task = "asr", !.worker = "finishing"]
    <2>1. /\ r.task = "created" /\ r.worker = "running" /\ st' = [st EXCEPT ![s] = q]
      BY <1>5 DEF TaskBegins, r
    <2>2. Evolves(r, q) /\ Quiet(r, q)
      BY <1>1, <1>4, <2>1 DEF Evolves, RecordInv, Quiet, Early, Alive
    <2> QED BY <1>3, <2>1, <2>2
  <1>6. CASE FinishEnter(s)
    <2> DEFINE q == [r EXCEPT !.task = "asr", !.worker = "draining"]
    <2>1. /\ r.worker = "finishing" /\ r.task = "asr"
          /\ st' = [st EXCEPT ![s] = [r EXCEPT !.worker = "draining"]]
      BY <1>1, <1>6 DEF FinishEnter, r, RecordInv
    <2>2. [r EXCEPT !.worker = "draining"] = q
      BY <1>1, <2>1 DEF StreamRecord
    <2>3. Evolves(r, q) /\ Quiet(r, q)
      BY <1>1, <1>4, <2>1 DEF Evolves, RecordInv, Quiet, Early, Alive
    <2> QED BY <1>3, <2>1, <2>2, <2>3
  <1>7. CASE Answered(s)
    <2> DEFINE q == [r EXCEPT !.task = "done"]
    <2>1. /\ r.task = "llm" /\ st' = [st EXCEPT ![s] = q]
      BY <1>7 DEF Answered, r
    <2>2. /\ q \in StreamRecord /\ q.task = "done" /\ q.worker = r.worker
          /\ q.finalizing = r.finalizing /\ q.finalized = r.finalized
          /\ q.conn = r.conn /\ q.id = r.id /\ q.evicted = r.evicted
          /\ q.broken = r.broken /\ q.tasks = r.tasks /\ q.written = r.written
          /\ q.accumulated = r.accumulated /\ q.last = r.last
          /\ q.said = r.said /\ q.results = r.results /\ q.withheld = r.withheld
      BY <1>1 DEF StreamRecord
    <2> HIDE DEF q
    <2>3. Evolves(r, q) /\ Quiet(r, q)
      BY <1>1, <2>1, <2>2 DEF Evolves, RecordInv, Quiet, Early, Alive
    <2> QED BY <1>3, <2>1, <2>3
  <1> QED BY <1>5, <1>6, <1>7

LEMMA TaskWithoutWorkerInv ==
  ASSUME Inv, NEW s \in 1..count, TaskWithoutWorker(s)
  PROVE  IInv' /\ AllMove
  <1> DEFINE r == st[s]
             q == WithText(r, r.last)
  <1>1. /\ RecordInv(r) /\ r \in StreamRecord /\ WordsInv(r) /\ r.last \in Text
        /\ r.task = "created" /\ Conclude(s, q)
        /\ r.worker \in {"none", "failed", "stopped"} /\ Early(r)
    <2>1. RecordInv(r) /\ r \in StreamRecord /\ WordsInv(r)
      BY Facts DEF Inv, AllWords
    <2>2. r.task = "created" /\ Conclude(s, q) /\ r.worker # "running"
      BY DEF TaskWithoutWorker
    <2> HIDE DEF r, q
    <2> QED BY <2>1, <2>2 DEF RecordInv, StreamRecord, Early
  <1>2. SameControl(r, q) /\ Evolves(r, q)
    BY <1>1, WithTextControl, SameControlEvolves
  <1>3. /\ q.accumulated = IF r.last = Blank THEN r.accumulated
                           ELSE Append(r.accumulated, r.last)
        /\ q.said = r.said /\ q.worker = r.worker
    <2> HIDE DEF r
    <2> QED BY <1>1 DEF WithText, StreamRecord
  <1>4. Ready(q)
    <2> DEFINE n == Len(r.accumulated)
    <2>1. /\ \A i \in 1..n : r.accumulated[i] = i
          /\ r.last \in {Blank, n, n + 1}
          /\ r.worker \in {"none", "failed"} => r.last = Blank /\ r.said = 0
      BY <1>1 DEF WordsInv
    <2> HIDE DEF r, q, n
    <2>2. \/ r.last \in {Blank, n + 1}
          \/ r.last = n /\ q.worker = "stopped"
      BY <1>1, <1>3, <2>1
    <2>3. InOrder(q)
      BY <1>1, <1>3, <2>1, <2>2, AppendedInOrder DEF n
    <2>4. q.worker = "none" => Covered(q)
      <3>1. q.worker = "none" => q.said = 0
        BY <1>3, <2>1
      <3> QED BY <3>1 DEF Covered
    <2> QED BY <2>3, <2>4 DEF Ready
  <1>5. q.task = "created" /\ q.worker \notin Alive
    <2> HIDE DEF r, q
    <2> QED BY <1>1, <1>2 DEF SameControl, Alive
  <1> QED BY <1>1, <1>2, <1>4, <1>5, ConcludeInv

LEMMA PipelineInv ==
  ASSUME Inv, NEW s \in 1..count, Pipeline(s)
  PROVE  IInv' /\ AllMove
  BY TaskTurnInv, TaskWithoutWorkerInv, FinishReturnedInv DEF Pipeline, Ends

\* The steps of a handler.
LEMMA StopInv ==
  ASSUME Inv, NEW c \in Conns, NEW i \in Ids, StopMessage(c, i)
  PROVE  IInv' /\ AllMove
  <1>1. IInv' /\ count' = count
    BY StopIInv DEF Inv, StopMessage
  <1>2. CASE st' = st
    BY <1>1, <1>2, SameMoves
  <1>3. CASE st' # st
    <2> DEFINE s == table[c][i]
    <2>1. s \in 1..count /\ RecordInv(st[s])
      BY Facts DEF StopMessage, Inv
    <2>2. ~Ending(st[s]) /\ st' = [st EXCEPT ![s] = WithTask(st[s])]
      BY <1>3 DEF StopMessage
    <2> HIDE DEF s
    <2>3. Evolves(st[s], WithTask(st[s])) /\ Quiet(st[s], WithTask(st[s]))
      BY <2>1, <2>2, WithTaskInv DEF Ending
    <2> QED BY <1>1, <2>1, <2>2, <2>3, OneQuiet
  <1> QED BY <1>1, <1>2, <1>3

LEMMA FrameInv ==
  ASSUME Inv, NEW c \in Conns, NEW i \in Ids, AudioFrame(c, i)
  PROVE  IInv' /\ AllMove
  <1> DEFINE s == table[c][i]
  <1>1. IInv' /\ count' = count /\ IInv
    BY FrameIInv DEF Inv, AudioFrame
  <1>2. s \in 1..count /\ WordsInv(st[s]) /\ st[s] \in StreamRecord
    BY Facts DEF AudioFrame, Inv, AllWords
  <1>3. PICK q, p :
          /\ p = q \/ (q.worker = "running" /\ p \in Recognized(q))
          /\ st' = [st EXCEPT ![s] = Polled(p)]
          /\ Evolves(st[s], q) /\ Quiet(st[s], q)
          /\ q.task \in {"none", "created"}
          /\ q.worker = "running" => q.queued > 0
          /\ SameControl(q, p) /\ SameControl(p, Polled(p))
    BY <1>1, FrameSteps
  <1> HIDE DEF s
  <1>4. q \in StreamRecord /\ WordsInv(q) /\ Early(q)
    <2>1. q \in StreamRecord
      BY <1>3 DEF Evolves, RecordInv
    <2> QED BY <1>2, <1>3, <2>1, QuietMoves DEF Moves, Early
  <1>5. p \in StreamRecord /\ WordsInv(p) /\ Early(p) /\ p.task = q.task
    <2>1. p \in StreamRecord /\ p.task = q.task
      BY <1>3 DEF SameControl
    <2>2. CASE p = q
      BY <1>4, <2>2
    <2>3. CASE q.worker = "running" /\ p \in Recognized(q)
      BY <1>3, <1>4, <2>1, <2>3, RecognizedWords DEF Alive, Early
    <2> QED BY <1>3, <2>2, <2>3
  <1>6. WordsInv(Polled(p)) /\ Polled(p).task = q.task
    BY <1>3, <1>5, PolledWords DEF SameControl
  <1>7. Moves(st[s], Polled(p))
    BY <1>3, <1>6 DEF Moves, Quiet, Early
  <1>8. Evolves(st[s], Polled(p))
    <2>1. Evolves(q, p)
      BY <1>3, SameControlEvolves DEF Evolves
    <2>2. Evolves(p, Polled(p))
      BY <1>3, <2>1, SameControlEvolves DEF Evolves
    <2> QED BY <1>3, <2>1, <2>2, EvolvesTransitive
  <1> QED BY <1>1, <1>2, <1>3, <1>7, <1>8, OneMoves

\* The end of a handler moves no word.
LEMMA AbortMoves ==
  ASSUME Inv, NEW c \in Conns, NEW q,
         \A s \in 1..count : Evolves(st[s], q[s]) /\ Quiet(st[s], q[s]), Abort(c, q)
  PROVE  AllMove
  <1>1. /\ count' = count /\ Entries(c) \in SUBSET (1..count) /\ IInv
        /\ st' \in {Swept(q, Entries(c))} \cup Cut(q, Entries(c), "closing")
    BY Facts DEF Abort, Inv
  <1>2. /\ st' = [s \in 1..count |-> st'[s]]
        /\ \A s \in 1..count : Evolves(st[s], st'[s]) /\ Quiet(q[s], st'[s])
    BY <1>1, SweepEvolves
  <1>3. AllEvolve
    BY <1>1, <1>2, ManyEvolve
  <1>4. \A s \in 1..count : Quiet(st[s], st'[s])
    BY <1>2, QuietTransitive
  <1> QED BY <1>3, <1>4, QuietAll

LEMMA CloseInv ==
  ASSUME Inv, NEW c \in Conns, Close(c) \/ InactivityFails(c)
  PROVE  IInv' /\ AllMove
  <1>1. IInv' /\ IInv
    BY CloseIInv DEF Inv
  <1>2. \A s \in 1..count : Evolves(st[s], st[s]) /\ Quiet(st[s], st[s])
    BY <1>1, Facts DEF Quiet
  <1>3. CASE Close(c)
    BY <1>1, <1>2, <1>3, AbortMoves DEF Close
  <1>4. CASE InactivityFails(c)
    <2>1. PICK q \in Cut(st, Entries(c), "write") : Abort(c, q)
      BY <1>4 DEF InactivityFails
    <2>2. \A s \in 1..count : Evolves(st[s], q[s]) /\ Quiet(st[s], q[s])
      <3>1. Entries(c) \in SUBSET (1..count)
        BY <1>1, Facts
      <3> QED BY <1>1, <1>2, <3>1, SweepEvolves
    <2> QED BY <1>1, <2>1, <2>2, AbortMoves
  <1> QED BY <1>3, <1>4

LEMMA InactivityInv ==
  ASSUME Inv, NEW c \in Conns, Inactivity(c)
  PROVE  IInv' /\ AllMove
  <1>1. IInv' /\ IInv /\ count' = count /\ st' = Swept(st, Entries(c))
    BY InactivityIInv DEF Inv, Inactivity, FinalizedByTimeout, Swept
  <1>2. /\ st' = [s \in 1..count |-> st'[s]]
        /\ \A s \in 1..count : Evolves(st[s], st'[s]) /\ Quiet(st[s], st'[s])
    <2>1. Entries(c) \in SUBSET (1..count) /\ \A s \in 1..count : Evolves(st[s], st[s])
      BY <1>1, Facts
    <2> QED BY <1>1, <2>1, SweepEvolves
  <1>3. AllEvolve
    BY <1>1, <1>2, ManyEvolve
  <1> QED BY <1>1, <1>2, <1>3, QuietAll

LEMMA MaximumInv ==
  ASSUME Inv, NEW c \in Conns, NEW i \in Ids, FrameBeyondMaximum(c, i)
  PROVE  IInv' /\ AllMove
  <1> DEFINE s == table[c][i]
             q == WithTask(Finalized(st[s]))
             b == [Broken(st[s], "write") EXCEPT !.finalizing = TRUE]
  <1>1. IInv' /\ IInv
    BY MaximumIInv DEF Inv
  <1>2. s \in 1..count /\ ~Ending(st[s])
    BY <1>1, Facts DEF FrameBeyondMaximum
  <1>3. Evolves(st[s], q) /\ Quiet(st[s], q) /\ Evolves(st[s], b) /\ Quiet(st[s], b)
    BY <1>1, <1>2, MaximumSteps
  <1>4. \/ st' = [st EXCEPT ![s] = q] /\ count' = count
        \/ Abort(c, [st EXCEPT ![s] = b])
    BY DEF FrameBeyondMaximum
  <1> HIDE DEF q, b, s
  <1>5. CASE st' = [st EXCEPT ![s] = q] /\ count' = count
    BY <1>1, <1>2, <1>3, <1>5, OneQuiet
  <1>6. CASE Abort(c, [st EXCEPT ![s] = b])
    <2>1. \A t \in 1..count : Evolves(st[t], st[t]) /\ Quiet(st[t], st[t])
      BY <1>1, Facts DEF Quiet
    <2>2. \A t \in 1..count : /\ Evolves(st[t], [st EXCEPT ![s] = b][t])
                              /\ Quiet(st[t], [st EXCEPT ![s] = b][t])
      BY <1>1, <1>2, <1>3, <2>1 DEF IInv, StateOK
    <2> QED BY <1>1, <1>6, <2>2, AbortMoves
  <1> QED BY <1>4, <1>5, <1>6

\* A start message adds a stream that has no words yet.
LEMMA StartInv ==
  ASSUME Inv, NEW c \in Conns, NEW i \in Ids, StartStream(c, i)
  PROVE  Inv' /\ AllMove
  <1>1. IInv'
    BY StartIInv DEF Inv
  <1>2. /\ st \in Seq(StreamRecord) /\ Len(st) = count /\ count \in Nat
        /\ count' = count + 1 /\ st' = Append(st, NewStream(c, i))
        /\ NewStream(c, i) \in StreamRecord
    BY Facts, NewStreamInv DEF Inv, IInv, StateOK, StartStream, RecordInv
  <1>3. /\ st'[count + 1] = NewStream(c, i)
        /\ \A s \in 1..count : st'[s] = st[s]
    BY <1>2, AppendFacts
  <1>4. AllMove
    <2>1. \A s \in 1..count : st[s] \in StreamRecord /\ WordsInv(st[s]) /\ Quiet(st[s], st[s])
      BY Facts DEF Inv, AllWords, Quiet
    <2> QED BY <1>3, <2>1, QuietMoves DEF AllMove
  <1>5. AllWords'
    <2>1. \A s \in 1..(count + 1) : s \in 1..count \/ s = count + 1
      BY <1>2
    <2>2. \A s \in 1..count' : WordsInv(st'[s])
      BY <1>2, <1>3, <1>4, <2>1, NewStreamWords DEF AllMove, Moves
    <2> QED BY <2>2 DEF AllWords
  <1> QED BY <1>1, <1>4, <1>5 DEF Inv

\* The steps that leave the streams and the dictionaries alone.
LEMMA AsideInv ==
  ASSUME Inv, \/ \E c \in Conns : \/ Hello(c) \/ StartBeforeHello(c)
                                  \/ OtherMessage(c) \/ TimePasses(c)
              \/ Idle \/ UNCHANGED vars
  PROVE  IInv' /\ AllMove
  <1>1. /\ UNCHANGED <<table, count, fed, st>>
        /\ \/ open' = open
           \/ \E c \in Conns : ~hello[c] /\ open' = [open EXCEPT ![c] = FALSE]
        /\ \/ hello' = hello
           \/ \E c \in Conns : hello' = [hello EXCEPT ![c] = TRUE]
        /\ idle' \in [Conns -> BOOLEAN] /\ IInv
    BY DEF Hello, StartBeforeHello, OtherMessage, TimePasses, Heard, Idle, vars,
           Inv, IInv, StateOK
  <1>2. AllEvolve
    BY <1>1, Facts DEF AllEvolve, IInv, StateOK
  <1>3. /\ open' \in [Conns -> BOOLEAN] /\ hello' \in [Conns -> BOOLEAN]
        /\ \A c \in Conns : hello[c] => hello'[c]
        /\ \A c \in Conns : open[c] /\ hello[c] => open'[c]
    BY <1>1 DEF IInv, StateOK
  <1>4. StateOK'
    BY <1>1, <1>3 DEF IInv, StateOK
  <1>5. ASSUME NEW s \in 1..count, Live(s) PROVE open'[st[s].conn]
    <2>1. st[s].conn \in Conns /\ st[s].id \in Ids /\ s # NoStream
      BY <1>1, Facts, NoStreamAssumption
    <2>2. open[st[s].conn] /\ table[st[s].conn][st[s].id] = s
      BY <1>1, <1>5 DEF IInv, TableInv
    <2>3. hello[st[s].conn]
      BY <1>1, <2>1, <2>2 DEF IInv, TableInv
    <2> QED BY <1>3, <2>1, <2>2, <2>3
  <1>6. IInv'
    BY <1>1, <1>2, <1>3, <1>4, <1>5, TableKept
  <1> QED BY <1>1, <1>6, SameMoves

LEMMA StepInv ==
  ASSUME Inv, [Next]_vars
  PROVE  Inv' /\ AllMove
  <1>1. ASSUME IInv', AllMove, count' = count PROVE Inv' /\ AllMove
    BY <1>1 DEF Inv, AllWords, AllMove, Moves
  <1>2. ASSUME NEW c \in Conns, NEW i \in Ids, StartStream(c, i) PROVE Inv' /\ AllMove
    BY <1>2, StartInv
  <1>3. ASSUME NEW c \in Conns, NEW i \in Ids,
               StopMessage(c, i) \/ AudioFrame(c, i) \/ FrameBeyondMaximum(c, i)
        PROVE  Inv' /\ AllMove
    <2>1. count' = count
      BY <1>3 DEF StopMessage, AudioFrame, FrameBeyondMaximum, Abort
    <2> QED BY <1>1, <1>3, <2>1, StopInv, FrameInv, MaximumInv
  <1>4. ASSUME NEW c \in Conns, Inactivity(c) \/ InactivityFails(c) \/ Close(c)
        PROVE  Inv' /\ AllMove
    <2>1. count' = count
      BY <1>4 DEF Inactivity, InactivityFails, Close, Abort
    <2> QED BY <1>1, <1>4, <2>1, InactivityInv, CloseInv
  <1>5. ASSUME NEW s \in 1..count, Recognize(s) \/ Pipeline(s) PROVE Inv' /\ AllMove
    <2>1. count' = count
      BY <1>5 DEF Recognize, Pipeline, Ends, TaskBegins, TaskWithoutWorker, FinishEnter,
                  FinishReturned, Answered, Conclude
    <2> QED BY <1>1, <1>5, <2>1, RecognizeInv, PipelineInv
  <1>6. ASSUME \/ \E c \in Conns : \/ Hello(c) \/ StartBeforeHello(c)
                                   \/ OtherMessage(c) \/ TimePasses(c)
               \/ Idle \/ UNCHANGED vars
        PROVE  Inv' /\ AllMove
    <2>1. count' = count
      BY <1>6 DEF Hello, StartBeforeHello, OtherMessage, TimePasses, Idle, vars
    <2> QED BY <1>1, <1>6, <2>1, AsideInv
  <1> QED BY <1>2, <1>3, <1>4, <1>5, <1>6 DEF Next, Message

-----------------------------------------------------------------------------
(* The theorems *)

LEMMA Invariance == Spec => []Inv
  <1>1. Init => Inv
    <2> SUFFICES ASSUME Init PROVE Inv
      OBVIOUS
    <2>1. /\ count = 0 /\ st = <<>> /\ fed = 0
          /\ open \in [Conns -> BOOLEAN] /\ hello \in [Conns -> BOOLEAN]
          /\ idle \in [Conns -> BOOLEAN]
          /\ table \in [Conns -> [Ids -> Stream \cup {NoStream}]]
          /\ \A c \in Conns, i \in Ids : table[c][i] = NoStream
      BY DEF Init
    <2>2. StateOK
      BY <2>1, BoundsAssumption DEF StateOK
    <2>3. TableInv
      BY <2>1 DEF TableInv
    <2> QED BY <2>1, <2>2, <2>3 DEF Inv, IInv, AllWords
  <1>2. Inv /\ [Next]_vars => Inv'
    BY StepInv
  <1> QED BY <1>1, <1>2, PTL DEF Spec

\* Types hold, and the table and the tasks agree with the streams.
THEOREM TypesHold == Spec => []TypeOK
  <1>1. Inv => TypeOK
    <2> SUFFICES ASSUME IInv PROVE TypeOK
      BY DEF Inv
    <2>1. Len(st) = count
      BY Facts DEF IInv, StateOK
    <2>2. \A c \in Conns, i \in Ids :
            table[c][i] # NoStream =>
              table[c][i] <= count /\ st[table[c][i]].conn = c /\ st[table[c][i]].id = i
      BY Facts
    <2>3. \A s \in 1..count : st[s].worker \in {"finishing", "draining"} => st[s].task = "asr"
      BY Facts DEF RecordInv
    <2> QED BY <2>1, <2>2, <2>3 DEF TypeOK, IInv, StateOK
  <1> QED BY Invariance, <1>1, PTL

\* Whatever order a stream's endings come in, it is written once and has one
\* pipeline at most.
THEOREM WrittenAndAnsweredOnce == Spec => []OneRecordingOneReply
  <1>1. Inv => OneRecordingOneReply
    <2> SUFFICES ASSUME Inv, NEW s \in 1..count PROVE st[s].written <= 1 /\ st[s].tasks <= 1
      BY DEF OneRecordingOneReply
    <2> QED BY DEF Inv, IInv, RecordInv
  <1> QED BY Invariance, <1>1, PTL

\* Between its connection's end and its own, a stream that the server has not lost
\* sight of has been finalized or has a task that will do it.
LEMMA ClosedIsFinalized ==
  ASSUME IInv, NEW s \in 1..count, ~open[st[s].conn], Settled(st[s]), ~Forsaken(s)
  PROVE  st[s].finalized
  <1>1. ~Live(s) /\ RecordInv(st[s])
    BY DEF IInv, TableInv
  <1> QED BY <1>1 DEF Live, Settled, RecordInv

\* A stream is finalized when its connection is gone and its task is done.
THEOREM ClosureFinalizes == Spec => []ClosureEndsStreams
  <1>1. Inv => ClosureEndsStreams
    BY ClosedIsFinalized DEF ClosureEndsStreams, Inv
  <1> QED BY Invariance, <1>1, PTL

\* A stream that has ended and has no task pending has no worker, but for one that
\* finish() gave up on and the cases of a failed write.
THEOREM WorkersEnd == Spec => []NoWorkerLeaks
  <1>1. Inv => NoWorkerLeaks
    <2> SUFFICES ASSUME IInv, NEW s \in 1..count,
                        st[s].finalized \/ ~open[st[s].conn], Settled(st[s]),
                        st[s].worker \in Alive, ~Forsaken(s)
                 PROVE  st[s].broken # "no" /\ st[s].task = "none"
      BY DEF NoWorkerLeaks, Inv
    <2>1. st[s].finalized /\ RecordInv(st[s])
      BY ClosedIsFinalized DEF IInv
    <2> QED BY <2>1 DEF RecordInv, Settled
  <1> QED BY Invariance, <1>1, PTL

\* What is put to the LLM is the utterances in their order, from the first one on,
\* but for what the two exceptions allow its last text.
THEOREM UtterancesInOrder == Spec => []TranscriptInOrder
  <1>1. Inv => TranscriptInOrder
    BY DEF Inv, AllWords, WordsInv, TranscriptInOrder
  <1> QED BY Invariance, <1>1, PTL

\* Unless finish() gave up, withheld a result or left one behind, every utterance
\* the recognizer has completed is in the transcript when the pipeline goes on, and
\* if there is any the LLM is asked.
THEOREM SpeechAnswered == Spec => SpeechIsAnswered
  <1>1. Inv /\ [Next]_vars => AllMove
    BY StepInv
  <1>2. AllMove =>
          \A s \in 1..count :
            LET r == st'[s]
            IN  st[s].task \in {"created", "asr"} /\ r.task \notin {"created", "asr"} /\ Intact(r)
                  => /\ \A u \in 1..r.said :
                          \E i \in 1..Len(r.accumulated) : r.accumulated[i] = u
                     /\ r.said > 0 => r.task = "llm"
    BY DEF AllMove, Moves, Covered
  <1> QED BY Invariance, <1>1, <1>2, PTL DEF Spec, SpeechIsAnswered

-----------------------------------------------------------------------------
(* That a stream ends, without fairness *)

\* A stream that is not finalized has something that will: its connection is open
\* and lists it, so that a stop, the endpoint, the maximum, a recv that times out
\* or the end of the connection finds it; or its pipeline is on its way to do it,
\* and awaits nothing but finish().
NeverForgotten ==
  \A s \in 1..count :
    ~st[s].finalized /\ ~Forsaken(s) =>
      \/ open[st[s].conn] /\ s \in Entries(st[s].conn)
      \/ st[s].task \in {"created", "asr"}

\* Whatever stop, frames, timeouts, pipelines and closures do, a stream the server
\* has not lost sight of always has a way to its end.
THEOREM StreamsNeverForgotten == Spec => []NeverForgotten
  <1>1. Inv => NeverForgotten
    <2> SUFFICES ASSUME IInv, NEW s \in 1..count, ~st[s].finalized, ~Forsaken(s),
                        st[s].task \notin {"created", "asr"}
                 PROVE  open[st[s].conn] /\ s \in Entries(st[s].conn)
      BY DEF NeverForgotten, Inv
    <2>1. RecordInv(st[s])
      BY DEF IInv
    <2>2. ~st[s].finalizing /\ st[s].id \in Ids
      BY <2>1 DEF RecordInv, StreamRecord
    <2>3. Live(s)
      BY <2>2 DEF Live
    <2>4. open[st[s].conn] /\ table[st[s].conn][st[s].id] = s
      BY <2>3 DEF IInv, TableInv
    <2>5. s # NoStream
      BY Facts, NoStreamAssumption
    <2> QED BY <2>2, <2>4, <2>5 DEF Entries
  <1> QED BY Invariance, <1>1, PTL
=============================================================================
