--------------------------- MODULE AudioRingProofs ---------------------------
(* Theorems about AudioRing, for every capacity and every set of frames. *)
EXTENDS AudioRing, SequenceTheorems, TLAPS

\* An index that has passed the end of the ring once at most.
LEMMA Wrap ==
  ASSUME NEW a \in Nat, a < 2 * Capacity
  PROVE  a % Capacity = IF a < Capacity THEN a ELSE a - Capacity
  <1> USE CapacityAssumption
  <1>1. CASE a < Capacity
    BY <1>1
  <1>2. CASE a >= Capacity
    BY <1>2
  <1> QED BY <1>1, <1>2

\* The oldest of the n latest frames, for n up to the capacity.
LEMMA StartSlotValue ==
  ASSUME RingOK, NEW n \in 0..Capacity
  PROVE  StartSlot(n) = IF n <= write_idx THEN write_idx - n ELSE write_idx + Capacity - n
  <1> USE CapacityAssumption DEF RingOK, Slot
  <1> DEFINE a == write_idx + Capacity - n
  <1>1. a \in Nat /\ a < 2 * Capacity /\ (a < Capacity <=> write_idx < n)
        /\ (n <= write_idx => a - Capacity = write_idx - n)
    OBVIOUS
  <1>2. StartSlot(n) = a % Capacity
    BY DEF StartSlot
  <1> HIDE DEF a
  <1>3. a % Capacity = IF a < Capacity THEN a ELSE a - Capacity
    BY <1>1, Wrap
  <1>4. CASE n <= write_idx
    BY <1>1, <1>2, <1>3, <1>4
  <1>5. CASE write_idx < n
    BY <1>1, <1>2, <1>3, <1>5 DEF a
  <1> QED BY <1>4, <1>5

\* The slot of the i-th frame of the contents.
SlotOf(i) == IF count < Capacity THEN i - 1
             ELSE IF write_idx + i - 1 < Capacity THEN write_idx + i - 1
             ELSE write_idx + i - 1 - Capacity

\* The contents by slot: a ring not yet full starts at slot 0, a full one at the slot to be written.
ContentsBySlot ==
  /\ Contents \in Seq(Frame) /\ Len(Contents) = count
  /\ \A i \in 1..count : SlotOf(i) \in Slot /\ Contents[i] = buffer[SlotOf(i)]

\* So the contents are where the code reads them, within the ring.
LEMMA ContentsValue == RingOK => ContentsBySlot
  <1> SUFFICES ASSUME RingOK PROVE ContentsBySlot
    OBVIOUS
  <1> USE CapacityAssumption
  <1>1. count \in Nat /\ write_idx \in Nat /\ write_idx < Capacity /\ count <= Capacity
        /\ (count < Capacity => write_idx = count)
    BY DEF RingOK, Slot
  <1>2. StartSlot(count) = IF count < Capacity THEN 0 ELSE write_idx
    BY <1>1, StartSlotValue
  <1>3. ASSUME NEW i \in 1..count
        PROVE  /\ (StartSlot(count) + i - 1) % Capacity = SlotOf(i)
               /\ SlotOf(i) \in Slot
    <2> DEFINE a == StartSlot(count) + i - 1
    <2>1. a \in Nat /\ a < 2 * Capacity
          /\ SlotOf(i) = IF a < Capacity THEN a ELSE a - Capacity
      BY <1>1, <1>2 DEF SlotOf
    <2> HIDE DEF a
    <2>2. a % Capacity = SlotOf(i)
      BY <2>1, Wrap
    <2>3. SlotOf(i) \in Slot
      BY <1>1, <2>1 DEF Slot
    <2> QED BY <2>2, <2>3 DEF a
  <1>4. Contents = [i \in 1..count |-> buffer[SlotOf(i)]]
    BY <1>3 DEF Contents
  <1>5. \A i \in 1..count : buffer[SlotOf(i)] \in Frame
    BY <1>3 DEF RingOK
  <1>6. Contents \in [1..count -> Frame]
    BY <1>4, <1>5
  <1>7. Contents \in Seq(Frame) /\ Len(Contents) = count
    BY <1>1, <1>6
  <1> QED BY <1>3, <1>4, <1>7 DEF ContentsBySlot

\* The types hold initially ...
LEMMA RingInitTypes == RingInit => RingOK
  BY CapacityAssumption, ZeroAssumption DEF RingInit, RingOK, Slot

\* ... and after every push.
LEMMA PushTypes == ASSUME RingOK, NEW f \in Frame, Push(f) PROVE RingOK'
  <1> USE CapacityAssumption
  <1>1. write_idx \in Nat /\ write_idx < Capacity /\ count \in Nat /\ count <= Capacity
    BY DEF RingOK, Slot
  <1>2. write_idx' = IF write_idx + 1 < Capacity THEN write_idx + 1 ELSE 0
    <2>1. (write_idx + 1) % Capacity = IF write_idx + 1 < Capacity THEN write_idx + 1
                                       ELSE write_idx + 1 - Capacity
      BY <1>1, Wrap
    <2> QED BY <1>1, <2>1 DEF Push, NextSlot
  <1>3. buffer' \in [Slot -> Frame]
    BY DEF Push, RingOK
  <1> QED BY <1>1, <1>2, <1>3 DEF Push, CountAfterPush, RingOK, Slot

\* A push of the ring is a push of the window.
LEMMA PushRefines == ASSUME RingOK, NEW f \in Frame, Push(f) PROVE Past!Push(f)
  <1> USE CapacityAssumption
  <1> DEFINE longer == Append(Contents, f)
             target == Past!Remember(longer)
  <1>1. RingOK'
    BY PushTypes
  <1>2. /\ Contents \in Seq(Frame) /\ Len(Contents) = count
        /\ \A i \in 1..count : SlotOf(i) \in Slot /\ Contents[i] = buffer[SlotOf(i)]
    BY ContentsValue DEF ContentsBySlot
  <1>3. /\ Contents' \in Seq(Frame) /\ Len(Contents') = count'
        /\ \A i \in 1..count' : SlotOf(i)' \in Slot /\ Contents'[i] = buffer'[SlotOf(i)']
    <2>1. ContentsBySlot'
      BY <1>1, ContentsValue, PTL
    <2> QED BY <2>1 DEF ContentsBySlot
  <1>4. /\ write_idx \in Nat /\ write_idx < Capacity /\ count \in Nat /\ count <= Capacity
        /\ (count < Capacity => write_idx = count)
    BY DEF RingOK, Slot
  <1>5. write_idx' = IF write_idx + 1 < Capacity THEN write_idx + 1 ELSE 0
    <2>1. (write_idx + 1) % Capacity = IF write_idx + 1 < Capacity THEN write_idx + 1
                                       ELSE write_idx + 1 - Capacity
      BY <1>4, Wrap
    <2> QED BY <1>4, <2>1 DEF Push, NextSlot
  <1>6. /\ count' = IF count < Capacity THEN count + 1 ELSE count
        /\ \A s \in Slot : buffer'[s] = IF s = write_idx THEN f ELSE buffer[s]
    BY DEF Push, CountAfterPush, RingOK
  <1>7. /\ longer \in Seq(Frame) /\ Len(longer) = count + 1
        /\ \A i \in 1..count : longer[i] = Contents[i]
        /\ longer[count + 1] = f
    BY <1>2, <1>4
  <1>8. CASE count < Capacity
    <2>1. target = longer
      BY <1>4, <1>7, <1>8 DEF Past!Remember
    <2>2. ASSUME NEW i \in 1..count' PROVE Contents'[i] = longer[i]
      <3>1. SlotOf(i)' = i - 1
        BY <1>4, <1>5, <1>6, <1>8 DEF SlotOf
      <3>2. i <= count => SlotOf(i) = i - 1
        BY <1>8 DEF SlotOf
      <3> QED BY <1>2, <1>3, <1>4, <1>6, <1>7, <1>8, <3>1, <3>2
    <2>3. Contents' = longer
      BY <1>3, <1>4, <1>6, <1>7, <1>8, <2>2, SeqEqual
    <2> QED BY <2>1, <2>3 DEF Past!Push
  <1>9. CASE count = Capacity
    <2>1. target = Tail(longer)
      BY <1>4, <1>7, <1>9 DEF Past!Remember
    <2>2. /\ Tail(longer) \in Seq(Frame) /\ Len(Tail(longer)) = count
          /\ \A i \in 1..count : Tail(longer)[i] = longer[i + 1]
      BY <1>4, <1>7, <1>9
    <2>3. ASSUME NEW i \in 1..count' PROVE Contents'[i] = Tail(longer)[i]
      <3>1. SlotOf(i)' = IF write_idx + i < Capacity THEN write_idx + i
                         ELSE write_idx + i - Capacity
        BY <1>4, <1>5, <1>6, <1>9 DEF SlotOf
      <3>2. CASE i = Capacity
        <4>1. SlotOf(i)' = write_idx /\ write_idx \in Slot
          BY <1>4, <3>1, <3>2 DEF Slot
        <4>2. Contents'[i] = f
          BY <1>3, <1>6, <4>1
        <4>3. Tail(longer)[i] = longer[count + 1]
          BY <1>4, <1>6, <1>9, <2>2, <3>2
        <4> QED BY <1>7, <4>2, <4>3
      <3>3. CASE i < Capacity
        <4>1. SlotOf(i + 1) = SlotOf(i)' /\ SlotOf(i)' # write_idx
          BY <1>4, <1>6, <1>9, <3>1, <3>3 DEF SlotOf
        <4>2. i \in 1..count /\ i + 1 \in 1..count
          BY <1>4, <1>6, <1>9, <3>3
        <4>3. Contents'[i] = buffer'[SlotOf(i)'] /\ SlotOf(i)' \in Slot
          BY <1>3
        <4>4. buffer'[SlotOf(i)'] = buffer[SlotOf(i)']
          BY <1>6, <4>1, <4>3
        <4>5. Contents[i + 1] = buffer[SlotOf(i + 1)]
          BY <1>2, <4>2
        <4>6. Tail(longer)[i] = longer[i + 1] /\ longer[i + 1] = Contents[i + 1]
          BY <1>7, <2>2, <4>2
        <4> QED BY <4>1, <4>3, <4>4, <4>5, <4>6
      <3>4. count' = Capacity
        BY <1>4, <1>6, <1>9
      <3>5. i = Capacity \/ i < Capacity
        BY <3>4
      <3> QED BY <3>2, <3>3, <3>5
    <2>4. Contents' = Tail(longer)
      BY <1>3, <1>4, <1>6, <1>9, <2>2, <2>3, SeqEqual
    <2> QED BY <2>1, <2>4 DEF Past!Push
  <1> QED BY <1>4, <1>8, <1>9

\* The types of the ring: the write index of a ring not yet full is its count.
THEOREM RingTypes == RingSpec => []RingOK
  <1>1. RingOK /\ [RingNext]_ringVars => RingOK'
    <2> SUFFICES ASSUME RingOK, [RingNext]_ringVars PROVE RingOK'
      OBVIOUS
    <2>1. CASE RingNext
      BY <2>1, PushTypes DEF RingNext
    <2>2. CASE UNCHANGED ringVars
      BY <2>2 DEF ringVars, RingOK
    <2> QED BY <2>1, <2>2
  <1> QED BY RingInitTypes, <1>1, PTL DEF RingSpec

\* The circular buffer implements the window on the latest Capacity frames.
THEOREM RingIsWindow == RingSpec => RefinesWindow
  <1>1. RingInit => Past!Init
    <2> SUFFICES ASSUME RingInit PROVE Contents = <<>>
      BY DEF Past!Init
    <2>1. count = 0 /\ RingOK
      BY RingInitTypes DEF RingInit
    <2>2. Contents \in Seq(Frame) /\ Len(Contents) = 0
      BY <2>1, ContentsValue DEF ContentsBySlot
    <2> QED BY <2>2
  <1>2. RingOK /\ [RingNext]_ringVars => [Past!Next]_Contents
    <2> SUFFICES ASSUME RingOK, [RingNext]_ringVars PROVE [Past!Next]_Contents
      OBVIOUS
    <2>1. CASE RingNext
      BY <2>1, PushRefines DEF RingNext, Past!Next
    <2>2. CASE UNCHANGED ringVars
      BY <2>2 DEF ringVars, Contents, StartSlot
    <2> QED BY <2>1, <2>2
  <1> QED BY RingTypes, <1>1, <1>2, PTL DEF RingSpec, RefinesWindow, Past!Spec

\* Where an extraction of n frames reads its i-th one is where the contents have
\* the frame that many before the latest.
LEMMA ExtractSlot ==
  ASSUME RingOK, NEW n \in Nat \ {0}, NEW i \in 1..n, count - n + i >= 1
  PROVE  LET taken == IF n < count THEN n ELSE count
             k     == i - Padding(n)
         IN  /\ k >= 1 /\ k <= taken
             /\ (StartSlot(taken) + k - 1) % Capacity = SlotOf(count - n + i)
  <1> DEFINE taken == IF n < count THEN n ELSE count
             k     == i - Padding(n)
             a     == StartSlot(taken) + k - 1
  <1> USE CapacityAssumption
  <1>1. count \in Nat /\ write_idx \in Nat /\ write_idx < Capacity /\ count <= Capacity
        /\ (count < Capacity => write_idx = count)
    BY DEF RingOK, Slot
  <1>2. k = (IF n > count THEN count - n + i ELSE i) /\ k >= 1 /\ k <= taken
    BY <1>1 DEF Padding
  <1>3. taken \in 0..Capacity
    BY <1>1
  <1>4. StartSlot(taken) = IF taken <= write_idx THEN write_idx - taken
                           ELSE write_idx + Capacity - taken
    BY <1>3, StartSlotValue
  <1>5. a \in Nat /\ a < 2 * Capacity
    BY <1>1, <1>2, <1>3, <1>4
  <1>6. SlotOf(count - n + i) = IF a < Capacity THEN a ELSE a - Capacity
    BY <1>1, <1>2, <1>3, <1>4 DEF SlotOf
  <1> HIDE DEF a
  <1>7. a % Capacity = SlotOf(count - n + i)
    BY <1>5, <1>6, Wrap
  <1> QED BY <1>2, <1>7 DEF a

\* So the latest frames are what an extraction shows of a well-formed ring.
LEMMA RingShowsLatest == RingOK => ExtractsLatest
  <1> SUFFICES ASSUME RingOK, NEW n \in 1..(Capacity + 1)
               PROVE  Extract(n) = Past!Latest(n)
    BY DEF ExtractsLatest
  <1> DEFINE taken == IF n < count THEN n ELSE count
  <1>1. n \in Nat \ {0} /\ count \in Nat
    BY CapacityAssumption DEF RingOK
  <1>2. /\ Len(Contents) = count
        /\ \A j \in 1..count : Contents[j] = buffer[SlotOf(j)]
    BY ContentsValue DEF ContentsBySlot
  <1>3. ASSUME NEW i \in 1..n PROVE Extract(n)[i] = Past!Latest(n)[i]
    <2>1. CASE count - n + i >= 1
      <3>1. /\ i - Padding(n) >= 1 /\ i - Padding(n) <= taken
            /\ (StartSlot(taken) + (i - Padding(n)) - 1) % Capacity
                 = SlotOf(count - n + i)
        BY <1>1, <2>1, ExtractSlot
      <3>2. count - n + i \in 1..count
        BY <1>1, <2>1
      <3>3. Extract(n)[i] = buffer[SlotOf(count - n + i)]
        BY <3>1 DEF Extract
      <3>4. Past!Latest(n)[i] = Contents[count - n + i]
        BY <1>2, <2>1 DEF Past!Latest
      <3> QED BY <1>2, <3>2, <3>3, <3>4
    <2>2. CASE ~(count - n + i >= 1)
      <3>1. ~(i - Padding(n) >= 1)
        BY <1>1, <2>2 DEF Padding
      <3>2. Extract(n)[i] = Zero
        BY <3>1 DEF Extract
      <3>3. Past!Latest(n)[i] = Zero
        BY <1>2, <2>2 DEF Past!Latest
      <3> QED BY <3>2, <3>3
    <2> QED BY <2>1, <2>2
  <1> QED BY <1>3 DEF Extract, Past!Latest

\* Every extraction shows the latest frames in order, padded at the front.
THEOREM ExtractionShowsLatest == RingSpec => []ExtractsLatest
  BY RingTypes, RingShowsLatest, PTL
=============================================================================
