------------------------------ MODULE AudioRing ------------------------------
(***************************************************************************)
(* firmware/main/audio_ring_buffer.c: the circular pre-buffer the audio    *)
(* task pushes every captured frame into.  total_frames is written and     *)
(* never read, and is left out.                                            *)
(***************************************************************************)
EXTENDS Integers, Sequences

CONSTANTS Frame, Zero, Capacity

ASSUME CapacityAssumption == Capacity \in Nat \ {0}
ASSUME ZeroAssumption == Zero \in Frame

VARIABLES buffer, write_idx, count
ringVars == <<buffer, write_idx, count>>

Slot == 0..(Capacity - 1)

\* audio_ring_buffer_init
RingInit ==
  /\ buffer = [s \in Slot |-> Zero]
  /\ write_idx = 0 /\ count = 0

\* Mutant: the index is wrapped one slot early.
NextSlotEarly(s) == IF s >= Capacity - 2 THEN 0 ELSE s + 1

NextSlot(s) == (s + 1) % Capacity

\* Mutant: the count is not held at the capacity.
CountAfterPushUnbounded == count + 1

CountAfterPush == IF count < Capacity THEN count + 1 ELSE count

\* audio_ring_buffer_push
Push(f) ==
  /\ buffer' = [buffer EXCEPT ![write_idx] = f]
  /\ write_idx' = NextSlot(write_idx)
  /\ count' = CountAfterPush

RingNext == \E f \in Frame : Push(f)
RingSpec == RingInit /\ [][RingNext]_ringVars

\* The slot of the oldest of the n latest frames.
StartSlot(n) == (write_idx + Capacity - n) % Capacity

\* Mutant: short of frames, the copy starts at the front of the output.
PaddingNone(n) == 0

\* How much of the output is zeroed first.
Padding(n) == IF n > count THEN n - count ELSE 0

\* audio_ring_buffer_extract_recent: the output buffer after a call for n frames.
Extract(n) ==
  LET taken == IF n < count THEN n ELSE count
  IN  [i \in 1..n |->
         LET k == i - Padding(n)
         IN  IF k >= 1 /\ k <= taken
               THEN buffer[(StartSlot(taken) + k - 1) % Capacity]
               ELSE Zero]

-----------------------------------------------------------------------------
(* Properties *)

RingOK ==
  /\ buffer \in [Slot -> Frame]
  /\ write_idx \in Slot
  /\ count \in 0..Capacity
  /\ count < Capacity => write_idx = count

\* The ring read from its oldest frame: the refinement mapping.
Contents == [i \in 1..count |-> buffer[(StartSlot(count) + i - 1) % Capacity]]

Past == INSTANCE AudioWindow WITH recent <- Contents

\* The ring is a window on the latest frames: a push of the code is a push of
\* the window, before the ring is full, at the wrap and after it.
RefinesWindow == Past!Spec

\* Any extraction, also of more frames than the ring has or could have, shows
\* the latest frames in the order of capture, padded with silence at the front.
ExtractsLatest == \A n \in 1..(Capacity + 1) : Extract(n) = Past!Latest(n)
=============================================================================
