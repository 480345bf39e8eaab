----------------------------- MODULE AudioWindow -----------------------------
(***************************************************************************)
(* What the pre-buffer of the firmware promises: it remembers the latest   *)
(* Capacity frames, in the order they were captured, and shows the latest  *)
(* few of them.                                                            *)
(***************************************************************************)
EXTENDS Integers, Sequences

CONSTANTS Frame,     \* 20 ms of audio
          Zero,      \* a frame of silence
          Capacity   \* RING_BUFFER_CAPACITY_FRAMES

VARIABLE recent  \* the frames remembered, oldest first

Remember(s) == IF Len(s) <= Capacity THEN s ELSE Tail(s)

Init == recent = <<>>
Push(f) == recent' = Remember(Append(recent, f))
Next == \E f \in Frame : Push(f)
Spec == Init /\ [][Next]_recent

\* The latest n frames, silence standing in for those before the first.
Latest(n) ==
  [i \in 1..n |-> LET k == Len(recent) - n + i IN IF k >= 1 THEN recent[k] ELSE Zero]
=============================================================================
