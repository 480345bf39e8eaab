---------------------------- MODULE KeywordEngine ----------------------------
(***************************************************************************)
(* firmware/main/kws_engine.c: the smoothing window and the trigger latch  *)
(* of the keyword engine.  What features, weights and sigmoid make of a    *)
(* frame is its raw score, here a small integer; the average is compared   *)
(* with the threshold without dividing, so exactly, where the code adds    *)
(* floats.  t_detect_us is never read and left out.                        *)
(***************************************************************************)
EXTENDS Integers, Sequences
LOCAL INSTANCE Functions

CONSTANTS Score,      \* the raw scores of frames
          Window,     \* KWS_TEMPORAL_WINDOW
          Threshold   \* the threshold, on the scale of Score

ASSUME EngineAssumption ==
  Score \subseteq Nat /\ 0 \in Score /\ Window \in Nat \ {0} /\ Threshold \in Nat

VARIABLES
  history, history_idx, history_count, is_triggered, \* the fields of those names
  scored   \* history: the scores since the last reset, the latest Window of them

engineVars == <<history, history_idx, history_count, is_triggered, scored>>

Cleared == [i \in 0..(Window - 1) |-> 0]

EngineInit ==
  /\ history = Cleared /\ history_idx = 0 /\ history_count = 0
  /\ is_triggered = FALSE /\ scored = <<>>

\* history and history_count with one more score.
Recorded(score) == [history EXCEPT ![history_idx] = score]
CountAfter == IF history_count < Window THEN history_count + 1 ELSE history_count

\* smoothed_confidence >= threshold
Confident(scores, n) == SumFunctionOnSet(scores, 0..(n - 1)) >= Threshold * n

\* kws_engine_process_frame returns true.
Triggers(score) == ~is_triggered /\ Confident(Recorded(score), CountAfter)

ProcessFrame(score) ==
  /\ history' = Recorded(score)
  /\ history_idx' = (history_idx + 1) % Window
  /\ history_count' = CountAfter
  /\ is_triggered' = (is_triggered \/ Triggers(score))
  /\ scored' = LET longer == Append(scored, score)
               IN  IF Len(longer) <= Window THEN longer ELSE Tail(longer)

\* Mutant: the reset forgets the index.
IdxKept == history_idx

IdxAfterReset == 0

\* kws_engine_reset_trigger
ResetTrigger ==
  /\ history' = Cleared /\ history_idx' = IdxAfterReset /\ history_count' = 0
  /\ is_triggered' = FALSE
  /\ scored' = <<>>

EngineOK ==
  /\ history \in [0..(Window - 1) -> Score]
  /\ history_idx \in 0..(Window - 1)
  /\ history_count \in 0..Window
  /\ is_triggered \in BOOLEAN
  /\ scored \in Seq(Score)

\* The confidence is the average of the latest scores since the last stream,
\* wherever in its window a stream cut the engine off: the slots that are summed
\* hold these scores, each in a slot of its own, and nothing from before.
SmoothsLatest ==
  /\ history_count = Len(scored)
  /\ \E slot \in [1..history_count -> 0..(history_count - 1)] :
       /\ \A i, j \in 1..history_count : slot[i] = slot[j] => i = j
       /\ \A i \in 1..history_count : scored[i] = history[slot[i]]
=============================================================================
