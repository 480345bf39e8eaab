------------------------------ MODULE Transcript ------------------------------
(***************************************************************************)
(* What speech recognition promises to the one who feeds it: the chunks of *)
(* a stream are cut into utterances, from left to right, and a chunk that  *)
(* is in an utterance, or was dropped, stays what it is.                   *)
(***************************************************************************)
EXTENDS Naturals

VARIABLES
  heard,       \* how many chunks were fed, numbered from 1
  open,        \* the chunks of no utterance yet
  utterances,  \* the sets of chunks whose words are final
  dropped      \* the chunks nothing was made of

transcriptVars == <<heard, open, utterances, dropped>>

Init == heard = 0 /\ open = {} /\ utterances = {} /\ dropped = {}

Hear ==
  /\ heard' = heard + 1 /\ open' = open \cup {heard + 1}
  /\ UNCHANGED <<utterances, dropped>>

Drop(c) ==
  /\ c \in open
  /\ open' = open \ {c} /\ dropped' = dropped \cup {c}
  /\ UNCHANGED <<heard, utterances>>

\* All that is open up to chunk c becomes an utterance.
Close(c) ==
  /\ LET utterance == {k \in open : k <= c}
     IN  open' = open \ utterance /\ utterances' = utterances \cup {utterance}
  /\ UNCHANGED <<heard, dropped>>

Next == Hear \/ (\E c \in 0..heard : Drop(c) \/ Close(c))

Spec == Init /\ [][Next]_transcriptVars
=============================================================================
