----------------------------- MODULE StreamAudio -----------------------------
(***************************************************************************)
(* The audio path of one stream of backend/server.py: VoiceServer._audio,  *)
(* with EndpointDetector, from a well-formed binary frame to its place in  *)
(* the recording.  Lengths and offsets are in samples.  A frame is its     *)
(* sample offset, its FIRST flag and whether its energy is above the       *)
(* speech threshold.  The counters gaps, bad and *_result_count are only   *)
(* logged and left out; the asr feed is one 640-byte chunk per accepted    *)
(* frame (PCMFrameBuffer never holds a remainder of a 640-byte payload),   *)
(* and what becomes of a chunk is module AsrWorker.                        *)
(***************************************************************************)
EXTENDS Integers, Sequences

CONSTANTS FrameSamples,   \* SAMPLES_PER_FRAME
          MaxSamples,     \* MAX_STREAM_SECONDS * SAMPLE_RATE
          MaxGap,         \* MAX_GAP_SAMPLES
          SilenceFrames,  \* ENDPOINT_SILENCE_FRAMES
          MaxOffset       \* largest sample offset a frame carries

ASSUME SizesAssumption ==
  /\ FrameSamples \in Nat \ {0}
  /\ MaxSamples \in Nat /\ FrameSamples <= MaxSamples
  /\ MaxGap \in Nat
  /\ SilenceFrames \in Nat \ {0}
  /\ MaxOffset \in Nat

Frame == [offset : 0..MaxOffset, first : BOOLEAN, speech : BOOLEAN]

VARIABLES
  listed,                    \* the stream is in its connection's streams
  finalizing, finalized,     \* the Stream attributes
  pcmLen,                    \* len(stream.pcm), in samples
  expected,                  \* stream.expected_offset
  silenceCount, speechActive, triggered, \* the endpoint detector
  placed                     \* history: the accepted frames, each with the
                             \* position its payload got in stream.pcm

stateVars == <<listed, finalizing, finalized>>
audioVars == <<pcmLen, expected, silenceCount, speechActive, triggered, placed>>
vars == <<stateVars, audioVars>>

Init ==
  /\ listed = TRUE /\ finalizing = FALSE /\ finalized = FALSE
  /\ pcmLen = 0 /\ expected = 0
  /\ silenceCount = 0 /\ speechActive = FALSE /\ triggered = FALSE
  /\ placed = <<>>

-----------------------------------------------------------------------------
\* Mutant: a finalizing stream still records.
AdmissibleWhileFinalizing(f) == listed /\ ~finalized /\ (placed = <<>> => f.first)

\* The early returns: unknown stream, finalizing or finalized, FIRST missing.
Admissible(f) ==
  /\ listed /\ ~finalizing /\ ~finalized
  /\ placed = <<>> => f.first

Full == pcmLen + FrameSamples > MaxSamples

\* Mutant: no bound on the silence a gap may cost.
InWindowUnbounded(f) == f.offset >= expected

\* The next frame, or one after a gap that silence can fill.
InWindow(f) ==
  \/ f.offset = expected
  \/ expected < f.offset /\ f.offset <= expected + MaxGap

\* Mutant: the silence is not clipped at the end of the recording.
InsertedUnclipped(f) == f.offset - expected

\* The silence inserted before the frame, room being left for the frame itself.
Inserted(f) ==
  LET missing == f.offset - expected
      room    == MaxSamples - pcmLen - FrameSamples
  IN  IF missing <= room THEN missing ELSE room

\* Mutant: the expectation moves by one frame, as if nothing had been missing.
ExpectedIgnoresGap(f) == expected + FrameSamples

ExpectedAfter(f) == f.offset + FrameSamples

\* Mutant: speech does not restart the count.
SilenceNeverReset(speech) == IF speech THEN silenceCount ELSE silenceCount + 1

SilenceAfter(speech) == IF speech THEN 0 ELSE silenceCount + 1

\* EndpointDetector.process_frame, and what the server does when it fires.
Detect(speech) ==
  LET active == speechActive \/ speech
      fires  == active /\ ~triggered /\ SilenceAfter(speech) >= SilenceFrames
  IN  /\ silenceCount' = SilenceAfter(speech)
      /\ speechActive' = active
      /\ triggered' = (triggered \/ fires)
      /\ finalizing' = (finalizing \/ fires)

Accept(f) ==
  /\ Admissible(f) /\ ~Full /\ InWindow(f)
  /\ placed' = Append(placed, [at     |-> pcmLen + Inserted(f),
                               offset |-> f.offset,
                               speech |-> f.speech])
  /\ pcmLen' = pcmLen + Inserted(f) + FrameSamples
  /\ expected' = ExpectedAfter(f)
  /\ Detect(f.speech)
  /\ UNCHANGED <<listed, finalized>>

\* A frame that no longer fits ends the stream on the spot.
MaxDuration(f) ==
  /\ Admissible(f) /\ Full
  /\ finalizing' = TRUE /\ finalized' = TRUE /\ listed' = FALSE
  /\ UNCHANGED audioVars

\* The stop control message; a second one only forgets the stream.
Stop ==
  /\ listed
  /\ finalizing' = TRUE
  /\ listed' = ~finalizing
  /\ UNCHANGED <<finalized, audioVars>>

\* The pipeline task: the WAV is written and the stream forgotten at once.
PipelineFinalize ==
  /\ finalizing /\ ~finalized
  /\ finalized' = TRUE /\ listed' = FALSE
  /\ UNCHANGED <<finalizing, audioVars>>

\* Inactivity, or the end of the connection.
Abandon ==
  /\ listed
  /\ finalized' = TRUE /\ listed' = FALSE
  /\ UNCHANGED <<finalizing, audioVars>>

Finished == finalized /\ ~listed /\ UNCHANGED vars

Next ==
  \/ \E f \in Frame : Accept(f) \/ MaxDuration(f)
  \/ Stop \/ PipelineFinalize \/ Abandon \/ Finished

Spec == Init /\ [][Next]_vars

-----------------------------------------------------------------------------
(* Properties *)

Entry == [at : 0..MaxSamples, offset : 0..MaxOffset, speech : BOOLEAN]

TypeOK ==
  /\ listed \in BOOLEAN /\ finalizing \in BOOLEAN /\ finalized \in BOOLEAN
  /\ pcmLen \in 0..MaxSamples
  /\ expected \in 0..(MaxOffset + FrameSamples)
  /\ silenceCount \in Nat /\ speechActive \in BOOLEAN /\ triggered \in BOOLEAN
  /\ placed \in Seq(Entry)

\* Every accepted frame lies in the recording at its own sample offset, however
\* many frames before it were lost, repeated or reordered; only the last frame
\* of a full recording may lie earlier, pulled back to its end.
PlacedAtOffset ==
  \A i \in 1..Len(placed) :
    \/ placed[i].at = placed[i].offset
    \/ /\ i = Len(placed)
       /\ placed[i].at + FrameSamples = MaxSamples
       /\ placed[i].at < placed[i].offset

End(i) == placed[i].at + FrameSamples

\* The frames follow one another without overlap, at most MaxGap samples of
\* silence apart, and fill the recording to its end: a retransmitted frame is
\* never recorded twice and a wild offset never turns into minutes of silence.
Contiguous ==
  /\ \A i \in 1..Len(placed) :
       LET before == IF i = 1 THEN 0 ELSE End(i - 1)
       IN  before <= placed[i].at /\ placed[i].at <= before + MaxGap
  /\ pcmLen = IF placed = <<>> THEN 0 ELSE End(Len(placed))

\* The reference: some speech, then SilenceFrames frames without any.
EndsInSilence(frames) ==
  LET n == Len(frames)
  IN  /\ n > SilenceFrames
      /\ \A i \in (n - SilenceFrames + 1)..n : ~frames[i].speech
      /\ \E i \in 1..(n - SilenceFrames) : frames[i].speech

\* The endpoint is declared exactly when the recording first ends in enough
\* silence after speech, and the recording then stays as it was: neither a pause
\* inside the utterance nor silence before it counts, and nothing said during
\* the finalization is added.
EndpointExact == triggered <=> EndsInSilence(placed)
=============================================================================
