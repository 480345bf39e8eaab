--------------------------- MODULE MCStreamAudio ---------------------------
(* Instances of StreamAudio for TLC; the .cfg files give the constants. *)
EXTENDS StreamAudio
=============================================================================
