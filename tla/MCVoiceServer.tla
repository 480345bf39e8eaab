--------------------------- MODULE MCVoiceServer ---------------------------
(* Instances of VoiceServer for TLC; the .cfg files give the constants. *)
EXTENDS VoiceServer
=============================================================================
