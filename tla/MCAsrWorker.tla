---------------------------- MODULE MCAsrWorker ----------------------------
(* Instances of AsrWorker for TLC; the .cfg files give the constants. *)
EXTENDS AsrWorker
=============================================================================
