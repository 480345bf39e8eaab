---------------------------- MODULE MCEdgeDevice ----------------------------
(* Instances of EdgeDevice for TLC; the .cfg files give the constants. *)
EXTENDS EdgeDevice

MCFrame == [captured : 0..Cycle, lost : 0..MaxLost]
MCZero  == [captured |-> 0, lost |-> 0]
=============================================================================
