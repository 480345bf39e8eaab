-------------------------- MODULE MCResponsePipeline --------------------------
(* Instances of ResponsePipeline for TLC; the .cfg files give the constants. *)
EXTENDS ResponsePipeline, TLC

CONSTANTS s1, s2, s3, c1, c2

\* Two streams of one connection, and one of another.
MCConnOf == (s1 :> c1) @@ (s2 :> c1) @@ (s3 :> c2)
=============================================================================
