---------------------------- MODULE MCLaptopClient ----------------------------
(* Instances of LaptopClient for TLC; the .cfg files give the constants. *)
EXTENDS LaptopClient
=============================================================================
