---------------------------- MODULE MCRequestPool ----------------------------
(* Instances of RequestPool for TLC: the values are all in the .cfg files. *)
EXTENDS RequestPool
=============================================================================
