------------------------------- MODULE MCWakes -------------------------------
(* Instances of Wakes for TLC. *)
EXTENDS Wakes
=============================================================================
