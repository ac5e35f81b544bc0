----------------------------- MODULE MCPageWatch -----------------------------
(* Instances of PageWatch for TLC. *)
EXTENDS PageWatch
=============================================================================
