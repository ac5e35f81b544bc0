--------------------------- MODULE MCBlueGreenSwap ---------------------------
(* Instances of BlueGreenSwap for TLC. *)
EXTENDS BlueGreenSwap

\* Two mishaps of either kind, and after the second one command in flight at a time.
TwoMishaps ==
    /\ faults + cancels <= 2
    /\ faults + cancels = 2 => \A c, d \in flying : c = d
=============================================================================
