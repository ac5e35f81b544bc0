---------------------------- MODULE MCDeployQueue ----------------------------
(* Instances of DeployQueue for TLC. *)
EXTENDS DeployQueue

\* One pair of each sort: a manual deployment, and one whose end is guarded, of the
\* same target or of another one.  Two manual ones are in the run for liveness.
ManualThenOther == of[1].kind = "manual" /\ of[2].kind # "manual"

\* A dev environment is another target: beside it, a crash or a user request, not both.
OneEventBesideDev == of[2].kind = "dev" => crashes + ops < 2
=============================================================================
