------------------------------- MODULE RunLife -------------------------------
(***************************************************************************)
(* What a run of an agent promises to the rest of the program: a job that  *)
(* is started at most MAX_ATTEMPTS times on its own, and once more each    *)
(* time its user resumes it, and that only its user wakes once it is       *)
(* settled.  No processes, leases, tokens or tasks: AgentRuns implements   *)
(* this.  Every run is a machine of its own.                               *)
(***************************************************************************)
EXTENDS Naturals

CONSTANTS Runs, MAX_ATTEMPTS

VARIABLES
    status,      \* [Runs -> status]
    attempts,    \* [Runs -> Nat]: starts since creation or the last retry
    resumes      \* [Runs -> Nat]: resumptions since then

vars == <<status, attempts, resumes>>

Open    == {"pending", "queued", "running"}
Settled == {"completed", "failed", "cancelled", "paused"}

Budget(r) == MAX_ATTEMPTS + resumes[r]

\* The run's part of the next state.
Becomes(r, s, a, g) == status'[r] = s /\ attempts'[r] = a /\ resumes'[r] = g

Create(r) ==
    /\ status[r] = "none"
    /\ \E s \in {"queued", "pending"} : Becomes(r, s, 0, resumes[r])

Start(r) ==
    /\ status[r] = "pending" /\ attempts[r] < Budget(r)
    /\ Becomes(r, "running", attempts[r] + 1, resumes[r])

\* There is room for a run that waited; or its executor is gone.
Requeue(r) ==
    /\ status[r] = "queued" \/ (status[r] = "running" /\ attempts[r] < MAX_ATTEMPTS)
    /\ Becomes(r, "pending", attempts[r], resumes[r])

Settle(r) ==
    /\ status[r] \in Open
    /\ \E s \in Settled : Becomes(r, s, attempts[r], resumes[r])

Resume(r) ==
    /\ status[r] = "paused"
    /\ Becomes(r, "pending", attempts[r], resumes[r] + 1)

Retry(r) ==
    /\ status[r] = "failed"
    /\ Becomes(r, "pending", 0, 0)

Idle(r) == Becomes(r, status[r], attempts[r], resumes[r])

Step(r) ==
    \/ Create(r) \/ Start(r) \/ Requeue(r) \/ Settle(r) \/ Resume(r) \/ Retry(r)
    \/ Idle(r)

Init ==
    /\ status = [r \in Runs |-> "none"]
    /\ attempts = [r \in Runs |-> 0]
    /\ resumes = [r \in Runs |-> 0]

Next == \A r \in Runs : Step(r)

Spec == Init /\ [][Next]_vars
=============================================================================
