------------------------------ MODULE AgentRuns ------------------------------
(***************************************************************************)
(* The turns of the agents (table agent_runs): a run is queued or pending, *)
(* is claimed under a lease by one server process, executed, and ends      *)
(* completed, failed, cancelled or paused.  Several server processes share *)
(* the table; a process that dies leaves its leases to expire, and the     *)
(* lease watch of any process takes the run up again.                      *)
(*                                                                         *)
(* A task is one tokio task of a process; its pc is the next await of the  *)
(* handler it runs.  The live channel of a run (HUB, per process) holds    *)
(* the cancellation token its executors share; a token is named after the  *)
(* task that created it.                                                   *)
(*                                                                         *)
(* All runs are of one project, each has its own agent and thread.         *)
(***************************************************************************)
EXTENDS Integers, FiniteSets

CONSTANTS
    Procs,               \* server processes on the same database
    NumRuns,             \* bound: runs ever created
    MAX_ATTEMPTS,
    MAX_ACTIVE_WORKERS,
    Tasks,               \* bound: slots for the tasks alive at once
    MaxOps,              \* bound: user requests (pause, resume, retry, cancel)
    MaxTroubles,         \* bound: crashes, leases that lapse although their executor
                         \* runs, failed turns and failed statements, together
    MaxEvents            \* bound: requests and troubles together

Runs  == 1..NumRuns      \* numbered in the order of created_at
NoTask == "no task"
Nobody == "nobody"

ASSUME ConstantsAssumption ==
    /\ IsFiniteSet(Procs) /\ Procs # {} /\ Nobody \notin Procs
    /\ IsFiniteSet(Tasks) /\ NoTask \notin Tasks
    /\ NumRuns \in Nat /\ MaxOps \in Nat /\ MaxTroubles \in Nat /\ MaxEvents \in Nat
    /\ MAX_ATTEMPTS \in Nat \ {0} /\ MAX_ACTIVE_WORKERS \in Nat \ {0}

OPEN_STATUSES == {"pending", "queued", "running"}
Terminal == {"completed", "failed", "cancelled"}
Statuses == OPEN_STATUSES \cup Terminal \cup {"paused", "none"}

VARIABLES
    row,         \* [Runs -> kind, status, owner, lease, attempts, cancel]: agent_runs
    replied,     \* runs whose message has an assistant answer after it
    task,        \* [Tasks -> proc, run, pc, to, tok]
    hub,         \* [Procs -> [Runs -> token or NoTask]]: HUB of each process
    cancelled,   \* the cancelled tokens
    boot,        \* [Procs -> "down" | "recover" | "up"]: resume_agent_runs
    todo,        \* [Procs -> SUBSET Runs]: list_pending's rows still to be claimed
    ops, troubles,
    overtaken,   \* history: an executor may have been left behind at work, its lease
                 \* lapsed or its run resumed
    resumes      \* history: [Runs -> Nat], resumptions since creation or the last retry

vars == <<row, replied, task, hub, cancelled, boot, todo,
          ops, troubles, overtaken, resumes>>
bounds == <<ops, troubles, overtaken>>

PCs == {"off", "insert", "trigger", "claim", "check", "open", "work", "save", "finish",
        "fail", "drain", "hook", "promote", "kill", "cancel"}
Task == [proc : Procs \cup {Nobody}, run : Runs \cup {0}, pc : PCs, to : Statuses,
         tok : Tasks \cup {NoTask}]
Idle == [proc |-> Nobody, run |-> 0, pc |-> "off", to |-> "none", tok |-> NoTask]
Row  == [kind : {"chat", "worker"}, status : Statuses, owner : Procs \cup {Nobody},
         lease : {"none", "fresh", "expired"},
         attempts : Nat, cancel : BOOLEAN]
NewRow(k, s) == [kind |-> k, status |-> s, owner |-> Nobody, lease |-> "none",
                 attempts |-> 0, cancel |-> FALSE]

-----------------------------------------------------------------------------
(* Tasks and tokens.                                                       *)

\* A task slot can be reused once nobody holds the token named after it.
Free == {t \in Tasks : /\ task[t].pc = "off"
                       /\ \A u \in Tasks : task[u].tok # t
                       /\ \A p \in Procs, r \in Runs : hub[p][r] # t}
\* tokio::spawn: a new task of process p for run r.
Spawn(p, r, l, to) ==
    \E t \in Free :
        task' = [task EXCEPT ![t] = [proc |-> p, run |-> r, pc |-> l, to |-> to,
                                     tok |-> NoTask]]

\* The tokens that some task still holds.
Tokens(tk) == {tk[t].tok : t \in Tasks}

Goto(t, l) == task' = [task EXCEPT ![t].pc = l]
Ends(t)    == task' = [task EXCEPT ![t] = Idle]

\* The executor's sink task is in its loop: it renews the lease and reads cancel_requested.
Sinking(t) == task[t].pc \in {"work", "save", "finish", "fail"}
Cancelled(t) == task[t].tok \in cancelled

\* cancel_local: cancels the token of the run's live channel on process p.
CancelLocal(p, r) == cancelled' = cancelled \cup ({hub[p][r]} \ {NoTask})

Trouble  == /\ troubles < MaxTroubles /\ ops + troubles < MaxEvents
            /\ troubles' = troubles + 1
UserAsks == ops < MaxOps /\ ops + troubles < MaxEvents /\ ops' = ops + 1
Serving(p) == boot[p] # "down"

-----------------------------------------------------------------------------
(* Statements on agent_runs.                                               *)

SetRow(r, new) == row' = [row EXCEPT ![r] = new]

\* Mutant: the other spelling of the status.
FinishMisspelt(r, s) ==
    SetRow(r, IF row[r].status \in OPEN_STATUSES
                THEN [row[r] EXCEPT !.status = IF s = "cancelled" THEN "canceled" ELSE s,
                                    !.owner = Nobody, !.lease = "none"]
                ELSE row[r])

\* finish: fenced by the status only.
finish(r, s) ==
    SetRow(r, IF row[r].status \in OPEN_STATUSES
                THEN [row[r] EXCEPT !.status = s, !.owner = Nobody, !.lease = "none"]
                ELSE row[r])

\* Mutant: the attempt is not counted.
ClaimUncounted(r, p) ==
    /\ row[r].status = "pending"
    /\ SetRow(r, [row[r] EXCEPT !.status = "running", !.owner = p, !.lease = "fresh"])

\* try_claim_as: one winner, the attempt is counted.
try_claim(r, p) ==
    /\ row[r].status = "pending"
    /\ SetRow(r, [row[r] EXCEPT !.status = "running", !.owner = p, !.lease = "fresh",
                                !.attempts = @ + 1])

\* Mutant: the lease is not looked at.
RecoverLive(r) ==
    /\ row[r].status = "running"
    /\ SetRow(r, [row[r] EXCEPT
                    !.status = IF row[r].attempts >= MAX_ATTEMPTS THEN "failed" ELSE "pending",
                    !.owner = Nobody, !.lease = "none"])

\* recover_expired on one row whose lease has run out.
recover_expired(r) ==
    /\ row[r].status = "running" /\ row[r].lease = "expired"
    /\ SetRow(r, [row[r] EXCEPT
                    !.status = IF row[r].attempts >= MAX_ATTEMPTS THEN "failed" ELSE "pending",
                    !.owner = Nobody, !.lease = "none"])

Workers == {r \in Runs : row[r].kind = "worker"}
ActiveWorkers == {r \in Workers : row[r].status \in {"pending", "running"}}
QueuedWorkers == {r \in Workers : row[r].status = "queued"}
Oldest(S) == {r \in S : \A q \in S : r <= q}      \* ORDER BY created_at LIMIT 1
initial_status(active) == IF active >= MAX_ACTIVE_WORKERS THEN "queued" ELSE "pending"

-----------------------------------------------------------------------------
(* A run comes into being.                                                 *)

Uncreated == {r \in Runs : row[r].status = "none"
                           /\ \A t \in Tasks : ~(task[t].pc = "insert" /\ task[t].run = r)}

\* record_user_turn and enqueue; trigger_agent_turn goes on in the same task.
UserTurn(p) ==
    /\ Serving(p)
    /\ \E r \in Oldest(Uncreated) :
         SetRow(r, NewRow("chat", "pending")) /\ Spawn(p, r, "trigger", "none")
    /\ UNCHANGED <<replied, hub, cancelled, boot, todo, bounds, resumes>>

\* delegate_task reads the project's active workers and settles the initial status...
DelegateRead(p) ==
    /\ Serving(p)
    /\ \E r \in Oldest(Uncreated) :
         Spawn(p, r, "insert", initial_status(Cardinality(ActiveWorkers)))
    /\ UNCHANGED <<row, replied, hub, cancelled, boot, todo, bounds, resumes>>

\* ...then inserts the agent, the message and the run, and launches a pending one.
DelegateInsert(t) ==
    /\ task[t].pc = "insert"
    /\ SetRow(task[t].run, NewRow("worker", task[t].to))
    /\ IF task[t].to = "pending"
         THEN task' = [task EXCEPT ![t].pc = "claim", ![t].to = "none"]
         ELSE Ends(t)
    /\ UNCHANGED <<replied, hub, cancelled, boot, todo, bounds, resumes>>

-----------------------------------------------------------------------------
(* The executor.                                                           *)

\* trigger_agent_turn: a message that has its answer closes the run.
Trigger(t) ==
    /\ task[t].pc = "trigger"
    /\ IF task[t].run \in replied
         THEN finish(task[t].run, "completed") /\ Ends(t)
         ELSE Goto(t, "claim") /\ UNCHANGED row
    /\ UNCHANGED <<replied, hub, cancelled, boot, todo, bounds, resumes>>

\* start_run_now / trigger_agent_turn: the claim decides who executes.
Claim(t) ==
    /\ task[t].pc = "claim"
    /\ \/ try_claim(task[t].run, task[t].proc) /\ Goto(t, "open")
       \/ row[task[t].run].status # "pending" /\ Ends(t) /\ UNCHANGED row
    /\ UNCHANGED <<replied, hub, cancelled, boot, todo, bounds, resumes>>

\* resume_agent_runs, after its claim: no second answer to the same message.
Check(t) ==
    /\ task[t].pc = "check"
    /\ IF task[t].run \in replied
         THEN finish(task[t].run, "completed") /\ Ends(t)
         ELSE Goto(t, "open") /\ UNCHANGED row
    /\ UNCHANGED <<replied, hub, cancelled, boot, todo, bounds, resumes>>

\* run_events::start: the channel of the run, or a new one with a fresh token.
Open(t) ==
    LET p == task[t].proc
        r == task[t].run
    IN  /\ task[t].pc = "open"
        /\ \/ /\ hub[p][r] = NoTask
              /\ hub' = [hub EXCEPT ![p][r] = t]
              /\ cancelled' = cancelled \ {t}
              /\ task' = [task EXCEPT ![t].pc = "work", ![t].tok = t]
           \/ /\ hub[p][r] # NoTask
              /\ task' = [task EXCEPT ![t].pc = "work", ![t].tok = hub[p][r]]
              /\ UNCHANGED <<hub, cancelled>>
        /\ UNCHANGED <<row, replied, boot, todo, bounds, resumes>>

\* The agent returns: its status is the token's state at that moment; or it fails.
Work(t) ==
    /\ task[t].pc = "work"
    /\ \/ /\ task' = [task EXCEPT ![t].pc = "save",
                          ![t].to = IF Cancelled(t) THEN "cancelled" ELSE "completed"]
          /\ UNCHANGED troubles
       \/ Trouble /\ Goto(t, "fail")
    /\ UNCHANGED <<row, replied, hub, cancelled, boot, todo, ops, overtaken, resumes>>

\* save_assistant_and_finish_as: the answer is inserted whoever owns the run by now.
Save(t) ==
    /\ task[t].pc = "save"
    /\ \/ replied' = replied \cup {task[t].run} /\ Goto(t, "finish") /\ UNCHANGED troubles
       \/ Trouble /\ Goto(t, "drain") /\ UNCHANGED replied
    /\ UNCHANGED <<row, hub, cancelled, boot, todo, ops, overtaken, resumes>>

Finish(t) ==
    /\ task[t].pc = "finish"
    /\ \/ finish(task[t].run, task[t].to) /\ UNCHANGED troubles
       \/ Trouble /\ UNCHANGED row
    /\ Goto(t, "drain")
    /\ UNCHANGED <<replied, hub, cancelled, boot, todo, ops, overtaken, resumes>>

\* fail_run ignores the error of its own statement.
FailRun(t) ==
    /\ task[t].pc = "fail"
    /\ \/ finish(task[t].run, "failed") /\ UNCHANGED troubles
       \/ Trouble /\ UNCHANGED row
    /\ Goto(t, "drain")
    /\ UNCHANGED <<replied, hub, cancelled, boot, todo, ops, overtaken, resumes>>

\* The handle is dropped: the sink writes what is left and closes the run's channel,
\* whoever opened it.
Drain(t) ==
    /\ task[t].pc = "drain"
    /\ hub' = [hub EXCEPT ![task[t].proc][task[t].run] = NoTask]
    /\ task' = [task EXCEPT ![t].pc = "hook", ![t].to = "none", ![t].tok = NoTask]
    /\ cancelled' = cancelled \cap Tokens(task')
    /\ UNCHANGED <<row, replied, boot, todo, bounds, resumes>>

\* on_run_finished: a worker that ended or was paused lets promote_queued look for room...
Hook(t) ==
    /\ task[t].pc = "hook"
    /\ IF task[t].run \in Workers /\ Cardinality(ActiveWorkers) < MAX_ACTIVE_WORKERS
         THEN Goto(t, "promote")
         ELSE Ends(t)
    /\ UNCHANGED <<row, replied, hub, cancelled, boot, todo, bounds, resumes>>

\* ...and the oldest queued worker, if there is one, is started.
Promote(t) ==
    /\ task[t].pc = "promote"
    /\ \/ QueuedWorkers = {} /\ Ends(t) /\ UNCHANGED row
       \/ \E r \in Oldest(QueuedWorkers) :
            /\ SetRow(r, [row[r] EXCEPT !.status = "pending"])
            /\ task' = [task EXCEPT ![t].run = r, ![t].pc = "claim"]
    /\ UNCHANGED <<replied, hub, cancelled, boot, todo, bounds, resumes>>

\* Every 30 s, while its token is live, the sink renews the lease; a lease that is
\* another's, or a run that is no longer running, cancels the executor.
Heartbeat(t) ==
    LET r == task[t].run IN
    /\ Sinking(t) /\ ~Cancelled(t)
    /\ \/ /\ row[r].status = "running" /\ row[r].owner = task[t].proc
          /\ row[r].lease # "fresh"
          /\ SetRow(r, [row[r] EXCEPT !.lease = "fresh"])
          /\ UNCHANGED cancelled
       \/ /\ row[r].status # "running" \/ row[r].owner # task[t].proc
          /\ cancelled' = cancelled \cup {task[t].tok}
          /\ UNCHANGED row
    /\ UNCHANGED <<replied, task, hub, boot, todo, bounds, resumes>>

\* Every second the sink reads cancel_requested.
PollCancel(t) ==
    /\ Sinking(t) /\ ~Cancelled(t) /\ row[task[t].run].cancel
    /\ cancelled' = cancelled \cup {task[t].tok}
    /\ UNCHANGED <<row, replied, task, hub, boot, todo, bounds, resumes>>

-----------------------------------------------------------------------------
(* Requests of the user, served by any process.                            *)

\* control(Pause): the lease is dropped; the handler then cancels the local token.
Pause(p, r) ==
    /\ Serving(p) /\ UserAsks
    /\ row[r].status \in OPEN_STATUSES
    /\ SetRow(r, [row[r] EXCEPT !.status = "paused", !.owner = Nobody, !.lease = "none",
                                !.cancel = (row[r].status = "running")])
    /\ Spawn(p, r, "kill", "none")
    /\ UNCHANGED <<replied, hub, cancelled, boot, todo, troubles, overtaken, resumes>>

Kill(t) ==
    /\ task[t].pc = "kill"
    /\ CancelLocal(task[t].proc, task[t].run)
    /\ Ends(t)
    /\ UNCHANGED <<row, replied, hub, boot, todo, bounds, resumes>>

\* control(Resume | Retry): an answered message is followed by a new one.
Restart(p, r, attempts) ==
    /\ Serving(p) /\ UserAsks
    /\ SetRow(r, [NewRow(row[r].kind, "pending") EXCEPT !.attempts = attempts])
    /\ replied' = replied \ {r}
    /\ Spawn(p, r, "claim", "none")
    /\ UNCHANGED <<hub, cancelled, boot, todo, troubles>>

Resume(p, r) ==
    /\ row[r].status = "paused"
    /\ Restart(p, r, row[r].attempts)
    /\ overtaken' = TRUE
    /\ resumes' = [resumes EXCEPT ![r] = @ + 1]

Retry(p, r) ==
    /\ row[r].status = "failed"
    /\ Restart(p, r, 0)
    /\ UNCHANGED overtaken
    /\ resumes' = [resumes EXCEPT ![r] = 0]

\* cancel_run: the flag, for a run that the handler read as not ended...
CancelRun(p, r) ==
    /\ Serving(p) /\ UserAsks
    /\ row[r].status \notin Terminal \cup {"none"}
    /\ SetRow(r, [row[r] EXCEPT !.cancel = TRUE])
    /\ Spawn(p, r, "cancel", row[r].status)
    /\ UNCHANGED <<replied, hub, cancelled, boot, todo, troubles, overtaken, resumes>>

\* ...then the local token; a run not started anywhere is closed at once.
CancelHere(t) ==
    LET p == task[t].proc
        r == task[t].run
    IN  /\ task[t].pc = "cancel"
        /\ CancelLocal(p, r)
        /\ IF /\ hub[p][r] = NoTask
              /\ task[t].to \in {"queued", "pending"}
              /\ row[r].status \in {"queued", "pending"}
             THEN /\ SetRow(r, [row[r] EXCEPT !.status = "cancelled"])
                  /\ task' = [task EXCEPT ![t].pc = "hook", ![t].to = "none"]
             ELSE Ends(t) /\ UNCHANGED row
        /\ UNCHANGED <<replied, hub, boot, todo, bounds, resumes>>

-----------------------------------------------------------------------------
(* Time, crashes, recovery.                                                *)

\* Somebody on the owner's process keeps the lease alive, or is about to.
Kept(r) ==
    \E t \in Tasks : /\ task[t].run = r /\ task[t].proc = row[r].owner
                     /\ task[t].pc \in {"check", "open"} \/ (Sinking(t) /\ ~Cancelled(t))

\* LEASE_SECS pass without a renewal: nobody renews (no executor, or a cancelled one
\* that is slow to stop)...
Expire(r) ==
    /\ row[r].status = "running" /\ row[r].lease = "fresh" /\ ~Kept(r)
    /\ SetRow(r, [row[r] EXCEPT !.lease = "expired"])
    /\ overtaken' = (overtaken \/ \E t \in Tasks : task[t].run = r /\ Sinking(t))
    /\ UNCHANGED <<replied, task, hub, cancelled, boot, todo, ops, troubles, resumes>>

\* ...or the process was stalled.
Stall(r) ==
    /\ row[r].status = "running" /\ row[r].lease = "fresh" /\ Kept(r)
    /\ Trouble /\ overtaken' = TRUE
    /\ SetRow(r, [row[r] EXCEPT !.lease = "expired"])
    /\ UNCHANGED <<replied, task, hub, cancelled, boot, todo, ops, resumes>>

\* spawn_lease_watch: a failed run gets its end-of-run hook, a requeued one is started.
LeaseWatch(p, r) ==
    /\ boot[p] = "up"
    /\ recover_expired(r)
    /\ Spawn(p, r, IF row'[r].status = "failed" THEN "hook" ELSE "claim", "none")
    /\ UNCHANGED <<replied, hub, cancelled, boot, todo, bounds, resumes>>

Crash(p) ==
    /\ boot[p] # "down"
    /\ Trouble
    /\ boot' = [boot EXCEPT ![p] = "down"]
    /\ todo' = [todo EXCEPT ![p] = {}]
    /\ task' = [t \in Tasks |-> IF task[t].proc = p THEN Idle ELSE task[t]]
    /\ hub' = [hub EXCEPT ![p] = [r \in Runs |-> NoTask]]
    /\ cancelled' = cancelled \cap Tokens(task')
    /\ UNCHANGED <<row, replied, ops, overtaken, resumes>>

BootStart(p) ==
    /\ boot[p] = "down"
    /\ boot' = [boot EXCEPT ![p] = "recover"]
    /\ UNCHANGED <<row, replied, task, hub, cancelled, todo, bounds, resumes>>

\* resume_agent_runs: the rows whose lease has expired are taken up first...
BootRecover(p, r) ==
    /\ boot[p] = "recover"
    /\ recover_expired(r)
    /\ IF row'[r].status = "failed" THEN Spawn(p, r, "hook", "none") ELSE UNCHANGED task
    /\ UNCHANGED <<replied, hub, cancelled, boot, todo, bounds, resumes>>

\* Mutant: only the rows this boot recovered are started, not those left pending.
BootListNothing(p) ==
    /\ boot[p] = "recover"
    /\ ~\E r \in Runs : row[r].status = "running" /\ row[r].lease = "expired"
    /\ boot' = [boot EXCEPT ![p] = "up"]
    /\ UNCHANGED <<row, replied, task, hub, cancelled, todo, bounds, resumes>>

\* ...then the lease watch starts and the pending runs are listed...
BootList(p) ==
    /\ boot[p] = "recover"
    /\ ~\E r \in Runs : row[r].status = "running" /\ row[r].lease = "expired"
    /\ boot' = [boot EXCEPT ![p] = "up"]
    /\ todo' = [todo EXCEPT ![p] = {r \in Runs : row[r].status = "pending"}]
    /\ UNCHANGED <<row, replied, task, hub, cancelled, bounds, resumes>>

\* ...and claimed one by one, oldest first.
BootClaim(p) ==
    /\ \E r \in Oldest(todo[p]) :
         /\ todo' = [todo EXCEPT ![p] = @ \ {r}]
         /\ \/ try_claim(r, p) /\ Spawn(p, r, "check", "none")
            \/ row[r].status # "pending" /\ UNCHANGED <<row, task>>
    /\ UNCHANGED <<replied, hub, cancelled, boot, bounds, resumes>>

-----------------------------------------------------------------------------
Init ==
    /\ row = [r \in Runs |-> NewRow("chat", "none")]
    /\ replied = {}
    /\ task = [t \in Tasks |-> Idle]
    /\ hub = [p \in Procs |-> [r \in Runs |-> NoTask]]
    /\ cancelled = {}
    /\ boot = [p \in Procs |-> "up"]
    /\ todo = [p \in Procs |-> {}]
    /\ ops = 0 /\ troubles = 0 /\ overtaken = FALSE
    /\ resumes = [r \in Runs |-> 0]

TaskStep(t) ==
    \/ DelegateInsert(t) \/ Trigger(t) \/ Claim(t) \/ Check(t) \/ Open(t) \/ Work(t)
    \/ Save(t) \/ Finish(t) \/ FailRun(t) \/ Drain(t) \/ Hook(t) \/ Promote(t)
    \/ Kill(t) \/ CancelHere(t)
SinkStep(t) == Heartbeat(t) \/ PollCancel(t)
UserStep(p) ==
    \/ UserTurn(p) \/ DelegateRead(p)
    \/ \E r \in Runs : Pause(p, r) \/ Resume(p, r) \/ Retry(p, r) \/ CancelRun(p, r)
BootStep(p) ==
    \/ BootStart(p) \/ BootList(p) \/ BootClaim(p)
    \/ \E r \in Runs : BootRecover(p, r)

Next ==
    \/ \E t \in Tasks : TaskStep(t) \/ SinkStep(t)
    \/ \E p \in Procs : UserStep(p) \/ BootStep(p) \/ Crash(p)
                        \/ \E r \in Runs : LeaseWatch(p, r)
    \/ \E r \in Runs : Expire(r) \/ Stall(r)

Spec == Init /\ [][Next]_vars

\* tokio polls every ready task and the agent loop ends (its rounds and calls are
\* bounded); time passes; the lease watch ticks; the container is restarted.
Fairness ==
    /\ \A t \in Tasks : WF_vars(TaskStep(t))
    /\ \A p \in Procs : WF_vars(BootStep(p))
    /\ \A p \in Procs, r \in Runs : WF_vars(LeaseWatch(p, r))
    /\ \A r \in Runs : WF_vars(Expire(r))

FairSpec == Spec /\ Fairness

-----------------------------------------------------------------------------
TypeOK ==
    /\ row \in [Runs -> Row]
    /\ replied \subseteq Runs
    /\ task \in [Tasks -> Task]
    /\ hub \in [Procs -> [Runs -> Tasks \cup {NoTask}]]
    /\ cancelled \subseteq Tasks
    /\ boot \in [Procs -> {"down", "recover", "up"}]
    /\ todo \in [Procs -> SUBSET Runs]
    /\ ops \in 0..MaxOps /\ troubles \in 0..MaxTroubles /\ overtaken \in BOOLEAN
    /\ resumes \in [Runs -> Nat]

\* A run that ended or was paused stays so until the user asks: nothing ever leaves
\* completed or cancelled, only a resumption leaves paused and only a retry leaves
\* failed, whatever late executors, watches and boots still write (finish, control).
SettledIsFinal ==
    [][\A r \in Runs :
         row[r].status \in Terminal \cup {"paused"} /\ row'[r].status # row[r].status
           => /\ row[r].status \in {"paused", "failed"}
              /\ row'[r].status = "pending"
              /\ ops' = ops + 1]_vars

\* A run that keeps killing its process is not restarted for ever: it is claimed at most
\* MAX_ATTEMPTS times, plus once for each time its user resumed it (try_claim_as,
\* recover_expired, control).
AttemptsBounded ==
    \A r \in Runs : row[r].attempts <= MAX_ATTEMPTS + resumes[r]

\* The executors of a run that nothing has told to stop.
Executors(r) == {t \in Tasks : /\ task[t].run = r
                               /\ \/ task[t].pc \in {"check", "open"}
                                  \/ Sinking(t) /\ ~Cancelled(t)}

\* The lease does its work: unless a lease lapsed under a live executor or the user
\* resumed a run, no two executors work on it, across crashes, boots, lease watches
\* and late starters (try_claim_as, recover_expired, renew_lease).
SoleExecutor ==
    \A r \in Runs : ~overtaken => Cardinality(Executors(r)) <= 1

\* What a run promises, without processes, leases, tokens and tasks.
Life == INSTANCE RunLife WITH status   <- [r \in Runs |-> row[r].status],
                              attempts <- [r \in Runs |-> row[r].attempts]

\* Whatever the processes do, each row of agent_runs lives the life of RunLife: a start
\* is always within the budget, an executor's end, a lease watch or a boot only makes the
\* moves RunLife allows (enqueue, try_claim_as, recover_expired, finish, control).
ImplementsRunLife == Life!Spec

\* Every run that was started, or is due to be, ends or is paused: a process that dies
\* between any two statements leaves a row that a boot or a lease watch takes up.
EveryRunSettles ==
    \A r \in Runs : row[r].status \in {"pending", "running"}
                       ~> row[r].status \in Terminal \cup {"paused"}

\* What finish's comment says: a pause, a cancellation or a resumption that is already
\* recorded is not overwritten by the end of an earlier executor.
RecordedStateWins ==
    [][\A t \in Tasks :
         (/\ task[t].pc \in {"finish", "fail"} /\ task'[t].pc = "drain"
          /\ row'[task[t].run] # row[task[t].run])
           => row[task[t].run].owner = task[t].proc]_vars
=============================================================================
