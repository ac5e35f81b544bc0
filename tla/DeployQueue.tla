----------------------------- MODULE DeployQueue -----------------------------
(***************************************************************************)
(* The deployment queue of the server: the rows of table `deployments`,    *)
(* the detached tasks that build them, the registry of cancel channels,    *)
(* the per-project start lock, the one-build-per-node slot, the boot-time  *)
(* resume loop, the reaper, and the user's cancel / dismiss / delete.      *)
(*                                                                         *)
(* One action is one SQL statement, or one critical section of an          *)
(* in-memory mutex, or one await of the task: everything else may happen   *)
(* between two of them.  The work done while the node is held (build,      *)
(* blue/green swap) is module BlueGreenSwap; here it only ends, with a     *)
(* verdict, or is dropped.                                                 *)
(***************************************************************************)
EXTENDS Integers, FiniteSets

CONSTANTS
    MaxDeploys,           \* bound: deployments ever created
    Projects, Nodes,
    Kinds,                \* who starts deployments, and so how they end
    MaxCrashes,           \* bound: process stops
    MaxDrops,             \* bound: tasks that die alone (panic, dropped future)
    MaxFailures,          \* bound: both together
    MaxUserOps,           \* bound: cancel / dismiss / delete / teardown calls
    AcceptsBeforeResume   \* may a deployment start before the boot listing?

AllKinds == {"manual", "auto", "dev", "preview"}

ASSUME ConstantsAssumption ==
    /\ MaxDeploys \in Nat \ {0}
    /\ Nodes # {}
    /\ Kinds \subseteq AllKinds
    /\ MaxCrashes \in Nat /\ MaxDrops \in Nat /\ MaxFailures \in Nat /\ MaxUserOps \in Nat
    /\ AcceptsBeforeResume \in BOOLEAN

Deploys == 1..MaxDeploys       \* numbered in the order of created_at
Resumer == MaxDeploys + 1      \* the boot task that replays the queue
Runners == 1..Resumer          \* task d spawned for deployment d, and Resumer
Nobody  == 0

Active   == {"queued", "running"}
Terminal == {"success", "failed", "cancelled"}
ProjStatuses == {"idle", "live", "failed", "deploying"}
Statuses == {"absent", "deleted"} \cup Active \cup Terminal

VARIABLES
    status,       \* [Deploys -> Statuses]: deployments.status
    of,           \* [Deploys -> [project, kind]]: project_id, origin and environment
    stale,        \* rows whose updated_at is behind the reaper's cutoff
    dismissed,    \* rows with dismissed_at set
    projStatus,   \* [Projects -> ...]: projects.status
    registry,     \* [Deploys -> Runners or Nobody]: whose sender is registered
    fired,        \* channels that carry `true`
    rx,           \* [Runners -> Runners or Nobody]: the channel a task listens to
    pc, job,      \* where each task is, and the deployment it works for
    pend,         \* [Runners -> SUBSET Deploys]: superseded, still to be signalled
    node,         \* [Runners -> Nodes]: the server the task deploys to
    out,          \* [Runners -> ...]: SlotOutcome of the task
    startLock,    \* [Projects -> Runners or Nobody]
    slot,         \* [Nodes -> Runners or Nobody]
    resume,       \* the boot loop: phase and the uuids still to take
    reaper,       \* the cleaning loop: phase, rows to look at, row in hand
    user,         \* a request handler: phase, row, rows to signal, status read
    crashes, drops, ops,
    supersededBy  \* history: which deployment cancelled this one

rowVars  == <<status, of, stale, dismissed, projStatus>>
chanVars == <<registry, fired, rx>>
taskVars == <<pc, job, pend, node, out, startLock, slot>>
loopVars == <<resume, reaper, user>>
auxVars  == <<crashes, drops, ops, supersededBy>>
vars == <<rowVars, chanVars, taskVars, loopVars, auxVars>>

PCs == {"off", "inserted", "spawned", "register", "supersede", "signal",
        "prep", "enter", "check", "wait", "held", "claim", "build",
        "exit", "finalize", "project", "done"}

----------------------------------------------------------------------------
(* Helpers *)

env(d)  == IF of[d].kind \in {"manual", "auto"} THEN "production" ELSE of[d].kind
proj(d) == of[d].project
Exists(d) == status[d] \notin {"absent", "deleted"}

SameTarget(d, e) == proj(d) = proj(e) /\ env(d) = env(e)

ProdRows(p) == {d \in Deploys : Exists(d) /\ proj(d) = p /\ env(d) = "production"}
HasActiveProd(p) == \E d \in ProdRows(p) : status[d] \in Active
HasSuccess(p)    == \E d \in ProdRows(p) : status[d] = "success"
HasOpenFailed(p) == \E d \in ProdRows(p) : status[d] = "failed" /\ d \notin dismissed
HasActiveRow(p)  == \E d \in Deploys : proj(d) = p /\ status[d] \in Active

\* SETTLED_STATUS_SQL
Settled(p) == IF HasSuccess(p) THEN "live"
              ELSE IF HasOpenFailed(p) THEN "failed" ELSE "idle"

\* Mutant: any row of the project, even a finished one, keeps the lock.
ReleasedOnlyWhenEmpty(p) ==
    IF projStatus[p] = "deploying" /\ ~(\E d \in Deploys : proj(d) = p /\ Exists(d))
    THEN Settled(p) ELSE projStatus[p]

\* release_deploying_if_no_active: one conditional UPDATE
Released(p) == IF projStatus[p] = "deploying" /\ ~HasActiveRow(p)
               THEN Settled(p) ELSE projStatus[p]

Receivers(c) == {r \in Runners : rx[r] = c}

\* A watch channel without receivers refuses the value: the signal is lost.
SendOn(c) == IF c # Nobody /\ Receivers(c) # {} THEN {c} ELSE {}
signal_cancel(d) == fired' = fired \cup SendOn(registry[d])

is_cancelled(d)  == registry[d] # Nobody /\ registry[d] \in fired

\* Mutant: a registered sender is taken for a live task.
RegisteredMeansLive(d) == registry[d] # Nobody
has_live_task(d) == registry[d] # Nobody /\ Receivers(registry[d]) # {}

\* wait_cancelled returns on `true`, and also when the sender is dropped.
SignalSeen(r) == rx[r] # Nobody /\ (rx[r] \in fired \/ registry[job[r]] # rx[r])

Goto(r, label) == pc' = [pc EXCEPT ![r] = label]

\* Return from run_in_node_slot: guard and receiver are dropped.
LeaveSlot(r, verdict) ==
    /\ slot' = [n \in Nodes |-> IF slot[n] = r THEN Nobody ELSE slot[n]]
    /\ rx' = [rx EXCEPT ![r] = Nobody]
    /\ out' = [out EXCEPT ![r] = verdict]
    /\ Goto(r, "exit")

----------------------------------------------------------------------------
Init ==
    /\ status = [d \in Deploys |-> "absent"]
    /\ of \in [Deploys -> [project : Projects, kind : Kinds]]
    /\ stale = {} /\ dismissed = {}
    /\ projStatus = [p \in Projects |-> "idle"]
    /\ registry = [d \in Deploys |-> Nobody]
    /\ fired = {}
    /\ rx = [r \in Runners |-> Nobody]
    /\ pc = [r \in Runners |-> "off"]
    /\ job = [r \in Runners |-> IF r = Resumer THEN Nobody ELSE r]
    /\ pend = [r \in Runners |-> {}]
    /\ node = [r \in Runners |-> CHOOSE n \in Nodes : TRUE]
    /\ out = [r \in Runners |-> "failed"]
    /\ startLock = [p \in Projects |-> Nobody]
    /\ slot = [n \in Nodes |-> Nobody]
    /\ resume = [pc |-> "boot", todo |-> {}]
    /\ reaper = [pc |-> "idle", todo |-> {}, cur |-> Nobody]
    /\ user = [pc |-> "idle", dep |-> Nobody, pend |-> {}, val |-> "idle"]
    /\ crashes = 0 /\ drops = 0 /\ ops = 0
    /\ supersededBy = [d \in Deploys |-> Nobody]

----------------------------------------------------------------------------
(* Starting a deployment: INSERT queued, then projects.status, then spawn. *)

Create(d) ==
    /\ status[d] = "absent"
    /\ \A e \in Deploys : e < d => status[e] # "absent"
    /\ AcceptsBeforeResume \/ resume.pc = "loop"
    /\ status' = [status EXCEPT ![d] = "queued"]
    /\ Goto(d, IF env(d) = "production" THEN "inserted" ELSE "spawned")
    /\ UNCHANGED <<of, stale, dismissed, projStatus, chanVars, job, pend, node,
                   out, startLock, slot, loopVars, auxVars>>

MarkDeploying(d) ==
    /\ pc[d] = "inserted"
    /\ projStatus' = [projStatus EXCEPT ![proj(d)] = "deploying"]
    /\ Goto(d, "spawned")
    /\ UNCHANGED <<status, of, stale, dismissed, chanVars, job, pend, node, out,
                   startLock, slot, loopVars, auxVars>>

\* run_dev_deploy / run_preview_deploy return before the lock: no branch, no host.
EarlyFail(r) ==
    /\ pc[r] = "spawned"
    /\ env(job[r]) # "production"
    /\ out' = [out EXCEPT ![r] = "failed"]
    /\ Goto(r, "finalize")
    /\ UNCHANGED <<rowVars, chanVars, job, pend, node, startLock, slot, loopVars, auxVars>>

LockStart(r) ==
    /\ pc[r] = "spawned"
    /\ startLock[proj(job[r])] = Nobody
    /\ startLock' = [startLock EXCEPT ![proj(job[r])] = r]
    /\ Goto(r, "register")
    /\ UNCHANGED <<rowVars, chanVars, job, pend, node, out, slot, loopVars, auxVars>>

\* The returned receiver lives to the end of the start block in production and
\* is dropped at once for dev and previews (`let _ = ...`).
register_cancel(r) ==
    /\ pc[r] = "register"
    /\ fired' = (fired \ {r}) \cup (SendOn(registry[job[r]]) \ {r})
    /\ registry' = [registry EXCEPT ![job[r]] = r]
    /\ rx' = [rx EXCEPT ![r] = IF env(job[r]) = "production" THEN r ELSE Nobody]
    /\ Goto(r, "supersede")
    /\ UNCHANGED <<rowVars, job, pend, node, out, startLock, slot, loopVars, auxVars>>

\* Mutant: rows that only wait for their node are left alone.
VictimsRunningOnly(r) ==
    {e \in Deploys \ {job[r]} : SameTarget(e, job[r]) /\ status[e] = "running"}

\* One UPDATE ... RETURNING; it does not look at the row of `r` itself.
Victims(r) == {e \in Deploys \ {job[r]} : SameTarget(e, job[r]) /\ status[e] \in Active}

supersede_in_progress(r) ==
    /\ pc[r] = "supersede"
    /\ status' = [e \in Deploys |-> IF e \in Victims(r) THEN "cancelled" ELSE status[e]]
    /\ stale' = stale \ Victims(r)
    /\ supersededBy' = [e \in Deploys |-> IF e \in Victims(r) THEN job[r] ELSE supersededBy[e]]
    /\ pend' = [pend EXCEPT ![r] = Victims(r)]
    /\ Goto(r, "signal")
    /\ UNCHANGED <<of, dismissed, projStatus, chanVars, job, node, out, startLock,
                   slot, loopVars, crashes, drops, ops>>

SignalSuperseded(r) ==
    /\ pc[r] = "signal"
    /\ \E e \in pend[r] :
          /\ signal_cancel(e)
          /\ pend' = [pend EXCEPT ![r] = @ \ {e}]
    /\ UNCHANGED <<rowVars, registry, rx, pc, job, node, out, startLock, slot,
                   loopVars, auxVars>>

\* End of the start block (after abort_in_flight_swap when something was superseded).
LeaveStart(r) ==
    /\ pc[r] = "signal" /\ pend[r] = {}
    /\ startLock' = [startLock EXCEPT ![proj(job[r])] = Nobody]
    /\ rx' = [rx EXCEPT ![r] = Nobody]
    /\ Goto(r, "prep")
    /\ UNCHANGED <<rowVars, registry, fired, job, pend, node, out, slot, loopVars, auxVars>>

\* Tokens, env file, ensure_live_server_id: the node may differ from the last one.
Prepare(r) ==
    /\ pc[r] = "prep"
    /\ \E n \in Nodes : node' = [node EXCEPT ![r] = n]
    /\ Goto(r, "enter")
    /\ UNCHANGED <<rowVars, chanVars, job, pend, out, startLock, slot, loopVars, auxVars>>

----------------------------------------------------------------------------
(* run_in_node_slot *)

\* Mutant: the task goes on without listening to its channel.
NoChannel(r) == Nobody
ChannelToListen(r) == registry[job[r]]

Subscribe(r) ==
    /\ pc[r] = "enter"
    /\ rx' = [rx EXCEPT ![r] = ChannelToListen(r)]
    /\ Goto(r, "check")
    /\ UNCHANGED <<rowVars, registry, fired, job, pend, node, out, startLock, slot,
                   loopVars, auxVars>>

CheckBeforeWait(r) ==
    /\ pc[r] = "check"
    /\ IF is_cancelled(job[r]) \/ rx[r] \in fired
       THEN LeaveSlot(r, "cancelled")
       ELSE Goto(r, "wait") /\ UNCHANGED <<rx, out, slot>>
    /\ UNCHANGED <<rowVars, registry, fired, job, pend, node, startLock, loopVars, auxVars>>

\* Mutant: the slot is looked up under a key of the deployment, not of the node.
SlotOfDeployment(r) == TRUE
SlotFree(r) == slot[node[r]] = Nobody

AcquireSlot(r) ==
    /\ pc[r] = "wait"
    /\ SlotFree(r)
    /\ slot' = [slot EXCEPT ![node[r]] = r]
    /\ Goto(r, "held")
    /\ UNCHANGED <<rowVars, chanVars, job, pend, node, out, startLock, loopVars, auxVars>>

CancelWhileWaiting(r) ==
    /\ pc[r] = "wait"
    /\ SignalSeen(r)
    /\ LeaveSlot(r, "cancelled")
    /\ UNCHANGED <<rowVars, registry, fired, job, pend, node, startLock, loopVars, auxVars>>

RecheckCancelled(r) ==
    /\ pc[r] = "held"
    /\ IF is_cancelled(job[r])
       THEN LeaveSlot(r, "cancelled")
       ELSE Goto(r, "claim") /\ UNCHANGED <<rx, out, slot>>
    /\ UNCHANGED <<rowVars, registry, fired, job, pend, node, startLock, loopVars, auxVars>>

mark_running_if_active(r) ==
    /\ pc[r] = "claim"
    /\ IF status[job[r]] \in Active
       THEN /\ status' = [status EXCEPT ![job[r]] = "running"]
            /\ stale' = stale \ {job[r]}
            /\ Goto(r, "build")
            /\ UNCHANGED <<rx, out, slot>>
       ELSE /\ LeaveSlot(r, "cancelled")
            /\ UNCHANGED <<status, stale>>
    /\ UNCHANGED <<of, dismissed, projStatus, registry, fired, job, pend, node,
                   startLock, loopVars, auxVars>>

\* set_live_logs: the flusher refreshes updated_at while the build prints.
FlushLogs(r) ==
    /\ pc[r] = "build" /\ job[r] \in stale /\ status[job[r]] \in Active
    /\ stale' = stale \ {job[r]}
    /\ UNCHANGED <<status, of, dismissed, projStatus, chanVars, taskVars, loopVars, auxVars>>

FinishBuild(r) ==
    /\ pc[r] = "build"
    /\ \E verdict \in {"ok", "failed"} : LeaveSlot(r, verdict)
    /\ UNCHANGED <<rowVars, registry, fired, job, pend, node, startLock, loopVars, auxVars>>

CancelBuild(r) ==
    /\ pc[r] = "build"
    /\ SignalSeen(r)
    /\ LeaveSlot(r, "cancelled")
    /\ UNCHANGED <<rowVars, registry, fired, job, pend, node, startLock, loopVars, auxVars>>

\* Removes whatever sender is registered under this uuid.
unregister_cancel(r) ==
    /\ pc[r] = "exit"
    /\ registry' = [registry EXCEPT ![job[r]] = Nobody]
    /\ Goto(r, "finalize")
    /\ UNCHANGED <<rowVars, fired, rx, job, pend, node, out, startLock, slot,
                   loopVars, auxVars>>

----------------------------------------------------------------------------
(* Writing the result.  The poller, the webhooks and the resume loop write *)
(* nothing for a cancelled run and leave the project alone when the row    *)
(* was already terminal; the manual path ignores finalize_if_active's      *)
(* answer; dev and previews never touch projects.status.                   *)

\* Mutant: the outcome is stored as it stands.
RawVerdict(r) == out[r]
Verdict(r) == CASE out[r] = "ok" -> "success"
                [] out[r] = "failed" -> "failed"
                [] out[r] = "cancelled" -> "cancelled"

Manual(r)  == of[job[r]].kind = "manual" /\ r # Resumer
Guarded(r) == env(job[r]) = "production" /\ ~Manual(r)

Writable(d) == status[d] \in Active

\* Mutant: finalize_if_active's answer is ignored everywhere.
PublishesAlways(r, wrote) == Manual(r) \/ Guarded(r)
Publishes(r, wrote) == Manual(r) \/ (Guarded(r) /\ wrote)

finalize_if_active(r) ==
    /\ pc[r] = "finalize"
    /\ LET d == job[r]
           writes == Writable(d) /\ ~(Guarded(r) /\ out[r] = "cancelled")
       IN /\ status' = IF writes THEN [status EXCEPT ![d] = Verdict(r)] ELSE status
          /\ stale' = IF writes THEN stale \ {d} ELSE stale
          /\ Goto(r, IF out[r] # "cancelled" /\ Publishes(r, writes)
                     THEN "project" ELSE "done")
    /\ UNCHANGED <<of, dismissed, projStatus, chanVars, job, pend, node, out,
                   startLock, slot, loopVars, auxVars>>

WriteProject(r) ==
    /\ pc[r] = "project"
    /\ projStatus' = [projStatus EXCEPT ![proj(job[r])] =
                        IF out[r] = "ok" THEN "live" ELSE "failed"]
    /\ Goto(r, "done")
    /\ UNCHANGED <<status, of, stale, dismissed, chanVars, job, pend, node, out,
                   startLock, slot, loopVars, auxVars>>

----------------------------------------------------------------------------
(* resume_deploy_queue: once per boot *)

\* Fenced, or not the leader: the queue is left alone.
ResumeRefused ==
    /\ resume.pc = "boot"
    /\ resume' = [resume EXCEPT !.pc = "loop"]
    /\ UNCHANGED <<rowVars, chanVars, taskVars, reaper, user, auxVars>>

requeue_interrupted ==
    /\ resume.pc = "boot"
    /\ status' = [d \in Deploys |-> IF status[d] = "running" THEN "queued" ELSE status[d]]
    /\ stale' = {d \in stale : status[d] # "running"}
    /\ resume' = [resume EXCEPT !.pc = "list"]
    /\ UNCHANGED <<of, dismissed, projStatus, chanVars, taskVars, reaper, user, auxVars>>

\* Mutant: the loop lists again when it has emptied its list.
ListingAgain == resume.pc = "list" \/ (resume.pc = "loop" /\ resume.todo = {})
Listing == resume.pc = "list"

list_queued_deployments ==
    /\ Listing
    /\ resume' = [pc |-> "loop", todo |-> {d \in Deploys : status[d] = "queued"}]
    /\ UNCHANGED <<rowVars, chanVars, taskVars, reaper, user, auxVars>>

ResumerFree == pc[Resumer] \in {"off", "done"}

\* The writes got fenced meanwhile: the loop breaks.
ResumeFenced ==
    /\ ResumerFree /\ resume.todo # {}
    /\ resume' = [resume EXCEPT !.todo = {}]
    /\ UNCHANGED <<rowVars, chanVars, taskVars, reaper, user, auxVars>>

\* Oldest first.  An interrupted preview is failed, not replayed.
try_claim_deployment ==
    /\ ResumerFree
    /\ \E d \in resume.todo :
          /\ \A e \in resume.todo : d <= e
          /\ resume' = [resume EXCEPT !.todo = @ \ {d}]
          /\ IF status[d] = "queued"
             THEN /\ status' = [status EXCEPT ![d] = "running"]
                  /\ stale' = stale \ {d}
                  /\ job' = [job EXCEPT ![Resumer] = d]
                  /\ out' = [out EXCEPT ![Resumer] = "failed"]
                  /\ Goto(Resumer, IF env(d) = "preview" THEN "finalize" ELSE "spawned")
             ELSE UNCHANGED <<status, stale, job, out, pc>>
    /\ UNCHANGED <<of, dismissed, projStatus, chanVars, pend, node, startLock, slot,
                   reaper, user, auxVars>>

----------------------------------------------------------------------------
(* The cleaning loop: reap_orphans, then release_orphan_project_locks *)

\* Time passes.  A task is assumed to reach its slot within the reaper's cutoff.
Starting(d) == \E r \in Runners : job[r] = d /\
                  pc[r] \in {"inserted", "spawned", "register", "supersede", "signal",
                             "prep", "enter"}
Age(d) ==
    /\ status[d] \in Active /\ d \notin stale /\ ~Starting(d)
    /\ stale' = stale \cup {d}
    /\ UNCHANGED <<status, of, dismissed, projStatus, chanVars, taskVars, loopVars, auxVars>>

ReapSelect ==
    /\ reaper.pc = "idle"
    /\ reaper' = [pc |-> "scan", cur |-> Nobody,
                  todo |-> {d \in stale : status[d] \in Active}]
    /\ UNCHANGED <<rowVars, chanVars, taskVars, resume, user, auxVars>>

ReapCheck ==
    /\ reaper.pc = "scan"
    /\ \E d \in reaper.todo :
          reaper' = IF has_live_task(d) THEN [reaper EXCEPT !.todo = @ \ {d}]
                    ELSE [pc |-> "mark", cur |-> d, todo |-> reaper.todo \ {d}]
    /\ UNCHANGED <<rowVars, chanVars, taskVars, resume, user, auxVars>>

ReapMark ==
    /\ reaper.pc = "mark"
    /\ LET d == reaper.cur IN
          IF status[d] \in Active
          THEN /\ status' = [status EXCEPT ![d] = "failed"]
               /\ stale' = stale \ {d}
               /\ reaper' = [reaper EXCEPT !.pc = "project"]
          ELSE /\ reaper' = [reaper EXCEPT !.pc = "scan", !.cur = Nobody]
               /\ UNCHANGED <<status, stale>>
    /\ UNCHANGED <<of, dismissed, projStatus, chanVars, taskVars, resume, user, auxVars>>

ReapProject ==
    /\ reaper.pc = "project"
    /\ LET p == proj(reaper.cur) IN
          projStatus' = [projStatus EXCEPT ![p] =
              IF @ = "deploying" /\ ~HasActiveProd(p)
              THEN IF HasSuccess(p) THEN "live" ELSE "failed"
              ELSE @]
    /\ reaper' = [reaper EXCEPT !.pc = "scan", !.cur = Nobody]
    /\ UNCHANGED <<status, of, stale, dismissed, chanVars, taskVars, resume, user, auxVars>>

release_orphan_project_locks ==
    /\ reaper.pc = "scan" /\ reaper.todo = {}
    /\ projStatus' = [p \in Projects |-> Released(p)]
    /\ reaper' = [reaper EXCEPT !.pc = "idle"]
    /\ UNCHANGED <<status, of, stale, dismissed, chanVars, taskVars, resume, user, auxVars>>

----------------------------------------------------------------------------
(* Requests of the user (one handler at a time) *)

UserOp == user.pc = "idle" /\ ops < MaxUserOps /\ ops' = ops + 1

cancel_one_deployment(d) ==
    /\ UserOp
    /\ status[d] \in Active
    /\ status' = [status EXCEPT ![d] = "cancelled"]
    /\ stale' = stale \ {d}
    /\ user' = [pc |-> "signal", dep |-> d, pend |-> {d}, val |-> "idle"]
    /\ UNCHANGED <<of, dismissed, projStatus, chanVars, taskVars, resume, reaper,
                   crashes, drops, supersededBy>>

\* dev_env::teardown, pr_previews::teardown
teardown(p, e) ==
    /\ UserOp
    /\ \E d \in Deploys : Exists(d) /\ proj(d) = p /\ env(d) = e
    /\ LET gone == {d \in Deploys : proj(d) = p /\ env(d) = e /\ status[d] \in Active}
       IN /\ status' = [d \in Deploys |-> IF d \in gone THEN "cancelled" ELSE status[d]]
          /\ stale' = stale \ gone
          /\ user' = [pc |-> "teardown",
                      dep |-> CHOOSE d \in Deploys : Exists(d) /\ proj(d) = p /\ env(d) = e,
                      pend |-> gone, val |-> "idle"]
    /\ UNCHANGED <<of, dismissed, projStatus, chanVars, taskVars, resume, reaper,
                   crashes, drops, supersededBy>>

UserSignal ==
    /\ user.pc \in {"signal", "teardown"}
    /\ \E d \in user.pend :
          /\ signal_cancel(d)
          /\ user' = [user EXCEPT !.pend = @ \ {d}]
    /\ UNCHANGED <<rowVars, registry, rx, taskVars, resume, reaper, auxVars>>

\* Only the preview teardown releases the project.
UserTeardownEnd ==
    /\ user.pc = "teardown" /\ user.pend = {}
    /\ LET p == proj(user.dep) IN
          projStatus' = IF env(user.dep) = "preview"
                        THEN [projStatus EXCEPT ![p] = Released(p)] ELSE projStatus
    /\ user' = [user EXCEPT !.pc = "idle"]
    /\ UNCHANGED <<status, of, stale, dismissed, chanVars, taskVars, resume, reaper, auxVars>>

dismiss_deployment(d) ==
    /\ UserOp
    /\ status[d] \in {"failed", "cancelled"} /\ d \notin dismissed
    /\ dismissed' = dismissed \cup {d}
    /\ user' = [pc |-> "active", dep |-> d, pend |-> {}, val |-> "idle"]
    /\ UNCHANGED <<status, of, stale, projStatus, chanVars, taskVars, resume, reaper,
                   crashes, drops, supersededBy>>

delete_deployment(d) ==
    /\ UserOp
    /\ status[d] \in Terminal
    /\ status' = [status EXCEPT ![d] = "deleted"]
    /\ user' = [pc |-> "active", dep |-> d, pend |-> {}, val |-> "idle"]
    /\ UNCHANGED <<of, stale, dismissed, projStatus, chanVars, taskVars, resume, reaper,
                   crashes, drops, supersededBy>>

\* recompute_project_status_after_deploy_change: three SELECTs, then one UPDATE.
RecomputeRead ==
    LET p == proj(user.dep) IN
    /\ user' =
         CASE user.pc = "signal" /\ user.pend = {} -> [user EXCEPT !.pc = "active"]
           [] user.pc = "active" -> IF HasActiveProd(p)
                                    THEN [user EXCEPT !.pc = "write", !.val = "deploying"]
                                    ELSE [user EXCEPT !.pc = "success"]
           [] user.pc = "success" -> [user EXCEPT !.pc = "failed",
                                        !.val = IF HasSuccess(p) THEN "live" ELSE "idle"]
           [] user.pc = "failed" -> [user EXCEPT !.pc = "write",
                                       !.val = IF @ = "idle" /\ HasOpenFailed(p)
                                               THEN "failed" ELSE @]
           [] OTHER -> user
    /\ user' # user
    /\ UNCHANGED <<rowVars, chanVars, taskVars, resume, reaper, auxVars>>

RecomputeWrite ==
    /\ user.pc = "write"
    /\ projStatus' = [projStatus EXCEPT ![proj(user.dep)] = user.val]
    /\ user' = [user EXCEPT !.pc = "idle"]
    /\ UNCHANGED <<status, of, stale, dismissed, chanVars, taskVars, resume, reaper, auxVars>>

----------------------------------------------------------------------------
(* Failures *)

\* A task panics or its future is dropped: guards and receiver go, rows and the
\* registered sender stay.
Drop(r) ==
    /\ drops < MaxDrops /\ crashes + drops < MaxFailures
    /\ drops' = drops + 1
    /\ pc[r] \notin {"off", "done"}
    /\ rx' = [rx EXCEPT ![r] = Nobody]
    /\ pend' = [pend EXCEPT ![r] = {}]
    /\ startLock' = [p \in Projects |-> IF startLock[p] = r THEN Nobody ELSE startLock[p]]
    /\ slot' = [n \in Nodes |-> IF slot[n] = r THEN Nobody ELSE slot[n]]
    /\ Goto(r, "done")
    /\ resume' = IF r = Resumer THEN [resume EXCEPT !.todo = {}] ELSE resume
    /\ UNCHANGED <<rowVars, registry, fired, job, node, out, reaper, user,
                   crashes, ops, supersededBy>>

\* The process stops; only the tables survive.
Crash ==
    /\ crashes < MaxCrashes /\ crashes + drops < MaxFailures
    /\ crashes' = crashes + 1
    /\ registry' = [d \in Deploys |-> Nobody]
    /\ fired' = {}
    /\ rx' = [r \in Runners |-> Nobody]
    /\ pc' = [r \in Runners |-> "off"]
    /\ job' = [job EXCEPT ![Resumer] = Nobody]
    /\ pend' = [r \in Runners |-> {}]
    /\ startLock' = [p \in Projects |-> Nobody]
    /\ slot' = [n \in Nodes |-> Nobody]
    /\ resume' = [pc |-> "boot", todo |-> {}]
    /\ reaper' = [pc |-> "idle", todo |-> {}, cur |-> Nobody]
    /\ user' = [pc |-> "idle", dep |-> Nobody, pend |-> {}, val |-> "idle"]
    /\ UNCHANGED <<rowVars, node, out, drops, ops, supersededBy>>

----------------------------------------------------------------------------
StartStep(r) ==
    \/ EarlyFail(r) \/ LockStart(r) \/ register_cancel(r) \/ supersede_in_progress(r)
    \/ SignalSuperseded(r) \/ LeaveStart(r) \/ Prepare(r)

SlotStep(r) ==
    \/ Subscribe(r) \/ CheckBeforeWait(r) \/ AcquireSlot(r) \/ CancelWhileWaiting(r)
    \/ RecheckCancelled(r) \/ mark_running_if_active(r)
    \/ FinishBuild(r) \/ CancelBuild(r) \/ unregister_cancel(r)

EndStep(r) == finalize_if_active(r) \/ WriteProject(r)

RunnerStep(r) == StartStep(r) \/ SlotStep(r) \/ EndStep(r)

ResumeStep == requeue_interrupted \/ list_queued_deployments \/ try_claim_deployment

ReaperStep == ReapSelect \/ ReapCheck \/ ReapMark \/ ReapProject
              \/ release_orphan_project_locks

UserStep == UserSignal \/ UserTeardownEnd \/ RecomputeRead \/ RecomputeWrite

UserCall ==
    \/ \E d \in Deploys : cancel_one_deployment(d) \/ dismiss_deployment(d)
                          \/ delete_deployment(d)
    \/ \E p \in Projects, e \in {"dev", "preview"} : teardown(p, e)

Next ==
    \/ \E d \in Deploys : Create(d) \/ MarkDeploying(d) \/ Age(d)
    \/ \E r \in Runners : RunnerStep(r) \/ FlushLogs(r) \/ Drop(r)
    \/ ResumeStep \/ ResumeRefused \/ ResumeFenced
    \/ ReaperStep
    \/ UserCall \/ UserStep
    \/ Crash

(* The runtime polls every ready task; builds are bounded by the build     *)
(* timeout; the cleaning loop ticks every five minutes; time passes.       *)
Fairness ==
    /\ \A d \in Deploys : WF_vars(MarkDeploying(d)) /\ WF_vars(Age(d))
    /\ \A r \in Runners : WF_vars(RunnerStep(r))
    /\ WF_vars(ResumeStep \/ ResumeRefused)
    /\ WF_vars(ReaperStep)
    /\ WF_vars(UserStep)

Spec == Init /\ [][Next]_vars
FairSpec == Spec /\ Fairness

----------------------------------------------------------------------------
(* Properties *)

RowsTyped ==
    /\ status \in [Deploys -> Statuses]
    /\ of \in [Deploys -> [project : Projects, kind : Kinds]]
    /\ stale \subseteq Deploys /\ dismissed \subseteq Deploys
    /\ projStatus \in [Projects -> ProjStatuses]

ChannelsTyped ==
    /\ registry \in [Deploys -> Runners \cup {Nobody}]
    /\ fired \subseteq Runners
    /\ rx \in [Runners -> Runners \cup {Nobody}]

TasksTyped ==
    /\ pc \in [Runners -> PCs]
    /\ job \in [Runners -> Deploys \cup {Nobody}]
    /\ pend \in [Runners -> SUBSET Deploys]
    /\ node \in [Runners -> Nodes]
    /\ out \in [Runners -> {"ok", "failed", "cancelled"}]
    /\ startLock \in [Projects -> Runners \cup {Nobody}]
    /\ slot \in [Nodes -> Runners \cup {Nobody}]

LoopsTyped ==
    /\ resume \in [pc : {"boot", "list", "loop"}, todo : SUBSET Deploys]
    /\ reaper \in [pc : {"idle", "scan", "mark", "project"}, todo : SUBSET Deploys,
                   cur : Deploys \cup {Nobody}]
    /\ user \in [pc : {"idle", "signal", "teardown", "active", "success", "failed", "write"},
                 dep : Deploys \cup {Nobody}, pend : SUBSET Deploys, val : ProjStatuses]

CountersTyped ==
    /\ crashes \in Nat /\ drops \in Nat /\ ops \in Nat
    /\ supersededBy \in [Deploys -> Deploys \cup {Nobody}]

\* Every variable has its type, and a task at work has a deployment whose row was
\* inserted: no step reads the channel, the lock or the row of nothing.
Working(r) == pc[r] \notin {"off", "done"}
JobsTyped ==
    /\ \A d \in Deploys : job[d] = d
    /\ \A r \in Runners : Working(r) => job[r] \in Deploys /\ status[job[r]] # "absent"

TypeOK ==
    RowsTyped /\ ChannelsTyped /\ TasksTyped /\ LoopsTyped /\ CountersTyped /\ JobsTyped

\* One build at a time per node (first line of deploy_queue.rs): two tasks are
\* never past the slot of one node together, whatever was cancelled, dropped or
\* resumed in between.
HoldsSlot(r) == pc[r] \in {"held", "claim", "build"}
NodeExclusion ==
    \A r, q \in Runners :
        HoldsSlot(r) /\ HoldsSlot(q) /\ node[r] = node[q] => r = q

\* Of two deployments of one project and environment that both went through
\* supersede_in_progress, at most one still has an active row: the loser can no
\* longer pass mark_running_if_active nor publish a result.
Superseder(r) == pc[r] \in {"signal", "prep", "enter", "check", "wait", "held",
                            "claim", "build", "exit"}
LoneActive ==
    \A r, q \in Runners :
        /\ Superseder(r) /\ Superseder(q)
        /\ job[r] # job[q] /\ SameTarget(job[r], job[q])
        => status[job[r]] \notin Active \/ status[job[q]] \notin Active

\* A build whose row was cancelled has its signal, or will get it from the
\* superseding task or the user's handler: the watch channel cannot have lost it.
CancelReachesBuild ==
    \A r \in Runners :
        pc[r] = "build" /\ status[job[r]] = "cancelled"
        => \/ SignalSeen(r)
           \/ job[r] \in user.pend
           \/ \E q \in Runners : job[r] \in pend[q]

\* try_claim_deployment: "Un seul processus gagne la ligne", a resumed deployment
\* is not also run by the task of the request that created it.
OneTaskPerDeployment ==
    \A r, q \in Runners : Working(r) /\ Working(q) /\ job[r] = job[q] => r = q

\* The poller, the webhooks and the resume loop write projects.status only when the
\* verdict of their run is what its row says, or said until it was deleted: a run
\* that lost its row meanwhile stays silent.
ProjectFollowsRow ==
    \A r \in Runners :
        pc[r] = "project" /\ Guarded(r) => status[job[r]] \in {Verdict(r), "deleted"}

\* "Persiste le resultat seulement si le deploiement n'a pas ete supersede": the
\* manual path too leaves projects.status alone when its row was cancelled.
CancelledRunLeavesProject ==
    \A r \in Runners : pc[r] = "project" => status[job[r]] # "cancelled"

\* "evite que deux starts s'annulent mutuellement": two deployments never end up
\* cancelled by one another.
NoMutualCancel ==
    \A d, e \in Deploys : ~(supersededBy[d] = e /\ supersededBy[e] = d)

\* A terminal status is final: no late task, resume, reaper or cancel rewrites it.
TerminalIsFinal ==
    [][\A d \in Deploys :
         status[d] \in Terminal => status'[d] \in {status[d], "deleted"}]_vars

\* "La ligne est la file : le leader la reprend au boot": a row the resume loop has
\* still to take is not failed by the cleaning loop.
AwaitsResume(d) ==
    \/ d \in resume.todo
    \/ resume.pc \in {"boot", "list"} /\ crashes > 0 /\ pc[d] = "off"
InterruptedIsResumed ==
    [][\A d \in Deploys :
         status[d] \in Active /\ AwaitsResume(d) => status'[d] # "failed"]_vars

\* Every deployment ends: through its task, the resume loop or the reaper.
EveryDeploymentSettles ==
    \A d \in Deploys : status[d] \in Active ~> status[d] \notin Active

\* projects.status = 'deploying' is always released, even when the task that
\* should have written it is gone.
ProjectIsReleased ==
    \A p \in Projects : projStatus[p] = "deploying" ~> projStatus[p] # "deploying"

=============================================================================
