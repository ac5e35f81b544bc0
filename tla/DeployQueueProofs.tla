------------------------- MODULE DeployQueueProofs -------------------------
(***************************************************************************)
(* Proofs about DeployQueue for any number of deployments, projects, nodes *)
(* and any bounds on failures: type correctness, one build per node, one   *)
(* live deployment per target, the finality of terminal statuses, one task *)
(* per deployment, delivered cancels, and who writes projects.status.      *)
(***************************************************************************)
EXTENDS DeployQueue, TLAPS

\* The identities of tasks: one per deployment, the resume task, and Nobody.
LEMMA Identities ==
    /\ Deploys \subseteq Runners /\ Resumer \in Runners /\ Resumer \notin Deploys
    /\ Nobody \notin Runners /\ Nobody \notin Deploys
  BY ConstantsAssumption DEF Deploys, Runners, Resumer, Nobody

----------------------------------------------------------------------------
(* Type correctness, one group of variables at a time *)

\* The tables: only statements of the code write them, with values of the schema.
LEMMA RowsStep == TypeOK /\ [Next]_vars => RowsTyped'
<1> SUFFICES ASSUME TypeOK, [Next]_vars PROVE RowsTyped'
  OBVIOUS
<1> USE DEF RowsTyped, rowVars, Statuses, Active, Terminal, ProjStatuses
<1>0. RowsTyped /\ TasksTyped /\ LoopsTyped
  BY DEF TypeOK
<1>1. ASSUME NEW d \in Deploys, Create(d) \/ MarkDeploying(d) \/ Age(d) PROVE RowsTyped'
  BY <1>0, <1>1 DEF Create, MarkDeploying, Age
<1>2. ASSUME NEW r \in Runners, StartStep(r) PROVE RowsTyped'
  BY <1>0, <1>2 DEF StartStep, EarlyFail, LockStart, register_cancel, supersede_in_progress,
     SignalSuperseded, LeaveStart, Prepare
<1>3. ASSUME NEW r \in Runners, SlotStep(r) \/ FlushLogs(r) \/ Drop(r) PROVE RowsTyped'
  BY <1>0, <1>3 DEF SlotStep, Subscribe, CheckBeforeWait, AcquireSlot, CancelWhileWaiting,
     RecheckCancelled, mark_running_if_active, FinishBuild, CancelBuild, unregister_cancel,
     FlushLogs, Drop
<1>4. ASSUME NEW r \in Runners, EndStep(r) PROVE RowsTyped'
  <2>1. Verdict(r) \in Terminal
    BY <1>0 DEF TasksTyped, Verdict
  <2> QED
    BY <1>0, <1>4, <2>1 DEF EndStep, finalize_if_active, WriteProject
<1>5. CASE ResumeStep \/ ResumeRefused \/ ResumeFenced
  BY <1>0, <1>5 DEF ResumeStep, requeue_interrupted, list_queued_deployments,
     try_claim_deployment, ResumeRefused, ResumeFenced
<1>6. CASE ReaperStep
  BY <1>0, <1>6 DEF ReaperStep, ReapSelect, ReapCheck, ReapMark, ReapProject,
     release_orphan_project_locks, Released, Settled
<1>7. CASE UserCall
  BY <1>0, <1>7 DEF UserCall, cancel_one_deployment, dismiss_deployment, delete_deployment,
     teardown
<1>8. CASE UserStep
  BY <1>0, <1>8 DEF UserStep, UserSignal, UserTeardownEnd, RecomputeRead, RecomputeWrite,
     Released, Settled, LoopsTyped
<1>9. CASE Crash
  BY <1>0, <1>9 DEF Crash
<1>10. CASE UNCHANGED vars
  BY <1>0, <1>10 DEF vars
<1> QED
  BY <1>1, <1>2, <1>3, <1>4, <1>5, <1>6, <1>7, <1>8, <1>9, <1>10 DEF Next, RunnerStep

\* The registry and the receivers: a task only reads the channel of a real deployment.
LEMMA ChannelsStep == TypeOK /\ [Next]_vars => ChannelsTyped'
<1> SUFFICES ASSUME TypeOK, [Next]_vars PROVE ChannelsTyped'
  OBVIOUS
<1> USE Identities DEF ChannelsTyped, chanVars
<1>0. RowsTyped /\ ChannelsTyped /\ TasksTyped /\ LoopsTyped /\ CountersTyped /\ JobsTyped
  BY DEF TypeOK
<1>1. ASSUME NEW d \in Deploys, Create(d) \/ MarkDeploying(d) \/ Age(d) PROVE ChannelsTyped'
  BY <1>0, <1>1 DEF Create, MarkDeploying, Age
<1>2. ASSUME NEW r \in Runners, StartStep(r) PROVE ChannelsTyped'
  BY <1>0, <1>2 DEF StartStep, EarlyFail, LockStart, register_cancel, supersede_in_progress,
     SignalSuperseded, LeaveStart, Prepare, SendOn, Receivers,
     signal_cancel, TasksTyped, JobsTyped, Working
<1>3. ASSUME NEW r \in Runners, SlotStep(r) \/ FlushLogs(r) PROVE ChannelsTyped'
  BY <1>0, <1>3 DEF SlotStep, Subscribe, CheckBeforeWait, AcquireSlot, CancelWhileWaiting,
     RecheckCancelled, mark_running_if_active, FinishBuild, CancelBuild, unregister_cancel, FlushLogs, LeaveSlot,
     ChannelToListen, TasksTyped, JobsTyped, Working
<1>4. ASSUME NEW r \in Runners, EndStep(r) \/ Drop(r) PROVE ChannelsTyped'
  BY <1>0, <1>4 DEF EndStep, finalize_if_active, WriteProject, Drop
<1>5. CASE ResumeStep \/ ResumeRefused \/ ResumeFenced
  BY <1>0, <1>5 DEF ResumeStep, requeue_interrupted, list_queued_deployments,
     try_claim_deployment, ResumeRefused, ResumeFenced
<1>6. CASE ReaperStep
  BY <1>0, <1>6 DEF ReaperStep, ReapSelect, ReapCheck, ReapMark, ReapProject,
     release_orphan_project_locks
<1>7. CASE UserCall
  BY <1>0, <1>7 DEF UserCall, cancel_one_deployment, dismiss_deployment, delete_deployment,
     teardown
<1>8. CASE UserStep
  BY <1>0, <1>8 DEF UserStep, UserSignal, UserTeardownEnd, RecomputeRead, RecomputeWrite,
     signal_cancel, SendOn, Receivers, LoopsTyped
<1>9. CASE Crash
  BY <1>0, <1>9 DEF Crash
<1>10. CASE UNCHANGED vars
  BY <1>0, <1>10 DEF vars
<1> QED
  BY <1>1, <1>2, <1>3, <1>4, <1>5, <1>6, <1>7, <1>8, <1>9, <1>10 DEF Next, RunnerStep

\* The tasks and the locks they hold.
LEMMA TasksStep == TypeOK /\ [Next]_vars => TasksTyped'
<1> SUFFICES ASSUME TypeOK, [Next]_vars PROVE TasksTyped'
  OBVIOUS
<1> USE Identities DEF TasksTyped, taskVars, PCs, Goto
<1>0. RowsTyped /\ ChannelsTyped /\ TasksTyped /\ LoopsTyped /\ CountersTyped /\ JobsTyped
  BY DEF TypeOK
<1>1. ASSUME NEW d \in Deploys, Create(d) \/ MarkDeploying(d) \/ Age(d) PROVE TasksTyped'
  BY <1>0, <1>1 DEF Create, MarkDeploying, Age
<1>2. ASSUME NEW r \in Runners, StartStep(r) PROVE TasksTyped'
  BY <1>0, <1>2 DEF StartStep, EarlyFail, LockStart, register_cancel, supersede_in_progress,
     SignalSuperseded, LeaveStart, Prepare, Victims
<1>3. ASSUME NEW r \in Runners, SlotStep(r) \/ FlushLogs(r) PROVE TasksTyped'
  BY <1>0, <1>3 DEF SlotStep, Subscribe, CheckBeforeWait, AcquireSlot, CancelWhileWaiting,
     RecheckCancelled, mark_running_if_active, FinishBuild, CancelBuild, unregister_cancel, FlushLogs, LeaveSlot
<1>4. ASSUME NEW r \in Runners, EndStep(r) \/ Drop(r) PROVE TasksTyped'
  BY <1>0, <1>4 DEF EndStep, finalize_if_active, WriteProject, Drop
<1>5. CASE ResumeStep \/ ResumeRefused \/ ResumeFenced
  BY <1>0, <1>5 DEF ResumeStep, requeue_interrupted, list_queued_deployments,
     try_claim_deployment, ResumeRefused, ResumeFenced, LoopsTyped
<1>6. CASE ReaperStep
  BY <1>0, <1>6 DEF ReaperStep, ReapSelect, ReapCheck, ReapMark, ReapProject,
     release_orphan_project_locks
<1>7. CASE UserCall
  BY <1>0, <1>7 DEF UserCall, cancel_one_deployment, dismiss_deployment, delete_deployment,
     teardown
<1>8. CASE UserStep
  BY <1>0, <1>8 DEF UserStep, UserSignal, UserTeardownEnd, RecomputeRead, RecomputeWrite
<1>9. CASE Crash
  BY <1>0, <1>9 DEF Crash
<1>10. CASE UNCHANGED vars
  BY <1>0, <1>10 DEF vars
<1> QED
  BY <1>1, <1>2, <1>3, <1>4, <1>5, <1>6, <1>7, <1>8, <1>9, <1>10 DEF Next, RunnerStep

\* The resume loop, the cleaning loop and the request handler.
LEMMA LoopsStep == TypeOK /\ [Next]_vars => LoopsTyped'
<1> SUFFICES ASSUME TypeOK, [Next]_vars PROVE LoopsTyped'
  OBVIOUS
<1> USE Identities DEF LoopsTyped, loopVars, ProjStatuses
<1>0. RowsTyped /\ ChannelsTyped /\ TasksTyped /\ LoopsTyped /\ CountersTyped /\ JobsTyped
  BY DEF TypeOK
<1>1. ASSUME NEW d \in Deploys, Create(d) \/ MarkDeploying(d) \/ Age(d) PROVE LoopsTyped'
  BY <1>0, <1>1 DEF Create, MarkDeploying, Age
<1>2. ASSUME NEW r \in Runners, StartStep(r) PROVE LoopsTyped'
  BY <1>0, <1>2 DEF StartStep, EarlyFail, LockStart, register_cancel, supersede_in_progress,
     SignalSuperseded, LeaveStart, Prepare
<1>3. ASSUME NEW r \in Runners, SlotStep(r) \/ FlushLogs(r) PROVE LoopsTyped'
  BY <1>0, <1>3 DEF SlotStep, Subscribe, CheckBeforeWait, AcquireSlot, CancelWhileWaiting,
     RecheckCancelled, mark_running_if_active, FinishBuild, CancelBuild, unregister_cancel, FlushLogs
<1>4. ASSUME NEW r \in Runners, EndStep(r) \/ Drop(r) PROVE LoopsTyped'
  BY <1>0, <1>4 DEF EndStep, finalize_if_active, WriteProject, Drop
<1>5. CASE ResumeStep \/ ResumeRefused \/ ResumeFenced
  BY <1>0, <1>5 DEF ResumeStep, requeue_interrupted, list_queued_deployments,
     try_claim_deployment, ResumeRefused, ResumeFenced
<1>6. CASE ReaperStep
  <2>1. CASE ReapSelect
    BY <1>0, <2>1 DEF ReapSelect, RowsTyped
  <2>2. CASE ReapCheck
    <3>1. PICK d \in reaper.todo :
            reaper' = IF has_live_task(d) THEN [reaper EXCEPT !.todo = @ \ {d}]
                      ELSE [pc |-> "mark", cur |-> d, todo |-> reaper.todo \ {d}]
      BY <2>2 DEF ReapCheck
    <3>2. d \in Deploys /\ reaper.todo \ {d} \subseteq Deploys
      BY <1>0
    <3>3. UNCHANGED <<resume, user>>
      BY <2>2 DEF ReapCheck
    <3>4. CASE has_live_task(d)
      BY <1>0, <3>1, <3>2, <3>3, <3>4
    <3>5. CASE ~has_live_task(d)
      BY <1>0, <3>1, <3>2, <3>3, <3>5
    <3> QED
      BY <3>4, <3>5
  <2>3. CASE ReapMark
    BY <1>0, <2>3 DEF ReapMark
  <2>4. CASE ReapProject
    BY <1>0, <2>4 DEF ReapProject
  <2>5. CASE release_orphan_project_locks
    BY <1>0, <2>5 DEF release_orphan_project_locks
  <2> QED
    BY <1>6, <2>1, <2>2, <2>3, <2>4, <2>5 DEF ReaperStep
<1>7. CASE UserCall
  BY <1>0, <1>7 DEF UserCall, cancel_one_deployment, dismiss_deployment, delete_deployment,
     teardown, UserOp
<1>8. CASE UserStep
  <2>1. CASE UserSignal
    BY <1>0, <2>1 DEF UserSignal
  <2>2. CASE UserTeardownEnd
    BY <1>0, <2>2 DEF UserTeardownEnd
  <2>3. CASE RecomputeRead
    <3>1. UNCHANGED <<resume, reaper>>
      BY <2>3 DEF RecomputeRead
    <3> DEFINE p == proj(user.dep)
    <3>2. \/ user' = [user EXCEPT !.pc = "active"]
          \/ user' = [user EXCEPT !.pc = "write", !.val = "deploying"]
          \/ user' = [user EXCEPT !.pc = "success"]
          \/ user' = [user EXCEPT !.pc = "failed", !.val = IF HasSuccess(p) THEN "live" ELSE "idle"]
          \/ user' = [user EXCEPT !.pc = "write",
                        !.val = IF @ = "idle" /\ HasOpenFailed(p) THEN "failed" ELSE @]
          \/ user' = user
      BY <2>3, Zenon DEF RecomputeRead
    <3> HIDE DEF p
    <3> QED
      BY <1>0, <3>1, <3>2
  <2>4. CASE RecomputeWrite
    BY <1>0, <2>4 DEF RecomputeWrite
  <2> QED
    BY <1>8, <2>1, <2>2, <2>3, <2>4 DEF UserStep
<1>9. CASE Crash
  BY <1>0, <1>9 DEF Crash
<1>10. CASE UNCHANGED vars
  BY <1>0, <1>10 DEF vars
<1> QED
  BY <1>1, <1>2, <1>3, <1>4, <1>5, <1>6, <1>7, <1>8, <1>9, <1>10 DEF Next, RunnerStep

\* The bounds and the history of supersessions.
LEMMA CountersStep == TypeOK /\ [Next]_vars => CountersTyped'
<1> SUFFICES ASSUME TypeOK, [Next]_vars PROVE CountersTyped'
  OBVIOUS
<1> USE Identities DEF CountersTyped, auxVars
<1>0. RowsTyped /\ ChannelsTyped /\ TasksTyped /\ LoopsTyped /\ CountersTyped /\ JobsTyped
  BY DEF TypeOK
<1>1. ASSUME NEW d \in Deploys, Create(d) \/ MarkDeploying(d) \/ Age(d) PROVE CountersTyped'
  BY <1>0, <1>1 DEF Create, MarkDeploying, Age
<1>2. ASSUME NEW r \in Runners, StartStep(r) PROVE CountersTyped'
  BY <1>0, <1>2 DEF StartStep, EarlyFail, LockStart, register_cancel, supersede_in_progress,
     SignalSuperseded, LeaveStart, Prepare, TasksTyped, JobsTyped, Working
<1>3. ASSUME NEW r \in Runners, SlotStep(r) \/ FlushLogs(r) PROVE CountersTyped'
  BY <1>0, <1>3 DEF SlotStep, Subscribe, CheckBeforeWait, AcquireSlot, CancelWhileWaiting,
     RecheckCancelled, mark_running_if_active, FinishBuild, CancelBuild, unregister_cancel, FlushLogs
<1>4. ASSUME NEW r \in Runners, EndStep(r) \/ Drop(r) PROVE CountersTyped'
  BY <1>0, <1>4 DEF EndStep, finalize_if_active, WriteProject, Drop
<1>5. CASE ResumeStep \/ ResumeRefused \/ ResumeFenced
  BY <1>0, <1>5 DEF ResumeStep, requeue_interrupted, list_queued_deployments,
     try_claim_deployment, ResumeRefused, ResumeFenced
<1>6. CASE ReaperStep
  BY <1>0, <1>6 DEF ReaperStep, ReapSelect, ReapCheck, ReapMark, ReapProject,
     release_orphan_project_locks
<1>7. CASE UserCall
  BY <1>0, <1>7 DEF UserCall, cancel_one_deployment, dismiss_deployment, delete_deployment,
     teardown, UserOp
<1>8. CASE UserStep
  BY <1>0, <1>8 DEF UserStep, UserSignal, UserTeardownEnd, RecomputeRead, RecomputeWrite
<1>9. CASE Crash
  BY <1>0, <1>9 DEF Crash
<1>10. CASE UNCHANGED vars
  BY <1>0, <1>10 DEF vars
<1> QED
  BY <1>1, <1>2, <1>3, <1>4, <1>5, <1>6, <1>7, <1>8, <1>9, <1>10 DEF Next, RunnerStep

\* A task at work has a deployment, and its row has been inserted.
LEMMA JobsStep == TypeOK /\ [Next]_vars => JobsTyped'
<1> SUFFICES ASSUME TypeOK, [Next]_vars PROVE JobsTyped'
  OBVIOUS
<1> USE Identities DEF JobsTyped, Working, Goto
<1>0. RowsTyped /\ ChannelsTyped /\ TasksTyped /\ LoopsTyped /\ CountersTyped /\ JobsTyped
  BY DEF TypeOK
<1>1. ASSUME NEW d \in Deploys, Create(d) \/ MarkDeploying(d) \/ Age(d) PROVE JobsTyped'
  BY <1>0, <1>1 DEF Create, MarkDeploying, Age,
     TasksTyped, RowsTyped, taskVars, rowVars
<1>2. ASSUME NEW r \in Runners, StartStep(r) PROVE JobsTyped'
  BY <1>0, <1>2 DEF StartStep, EarlyFail, LockStart, register_cancel, supersede_in_progress,
     SignalSuperseded, LeaveStart, Prepare,
     TasksTyped, RowsTyped, taskVars, rowVars
<1>3. ASSUME NEW r \in Runners, SlotStep(r) \/ FlushLogs(r) PROVE JobsTyped'
  BY <1>0, <1>3 DEF SlotStep, Subscribe, CheckBeforeWait, AcquireSlot, CancelWhileWaiting,
     RecheckCancelled, mark_running_if_active, FinishBuild, CancelBuild, unregister_cancel, FlushLogs, LeaveSlot,
     TasksTyped, RowsTyped, taskVars, rowVars
<1>4. ASSUME NEW r \in Runners, EndStep(r) \/ Drop(r) PROVE JobsTyped'
  BY <1>0, <1>4 DEF EndStep, finalize_if_active, WriteProject, Drop, Verdict,
     TasksTyped, RowsTyped, taskVars, rowVars, Active
<1>5. CASE ResumeStep \/ ResumeRefused \/ ResumeFenced
  <2>1. CASE requeue_interrupted
    BY <1>0, <2>1 DEF requeue_interrupted, TasksTyped, RowsTyped, taskVars
  <2>2. CASE try_claim_deployment
    <3>1. PICK d \in resume.todo :
            IF status[d] = "queued"
            THEN /\ status' = [status EXCEPT ![d] = "running"]
                 /\ job' = [job EXCEPT ![Resumer] = d]
                 /\ Goto(Resumer, IF env(d) = "preview" THEN "finalize" ELSE "spawned")
            ELSE UNCHANGED <<status, job, pc>>
      BY <2>2 DEF try_claim_deployment
    <3>2. d \in Deploys
      BY <1>0 DEF LoopsTyped
    <3> QED
      BY <1>0, <3>1, <3>2 DEF TasksTyped, RowsTyped
  <2>3. CASE list_queued_deployments \/ ResumeRefused \/ ResumeFenced
    BY <1>0, <2>3 DEF list_queued_deployments, ResumeRefused, ResumeFenced, taskVars, rowVars
  <2> QED
    BY <1>5, <2>1, <2>2, <2>3 DEF ResumeStep
<1>6. CASE ReaperStep
  BY <1>0, <1>6 DEF ReaperStep, ReapSelect, ReapCheck, ReapMark, ReapProject,
     release_orphan_project_locks,
     TasksTyped, RowsTyped, LoopsTyped, taskVars, rowVars
<1>7. CASE UserCall
  BY <1>0, <1>7 DEF UserCall, cancel_one_deployment, dismiss_deployment, delete_deployment,
     teardown,
     TasksTyped, RowsTyped, LoopsTyped, taskVars, rowVars
<1>8. CASE UserStep
  BY <1>0, <1>8 DEF UserStep, UserSignal, UserTeardownEnd, RecomputeRead, RecomputeWrite, taskVars, rowVars
<1>9. CASE Crash
  BY <1>0, <1>9 DEF Crash, TasksTyped, rowVars
<1>10. CASE UNCHANGED vars
  BY <1>0, <1>10 DEF vars, taskVars, rowVars
<1> QED
  BY <1>1, <1>2, <1>3, <1>4, <1>5, <1>6, <1>7, <1>8, <1>9, <1>10 DEF Next, RunnerStep

\* TypeOK holds in every reachable state.
THEOREM TypeCorrect == Spec => []TypeOK
<1>1. ASSUME Init PROVE TypeOK
  <2>1. RowsTyped
    BY <1>1 DEF Init, RowsTyped, Statuses, ProjStatuses
  <2>2. ChannelsTyped
    BY <1>1 DEF Init, ChannelsTyped
  <2>3. node \in [Runners -> Nodes]
    <3>1. (CHOOSE n \in Nodes : TRUE) \in Nodes
      BY ConstantsAssumption
    <3> QED
      BY <1>1, <3>1 DEF Init
  <2>4. job \in [Runners -> Deploys \cup {Nobody}]
    <3>1. \A r \in Runners : r # Resumer => r \in Deploys
      BY ConstantsAssumption DEF Runners, Resumer, Deploys
    <3> QED
      BY <1>1, <3>1 DEF Init
  <2>5. TasksTyped
    BY <1>1, <2>3, <2>4 DEF Init, TasksTyped, PCs
  <2>6. LoopsTyped
    BY <1>1 DEF Init, LoopsTyped, ProjStatuses
  <2>7. CountersTyped
    BY <1>1 DEF Init, CountersTyped
  <2>8. JobsTyped
    BY <1>1, Identities DEF Init, JobsTyped, Working
  <2> QED
    BY <2>1, <2>2, <2>5, <2>6, <2>7, <2>8 DEF TypeOK
<1>2. TypeOK /\ [Next]_vars => TypeOK'
  BY RowsStep, ChannelsStep, TasksStep, LoopsStep, CountersStep, JobsStep DEF TypeOK
<1> QED
  BY <1>1, <1>2, PTL DEF Spec

----------------------------------------------------------------------------
(* One build per node *)

\* The strengthening: a task past the slot is the one recorded in the slot of
\* the very node it deploys to.
SlotInv == \A r \in Runners : HoldsSlot(r) => slot[node[r]] = r

LEMMA SlotStepInv == TypeOK /\ SlotInv /\ [Next]_vars => SlotInv'
<1> SUFFICES ASSUME TypeOK, SlotInv, [Next]_vars PROVE SlotInv'
  OBVIOUS
<1> USE Identities DEF SlotInv, HoldsSlot, Goto
<1>0. TasksTyped /\ LoopsTyped
  BY DEF TypeOK
<1> USE DEF TasksTyped
<1>1. ASSUME NEW d \in Deploys, Create(d) \/ MarkDeploying(d) \/ Age(d) PROVE SlotInv'
  BY <1>0, <1>1 DEF Create, MarkDeploying, Age, taskVars
<1>2. ASSUME NEW r \in Runners, StartStep(r) PROVE SlotInv'
  BY <1>0, <1>2 DEF StartStep, EarlyFail, LockStart, register_cancel, supersede_in_progress,
     SignalSuperseded, LeaveStart, Prepare
<1>3. ASSUME NEW r \in Runners, SlotStep(r) PROVE SlotInv'
  <2>1. CASE AcquireSlot(r)
    BY <1>0, <2>1 DEF AcquireSlot, SlotFree
  <2>2. ASSUME NEW verdict, LeaveSlot(r, verdict), node' = node PROVE SlotInv'
    BY <1>0, <2>2 DEF LeaveSlot
  <2>3. CASE Subscribe(r) \/ unregister_cancel(r)
    BY <1>0, <2>3 DEF Subscribe, unregister_cancel
  <2>4. CASE CheckBeforeWait(r) \/ RecheckCancelled(r) \/ mark_running_if_active(r)
    <3>1. CASE LeaveSlot(r, "cancelled")
      BY <2>2, <2>4, <3>1 DEF CheckBeforeWait, RecheckCancelled, mark_running_if_active
    <3>2. CASE ~LeaveSlot(r, "cancelled")
      BY <1>0, <2>4, <3>2 DEF CheckBeforeWait, RecheckCancelled, mark_running_if_active
    <3> QED
      BY <3>1, <3>2
  <2>5. CASE FinishBuild(r) \/ CancelWhileWaiting(r) \/ CancelBuild(r)
    BY <2>2, <2>5 DEF FinishBuild, CancelWhileWaiting, CancelBuild
  <2> QED
    BY <1>3, <2>1, <2>3, <2>4, <2>5 DEF SlotStep
<1>4. ASSUME NEW r \in Runners, EndStep(r) \/ FlushLogs(r) \/ Drop(r) PROVE SlotInv'
  BY <1>0, <1>4 DEF EndStep, finalize_if_active, WriteProject, Drop, FlushLogs, taskVars
<1>5. CASE ResumeStep \/ ResumeRefused \/ ResumeFenced
  BY <1>0, <1>5 DEF ResumeStep, requeue_interrupted, list_queued_deployments,
     try_claim_deployment, ResumeRefused, ResumeFenced, ResumerFree, taskVars
<1>6. CASE ReaperStep \/ UserStep
  BY <1>6 DEF ReaperStep, ReapSelect, ReapCheck, ReapMark, ReapProject,
     release_orphan_project_locks, UserStep, UserSignal, UserTeardownEnd, RecomputeRead,
     RecomputeWrite, taskVars
<1>7. CASE UserCall
  BY <1>7 DEF UserCall, cancel_one_deployment, dismiss_deployment, delete_deployment,
     teardown, taskVars
<1>8. CASE Crash
  BY <1>8 DEF Crash
<1>9. CASE UNCHANGED vars
  BY <1>9 DEF vars, taskVars
<1> QED
  BY <1>1, <1>2, <1>3, <1>4, <1>5, <1>6, <1>7, <1>8, <1>9 DEF Next, RunnerStep

\* run_in_node_slot: two tasks are never both past the slot of one node, for any
\* number of tasks and nodes, crashes, dropped tasks and cancels included.
THEOREM NodeExclusive == Spec => []NodeExclusion
<1>1. Init => SlotInv
  BY DEF Init, SlotInv, HoldsSlot
<1>2. SlotInv => NodeExclusion
  BY DEF SlotInv, NodeExclusion
<1> QED
  BY <1>1, <1>2, TypeCorrect, SlotStepInv, PTL DEF Spec

----------------------------------------------------------------------------
(* What a step may do to a row *)

\* A terminal row keeps its status or is deleted, and no row but a new one becomes
\* active: every UPDATE of the code is conditional on the status it replaces.
RowStep(d) ==
    /\ status[d] \in Terminal => status'[d] \in {status[d], "deleted"}
    /\ status'[d] \in Active => status[d] \in Active \cup {"absent"}
    /\ status[d] = "deleted" => status'[d] = "deleted"

LEMMA RowsMoveForward == TypeOK /\ [Next]_vars => (of' = of) /\ \A d \in Deploys : RowStep(d)
<1> SUFFICES ASSUME TypeOK, [Next]_vars PROVE of' = of /\ \A d \in Deploys : RowStep(d)
  OBVIOUS
<1> DEFINE Goal == of' = of /\ \A d \in Deploys : RowStep(d)
<1> USE DEF RowStep, RowsTyped, rowVars, Statuses, Active, Terminal
<1>0. RowsTyped /\ TasksTyped /\ LoopsTyped
  BY DEF TypeOK
<1>1. ASSUME NEW d \in Deploys, Create(d) \/ MarkDeploying(d) \/ Age(d) PROVE Goal
  BY <1>0, <1>1 DEF Create, MarkDeploying, Age
<1>2. ASSUME NEW r \in Runners, StartStep(r) PROVE Goal
  BY <1>0, <1>2 DEF StartStep, EarlyFail, LockStart, register_cancel, supersede_in_progress,
     SignalSuperseded, LeaveStart, Prepare, Victims
<1>3. ASSUME NEW r \in Runners, SlotStep(r) \/ FlushLogs(r) \/ Drop(r) PROVE Goal
  BY <1>0, <1>3 DEF SlotStep, Subscribe, CheckBeforeWait, AcquireSlot, CancelWhileWaiting,
     RecheckCancelled, mark_running_if_active, FinishBuild, CancelBuild, unregister_cancel,
     FlushLogs, Drop
<1>4. ASSUME NEW r \in Runners, EndStep(r) PROVE Goal
  <2>1. Verdict(r) \in Terminal
    BY <1>0 DEF TasksTyped, Verdict
  <2> QED
    BY <1>0, <1>4, <2>1 DEF EndStep, finalize_if_active, WriteProject, Writable
<1>5. CASE ResumeStep \/ ResumeRefused \/ ResumeFenced
  BY <1>0, <1>5 DEF ResumeStep, requeue_interrupted, list_queued_deployments,
     try_claim_deployment, ResumeRefused, ResumeFenced
<1>6. CASE ReaperStep
  BY <1>0, <1>6 DEF ReaperStep, ReapSelect, ReapCheck, ReapMark, ReapProject,
     release_orphan_project_locks
<1>7. CASE UserCall
  BY <1>0, <1>7 DEF UserCall, cancel_one_deployment, dismiss_deployment, delete_deployment,
     teardown
<1>8. CASE UserStep
  BY <1>0, <1>8 DEF UserStep, UserSignal, UserTeardownEnd, RecomputeRead, RecomputeWrite
<1>9. CASE Crash
  BY <1>0, <1>9 DEF Crash
<1>10. CASE UNCHANGED vars
  BY <1>0, <1>10 DEF vars
<1> QED
  BY <1>1, <1>2, <1>3, <1>4, <1>5, <1>6, <1>7, <1>8, <1>9, <1>10 DEF Next, RunnerStep

\* finalize_if_active, mark_running_if_active, try_claim_deployment, the reaper and the
\* cancels never rewrite a terminal status, whatever they read before.
THEOREM TerminalStaysTerminal == Spec => TerminalIsFinal
<1>1. TypeOK /\ [Next]_vars =>
        [\A d \in Deploys :
           status[d] \in Terminal => status'[d] \in {status[d], "deleted"}]_vars
  BY RowsMoveForward DEF RowStep
<1> QED
  BY <1>1, TypeCorrect, PTL DEF Spec, TerminalIsFinal

----------------------------------------------------------------------------
(* One live deployment per project and environment *)

\* A task past supersede_in_progress was already there, for the same deployment, or
\* has just executed it.
LEMMA SupersederStep ==
    ASSUME TypeOK, [Next]_vars, NEW r \in Runners, Superseder(r)'
    PROVE  /\ job'[r] = job[r]
           /\ Superseder(r) \/ supersede_in_progress(r)
<1> DEFINE Goal == job'[r] = job[r] /\ (Superseder(r) \/ supersede_in_progress(r))
<1> USE Identities DEF Superseder, Goto
<1>0. TasksTyped /\ LoopsTyped
  BY DEF TypeOK
<1> USE DEF TasksTyped
<1>1. ASSUME NEW d \in Deploys, Create(d) \/ MarkDeploying(d) \/ Age(d) PROVE Goal
  BY <1>0, <1>1 DEF Create, MarkDeploying, Age, taskVars
<1>2. ASSUME NEW q \in Runners, StartStep(q) PROVE Goal
  <2>1. CASE supersede_in_progress(q)
    BY <1>0, <2>1 DEF supersede_in_progress
  <2>2. CASE ~supersede_in_progress(q)
    BY <1>0, <1>2, <2>2 DEF StartStep, EarlyFail, LockStart, register_cancel,
       SignalSuperseded, LeaveStart, Prepare
  <2> QED
    BY <2>1, <2>2
<1>3. ASSUME NEW q \in Runners, SlotStep(q) \/ FlushLogs(q) PROVE Goal
  BY <1>0, <1>3 DEF SlotStep, Subscribe, CheckBeforeWait, AcquireSlot, CancelWhileWaiting,
     RecheckCancelled, mark_running_if_active, FinishBuild, CancelBuild, unregister_cancel,
     FlushLogs, LeaveSlot, taskVars
<1>4. ASSUME NEW q \in Runners, EndStep(q) \/ Drop(q) PROVE Goal
  BY <1>0, <1>4 DEF EndStep, finalize_if_active, WriteProject, Drop
<1>5. CASE ResumeStep \/ ResumeRefused \/ ResumeFenced
  BY <1>0, <1>5 DEF ResumeStep, requeue_interrupted, list_queued_deployments,
     try_claim_deployment, ResumeRefused, ResumeFenced, ResumerFree, taskVars
<1>6. CASE ReaperStep \/ UserStep
  BY <1>6 DEF ReaperStep, ReapSelect, ReapCheck, ReapMark, ReapProject,
     release_orphan_project_locks, UserStep, UserSignal, UserTeardownEnd, RecomputeRead,
     RecomputeWrite, taskVars
<1>7. CASE UserCall
  BY <1>7 DEF UserCall, cancel_one_deployment, dismiss_deployment, delete_deployment,
     teardown, taskVars
<1>8. CASE Crash
  BY <1>8 DEF Crash
<1>9. CASE UNCHANGED vars
  BY <1>9 DEF vars, taskVars
<1> QED
  BY <1>1, <1>2, <1>3, <1>4, <1>5, <1>6, <1>7, <1>8, <1>9 DEF Next, RunnerStep

\* supersede_in_progress: of two deployments of one project and environment that both
\* executed it, at most one row is still active, in every reachable state.
THEOREM LoneActiveHolds == Spec => []LoneActive
<1>1. Init => LoneActive
  BY DEF Init, LoneActive, Superseder
<1>2. ASSUME TypeOK, LoneActive, [Next]_vars PROVE LoneActive'
  <2> SUFFICES ASSUME NEW r \in Runners, NEW q \in Runners,
                      Superseder(r)', Superseder(q)',
                      job'[r] # job'[q], SameTarget(job[r], job[q])',
                      status'[job'[r]] \in Active, status'[job'[q]] \in Active
               PROVE  FALSE
    BY DEF LoneActive
  <2>1. of' = of /\ \A d \in Deploys : RowStep(d)
    BY <1>2, RowsMoveForward
  <2>2. /\ job'[r] = job[r] /\ job'[q] = job[q]
        /\ Superseder(r) \/ supersede_in_progress(r)
        /\ Superseder(q) \/ supersede_in_progress(q)
    BY <1>2, SupersederStep
  <2>3. Working(r) /\ Working(q)
    BY <2>2 DEF Superseder, Working, supersede_in_progress
  <2>4. /\ job[r] \in Deploys /\ job[q] \in Deploys
        /\ status[job[r]] # "absent" /\ status[job[q]] # "absent"
    BY <1>2, <2>3 DEF TypeOK, JobsTyped
  <2>5. status[job[r]] \in Active /\ status[job[q]] \in Active
    BY <2>1, <2>2, <2>4 DEF RowStep
  <2>6. SameTarget(job[r], job[q]) /\ SameTarget(job[q], job[r])
    BY <2>1, <2>2 DEF SameTarget, proj, env
  <2>7. ASSUME NEW x \in Runners, NEW y \in Runners, supersede_in_progress(x),
               job[x] # job[y], SameTarget(job[y], job[x]), job[y] \in Deploys,
               status[job[y]] \in Active
        PROVE  status'[job[y]] \notin Active
    <3>1. job[y] \in Victims(x)
      BY <2>7 DEF Victims
    <3>2. status'[job[y]] = "cancelled"
      BY <2>7, <3>1 DEF supersede_in_progress
    <3> QED
      BY <3>2 DEF Active
  <2>8. Superseder(r) /\ Superseder(q)
    BY <2>2, <2>4, <2>5, <2>6, <2>7
  <2> QED
    BY <1>2, <2>2, <2>5, <2>6, <2>8 DEF LoneActive
<1> QED
  BY <1>1, <1>2, TypeCorrect, PTL DEF Spec

----------------------------------------------------------------------------
(* One task per deployment, when the listing precedes the first request *)

\* The strengthening: before the boot listing nothing runs; a uuid still on the list
\* has an inserted row and no task; the resume task works for a row without a task.
ResumeInv ==
    /\ resume.pc # "loop" => resume.todo = {} /\ \A r \in Runners : ~Working(r)
    /\ \A d \in resume.todo : status[d] # "absent" /\ ~Working(d)
    /\ Working(Resumer) => ~Working(job[Resumer])

\* Rows never go back to "absent": the resume list keeps naming real rows.
LEMMA RowsStayInserted ==
    ASSUME TypeOK, [Next]_vars, NEW d \in Deploys, status[d] # "absent"
    PROVE  status'[d] # "absent"
<1> USE DEF RowsTyped, rowVars, Statuses, Active, Terminal
<1>0. RowsTyped /\ TasksTyped /\ LoopsTyped
  BY DEF TypeOK
<1>1. ASSUME NEW e \in Deploys, Create(e) \/ MarkDeploying(e) \/ Age(e)
      PROVE  status'[d] # "absent"
  BY <1>0, <1>1 DEF Create, MarkDeploying, Age
<1>2. ASSUME NEW r \in Runners, StartStep(r) PROVE status'[d] # "absent"
  BY <1>0, <1>2 DEF StartStep, EarlyFail, LockStart, register_cancel, supersede_in_progress,
     SignalSuperseded, LeaveStart, Prepare
<1>3. ASSUME NEW r \in Runners, SlotStep(r) \/ FlushLogs(r) \/ Drop(r)
      PROVE  status'[d] # "absent"
  BY <1>0, <1>3 DEF SlotStep, Subscribe, CheckBeforeWait, AcquireSlot, CancelWhileWaiting,
     RecheckCancelled, mark_running_if_active, FinishBuild, CancelBuild, unregister_cancel,
     FlushLogs, Drop
<1>4. ASSUME NEW r \in Runners, EndStep(r) PROVE status'[d] # "absent"
  <2>1. Verdict(r) \in Terminal
    BY <1>0 DEF TasksTyped, Verdict
  <2> QED
    BY <1>0, <1>4, <2>1 DEF EndStep, finalize_if_active, WriteProject
<1>5. CASE ResumeStep \/ ResumeRefused \/ ResumeFenced
  BY <1>0, <1>5 DEF ResumeStep, requeue_interrupted, list_queued_deployments,
     try_claim_deployment, ResumeRefused, ResumeFenced
<1>6. CASE ReaperStep
  BY <1>0, <1>6 DEF ReaperStep, ReapSelect, ReapCheck, ReapMark, ReapProject,
     release_orphan_project_locks
<1>7. CASE UserCall \/ UserStep
  BY <1>0, <1>7 DEF UserCall, cancel_one_deployment, dismiss_deployment, delete_deployment,
     teardown, UserStep, UserSignal, UserTeardownEnd, RecomputeRead, RecomputeWrite
<1>8. CASE Crash \/ UNCHANGED vars
  BY <1>0, <1>8 DEF Crash, vars
<1> QED
  BY <1>1, <1>2, <1>3, <1>4, <1>5, <1>6, <1>7, <1>8 DEF Next, RunnerStep

LEMMA ResumeInvStep ==
    ~AcceptsBeforeResume /\ TypeOK /\ ResumeInv /\ [Next]_vars => ResumeInv'
<1> SUFFICES ASSUME ~AcceptsBeforeResume, TypeOK, ResumeInv, [Next]_vars PROVE ResumeInv'
  OBVIOUS
<1> USE Identities DEF Goto
<1>0. TasksTyped /\ LoopsTyped /\ JobsTyped
  BY DEF TypeOK
<1>00. \A d \in Deploys : status[d] # "absent" => status'[d] # "absent"
  BY RowsStayInserted
<1>a. ASSUME UNCHANGED <<pc, job, resume>> PROVE ResumeInv'
  BY <1>0, <1>00, <1>a DEF ResumeInv, Working, LoopsTyped
<1>b. ASSUME NEW r \in Runners, Working(r), UNCHANGED <<job, resume>>,
             \A q \in Runners : q # r => pc'[q] = pc[q]
      PROVE  ResumeInv'
  <2>1. \A q \in Runners : Working(q)' => Working(q)
    BY <1>b DEF Working
  <2>2. job[Resumer] \in Runners \/ ~Working(Resumer)
    BY <1>0 DEF JobsTyped
  <2> QED
    BY <1>0, <1>00, <1>b, <2>1, <2>2 DEF ResumeInv, LoopsTyped
<1>1. ASSUME NEW d \in Deploys, Create(d) PROVE ResumeInv'
  <2>1. resume.pc = "loop" /\ status[d] = "absent" /\ UNCHANGED <<job, resume>>
    BY <1>1 DEF Create, loopVars
  <2>2. d \notin resume.todo
    BY <2>1 DEF ResumeInv
  <2>3. \A q \in Runners : q # d => pc'[q] = pc[q]
    BY <1>0, <1>1 DEF Create, TasksTyped
  <2>4. Working(Resumer) => job[Resumer] \in Deploys /\ job[Resumer] # d
    BY <1>0, <2>1 DEF JobsTyped
  <2> QED
    BY <1>0, <1>00, <2>1, <2>2, <2>3, <2>4 DEF ResumeInv, Working, LoopsTyped
<1>2. ASSUME NEW d \in Deploys, MarkDeploying(d) \/ Age(d) PROVE ResumeInv'
  <2>1. CASE MarkDeploying(d)
    <3>1. Working(d) /\ UNCHANGED <<job, resume>> /\ \A q \in Runners : q # d => pc'[q] = pc[q]
      BY <1>0, <2>1 DEF MarkDeploying, Working, loopVars, TasksTyped
    <3> QED
      BY <1>b, <3>1
  <2>2. CASE Age(d)
    BY <1>a, <2>2 DEF Age, taskVars, loopVars
  <2> QED
    BY <1>2, <2>1, <2>2
<1>3. ASSUME NEW r \in Runners, RunnerStep(r) PROVE ResumeInv'
  <2>1. Working(r)
    BY <1>3 DEF Working, RunnerStep, StartStep, EarlyFail, LockStart, register_cancel,
       supersede_in_progress, SignalSuperseded, LeaveStart, Prepare, SlotStep, Subscribe,
       CheckBeforeWait, AcquireSlot, CancelWhileWaiting, RecheckCancelled,
       mark_running_if_active, FinishBuild, CancelBuild, unregister_cancel, EndStep,
       finalize_if_active, WriteProject
  <2>2. UNCHANGED <<job, resume>>
    BY <1>3 DEF loopVars, RunnerStep, StartStep, EarlyFail, LockStart, register_cancel,
       supersede_in_progress, SignalSuperseded, LeaveStart, Prepare, SlotStep, Subscribe,
       CheckBeforeWait, AcquireSlot, CancelWhileWaiting, RecheckCancelled,
       mark_running_if_active, FinishBuild, CancelBuild, unregister_cancel, EndStep,
       finalize_if_active, WriteProject
  <2>3. \A q \in Runners : q # r => pc'[q] = pc[q]
    <3>1. pc' = pc \/ \E label \in PCs : pc' = [pc EXCEPT ![r] = label]
      BY <1>3 DEF RunnerStep, StartStep, EarlyFail, LockStart, register_cancel,
         supersede_in_progress, SignalSuperseded, LeaveStart, Prepare, SlotStep, Subscribe,
         CheckBeforeWait, AcquireSlot, CancelWhileWaiting, RecheckCancelled,
         mark_running_if_active, FinishBuild, CancelBuild, unregister_cancel, EndStep,
         finalize_if_active, WriteProject, LeaveSlot, PCs
    <3> QED
      BY <1>0, <3>1 DEF TasksTyped
  <2> QED
    BY <1>b, <2>1, <2>2, <2>3
<1>4. ASSUME NEW r \in Runners, FlushLogs(r) PROVE ResumeInv'
  BY <1>a, <1>4 DEF FlushLogs, taskVars, loopVars
<1>5. ASSUME NEW r \in Runners, Drop(r) PROVE ResumeInv'
  <2>1. \A q \in Runners : Working(q)' => Working(q)
    BY <1>0, <1>5 DEF Drop, Working, TasksTyped
  <2>2. job' = job /\ resume'.pc = resume.pc /\ resume'.todo \subseteq resume.todo
    BY <1>0, <1>5 DEF Drop, LoopsTyped
  <2>3. job[Resumer] \in Runners \/ ~Working(Resumer)
    BY <1>0 DEF JobsTyped
  <2> QED
    BY <1>0, <1>00, <2>1, <2>2, <2>3 DEF ResumeInv, LoopsTyped
<1>6. CASE requeue_interrupted \/ ResumeRefused \/ ResumeFenced
  <2>1. UNCHANGED <<pc, job>> /\ (resume'.todo = {} \/ resume'.todo = resume.todo)
    BY <1>0, <1>6 DEF requeue_interrupted, ResumeRefused, ResumeFenced, taskVars, LoopsTyped
  <2>2. resume'.pc # "loop" => resume.pc # "loop"
    BY <1>0, <1>6 DEF requeue_interrupted, ResumeRefused, ResumeFenced, LoopsTyped
  <2> QED
    BY <1>0, <1>00, <2>1, <2>2 DEF ResumeInv, Working, LoopsTyped
<1>7. CASE list_queued_deployments
  <2>1. UNCHANGED <<pc, job>> /\ resume.pc # "loop" /\ resume'.pc = "loop"
    BY <1>7 DEF list_queued_deployments, Listing, taskVars
  <2>2. \A d \in resume'.todo : d \in Deploys /\ status[d] # "absent"
    BY <1>7 DEF list_queued_deployments
  <2> QED
    BY <1>00, <2>1, <2>2 DEF ResumeInv, Working
<1>8. CASE try_claim_deployment
  <2>1. PICK d \in resume.todo :
          /\ resume' = [resume EXCEPT !.todo = @ \ {d}]
          /\ IF status[d] = "queued"
             THEN /\ job' = [job EXCEPT ![Resumer] = d]
                  /\ Goto(Resumer, IF env(d) = "preview" THEN "finalize" ELSE "spawned")
             ELSE UNCHANGED <<job, pc>>
    BY <1>8 DEF try_claim_deployment
  <2>2. d \in Deploys /\ d # Resumer /\ resume.pc = "loop" /\ ~Working(d)
    BY <1>0 DEF ResumeInv, LoopsTyped
  <2>3. resume'.pc = "loop" /\ resume'.todo \subseteq resume.todo
    BY <1>0, <2>1, <2>2 DEF LoopsTyped
  <2>4. \A q \in Deploys : pc'[q] = pc[q]
    BY <1>0, <2>1 DEF TasksTyped
  <2>5. Working(Resumer)' => job'[Resumer] = d
    BY <1>0, <1>8, <2>1 DEF TasksTyped, Working, try_claim_deployment, ResumerFree
  <2> QED
    BY <1>0, <1>00, <2>2, <2>3, <2>4, <2>5 DEF ResumeInv, Working, LoopsTyped
<1>9. CASE ReaperStep \/ UserStep
  BY <1>a, <1>9 DEF ReaperStep, ReapSelect, ReapCheck, ReapMark, ReapProject,
     release_orphan_project_locks, UserStep, UserSignal, UserTeardownEnd, RecomputeRead,
     RecomputeWrite, taskVars
<1>10. CASE UserCall
  BY <1>a, <1>10 DEF UserCall, cancel_one_deployment, dismiss_deployment, delete_deployment,
     teardown, taskVars
<1>11. CASE Crash
  BY <1>11 DEF Crash, ResumeInv, Working
<1>12. CASE UNCHANGED vars
  BY <1>a, <1>12 DEF vars, taskVars, loopVars
<1> QED
  BY <1>1, <1>2, <1>3, <1>4, <1>5, <1>6, <1>7, <1>8, <1>9, <1>10, <1>11, <1>12
     DEF Next, ResumeStep

\* resume_deploy_queue: when no deployment starts before the boot listing, a deployment is
\* never worked on by the resume task and by the task of its request together.
THEOREM OneTaskHolds == ~AcceptsBeforeResume /\ Spec => []OneTaskPerDeployment
<1> SUFFICES ASSUME ~AcceptsBeforeResume PROVE Spec => []OneTaskPerDeployment
  OBVIOUS
<1>1. Init => ResumeInv
  BY Identities DEF Init, ResumeInv, Working
<1>2. TypeOK /\ ResumeInv /\ [Next]_vars => ResumeInv'
  BY ResumeInvStep
<1>3. TypeOK /\ ResumeInv => OneTaskPerDeployment
  <2>1. \A r \in Runners : r \in Deploys \/ r = Resumer
    BY ConstantsAssumption DEF Runners, Resumer, Deploys
  <2> QED
    BY <2>1, Identities DEF TypeOK, JobsTyped, ResumeInv, OneTaskPerDeployment
<1> QED
  BY <1>1, <1>2, <1>3, TypeCorrect, PTL DEF Spec

----------------------------------------------------------------------------
(* A run that lost its row stays silent *)

\* A task about to write the project was there already, or has just written its row.
LEMMA PublisherStep ==
    ASSUME TypeOK, [Next]_vars, NEW r \in Runners, pc'[r] = "project"
    PROVE  \/ pc[r] = "project" /\ job'[r] = job[r] /\ out'[r] = out[r]
           \/ finalize_if_active(r)
<1> DEFINE Goal == \/ pc[r] = "project" /\ job'[r] = job[r] /\ out'[r] = out[r]
                   \/ finalize_if_active(r)
<1> USE Identities DEF Goto
<1>0. TasksTyped /\ LoopsTyped
  BY DEF TypeOK
<1> USE DEF TasksTyped
<1>1. ASSUME NEW d \in Deploys, Create(d) \/ MarkDeploying(d) \/ Age(d) PROVE Goal
  BY <1>0, <1>1 DEF Create, MarkDeploying, Age, taskVars
<1>2. ASSUME NEW q \in Runners, StartStep(q) PROVE Goal
  BY <1>0, <1>2 DEF StartStep, EarlyFail, LockStart, register_cancel, supersede_in_progress,
     SignalSuperseded, LeaveStart, Prepare
<1>3. ASSUME NEW q \in Runners, SlotStep(q) PROVE Goal
  BY <1>0, <1>3 DEF SlotStep, Subscribe, CheckBeforeWait, AcquireSlot, CancelWhileWaiting,
     RecheckCancelled, mark_running_if_active, FinishBuild, CancelBuild, unregister_cancel,
     LeaveSlot
<1>4. ASSUME NEW q \in Runners, EndStep(q) \/ FlushLogs(q) \/ Drop(q) PROVE Goal
  <2>1. CASE finalize_if_active(q)
    <3>1. q = r \/ (pc'[r] = pc[r] /\ job' = job /\ out' = out)
      BY <1>0, <2>1 DEF finalize_if_active
    <3> QED
      BY <2>1, <3>1
  <2>2. CASE ~finalize_if_active(q)
    BY <1>0, <1>4, <2>2 DEF EndStep, WriteProject, Drop, FlushLogs, taskVars
  <2> QED
    BY <2>1, <2>2
<1>5. CASE ResumeStep \/ ResumeRefused \/ ResumeFenced
  BY <1>0, <1>5 DEF ResumeStep, requeue_interrupted, list_queued_deployments,
     try_claim_deployment, ResumeRefused, ResumeFenced, ResumerFree, taskVars
<1>6. CASE ReaperStep \/ UserStep
  BY <1>6 DEF ReaperStep, ReapSelect, ReapCheck, ReapMark, ReapProject,
     release_orphan_project_locks, UserStep, UserSignal, UserTeardownEnd, RecomputeRead,
     RecomputeWrite, taskVars
<1>7. CASE UserCall
  BY <1>7 DEF UserCall, cancel_one_deployment, dismiss_deployment, delete_deployment,
     teardown, taskVars
<1>8. CASE Crash \/ UNCHANGED vars
  BY <1>8 DEF Crash, vars, taskVars
<1> QED
  BY <1>1, <1>2, <1>3, <1>4, <1>5, <1>6, <1>7, <1>8 DEF Next, RunnerStep

\* finalize_if_active: for any number of deployments, faults and cancels, the poller, the
\* webhooks and the resume loop write projects.status only with the verdict of their row.
THEOREM ProjectFollowsRowHolds == Spec => []ProjectFollowsRow
<1>1. Init => ProjectFollowsRow
  BY DEF Init, ProjectFollowsRow
<1>2. ASSUME TypeOK, ProjectFollowsRow, [Next]_vars PROVE ProjectFollowsRow'
  <2> SUFFICES ASSUME NEW r \in Runners, pc'[r] = "project", Guarded(r)'
               PROVE  status'[job'[r]] \in {Verdict(r)', "deleted"}
    BY DEF ProjectFollowsRow
  <2>1. of' = of /\ \A d \in Deploys : RowStep(d)
    BY <1>2, RowsMoveForward
  <2>2. TasksTyped /\ JobsTyped /\ RowsTyped
    BY <1>2 DEF TypeOK
  <2>3. CASE pc[r] = "project" /\ job'[r] = job[r] /\ out'[r] = out[r]
    <3>1. Guarded(r) /\ Verdict(r)' = Verdict(r) /\ Verdict(r) \in Terminal
      BY <2>1, <2>2, <2>3 DEF Guarded, Manual, env, Verdict, Terminal, TasksTyped
    <3>2. job[r] \in Deploys /\ status[job[r]] \in {Verdict(r), "deleted"}
      BY <1>2, <2>2, <2>3, <3>1 DEF ProjectFollowsRow, JobsTyped, Working
    <3>3. status[job[r]] = "deleted" => status'[job[r]] = "deleted"
      BY <2>1, <3>2 DEF RowStep
    <3> QED
      BY <2>1, <2>3, <3>1, <3>2, <3>3 DEF RowStep
  <2>4. CASE finalize_if_active(r)
    <3>1. job' = job /\ out' = out /\ job[r] \in Deploys
      BY <2>2, <2>4 DEF finalize_if_active, JobsTyped, Working
    <3>2. Verdict(r)' = Verdict(r) /\ Guarded(r)
      BY <2>1, <3>1 DEF Verdict, Guarded, Manual, env
    <3>3. status' = [status EXCEPT ![job[r]] = Verdict(r)]
      BY <2>2, <2>4, <3>2 DEF finalize_if_active, Publishes, Guarded, Goto, TasksTyped
    <3> QED
      BY <2>2, <3>1, <3>2, <3>3 DEF RowsTyped
  <2> QED
    BY <1>2, <2>3, <2>4, PublisherStep
<1> QED
  BY <1>1, <1>2, TypeCorrect, PTL DEF Spec

----------------------------------------------------------------------------
(* A cancel reaches the build *)

\* The strengthening: from its registration to its exit a task's sender is the one
\* registered for its deployment; from its subscription to the end of the build it
\* listens to it; rows still to be signalled are kept by a task in its start block or by a
\* handler that signals.
Registered(r) == pc[r] \in {"supersede", "signal", "prep", "enter", "check", "wait",
                            "held", "claim", "build", "exit"}
Listens(r)    == pc[r] \in {"check", "wait", "held", "claim", "build"}
Announced(d)  == d \in user.pend \/ \E q \in Runners : d \in pend[q]

ChannelInv == \A r \in Runners : /\ Registered(r) => registry[job[r]] = r
                                 /\ Listens(r) => rx[r] = r
PendingInv ==
    /\ \A r \in Runners : pend[r] # {} => pc[r] = "signal"
    /\ user.pend # {} => user.pc \in {"signal", "teardown"}
SignalInv ==
    \A r \in Runners : pc[r] = "build" /\ status[job[r]] = "cancelled"
                         => r \in fired \/ Announced(job[r])

LEMMA ChannelStep ==
    TypeOK /\ OneTaskPerDeployment /\ ChannelInv /\ [Next]_vars => ChannelInv'
<1> SUFFICES ASSUME TypeOK, OneTaskPerDeployment, ChannelInv, [Next]_vars PROVE ChannelInv'
  OBVIOUS
<1> USE Identities DEF ChannelInv, Registered, Listens, Goto
<1>0. TasksTyped /\ LoopsTyped /\ ChannelsTyped /\ JobsTyped
  BY DEF TypeOK
<1> USE DEF TasksTyped, ChannelsTyped
<1>a. ASSUME NEW r \in Runners, Registered(r) PROVE Working(r) /\ job[r] \in Deploys
  BY <1>0, <1>a DEF Working, JobsTyped
<1>1. ASSUME NEW d \in Deploys, Create(d) \/ MarkDeploying(d) \/ Age(d) PROVE ChannelInv'
  BY <1>0, <1>1 DEF Create, MarkDeploying, Age, taskVars, chanVars
<1>2. ASSUME NEW r \in Runners, StartStep(r) PROVE ChannelInv'
  <2>1. CASE register_cancel(r)
    <3>1. Working(r) /\ job[r] \in Deploys
      BY <1>0, <2>1 DEF register_cancel, Working, JobsTyped
    <3>2. \A q \in Runners : q # r /\ Registered(q) => job[q] # job[r]
      BY <1>a, <3>1 DEF OneTaskPerDeployment
    <3> QED
      BY <1>0, <1>a, <2>1, <3>1, <3>2 DEF register_cancel
  <2>2. CASE ~register_cancel(r)
    BY <1>0, <1>2, <2>2 DEF StartStep, EarlyFail, LockStart, supersede_in_progress,
       SignalSuperseded, LeaveStart, Prepare, chanVars
  <2> QED
    BY <2>1, <2>2
<1>3. ASSUME NEW r \in Runners, SlotStep(r) PROVE ChannelInv'
  <2>1. CASE unregister_cancel(r)
    <3>1. \A q \in Runners : q # r /\ Registered(q) => job[q] # job[r]
      BY <1>a, <2>1 DEF OneTaskPerDeployment, unregister_cancel
    <3> QED
      BY <1>0, <1>a, <2>1, <3>1 DEF unregister_cancel
  <2>2. CASE Subscribe(r)
    BY <1>0, <2>2 DEF Subscribe, ChannelToListen
  <2>3. CASE AcquireSlot(r)
    BY <1>0, <2>3 DEF AcquireSlot, chanVars
  <2>4. ASSUME NEW verdict, LeaveSlot(r, verdict), Registered(r), UNCHANGED <<registry, job>>
        PROVE  ChannelInv'
    BY <1>0, <2>4 DEF LeaveSlot
  <2>5. CASE CheckBeforeWait(r) \/ RecheckCancelled(r) \/ mark_running_if_active(r)
    <3>1. CASE LeaveSlot(r, "cancelled")
      BY <2>4, <2>5, <3>1 DEF CheckBeforeWait, RecheckCancelled, mark_running_if_active
    <3>2. CASE ~LeaveSlot(r, "cancelled")
      BY <1>0, <2>5, <3>2 DEF CheckBeforeWait, RecheckCancelled, mark_running_if_active
    <3> QED
      BY <3>1, <3>2
  <2>6. CASE FinishBuild(r) \/ CancelWhileWaiting(r) \/ CancelBuild(r)
    BY <2>4, <2>6 DEF FinishBuild, CancelWhileWaiting, CancelBuild
  <2> QED
    BY <1>3, <2>1, <2>2, <2>3, <2>5, <2>6 DEF SlotStep
<1>4. ASSUME NEW r \in Runners, EndStep(r) \/ FlushLogs(r) \/ Drop(r) PROVE ChannelInv'
  BY <1>0, <1>4 DEF EndStep, finalize_if_active, WriteProject, Drop, FlushLogs, taskVars,
     chanVars
<1>5. CASE ResumeStep \/ ResumeRefused \/ ResumeFenced
  BY <1>0, <1>5 DEF ResumeStep, requeue_interrupted, list_queued_deployments,
     try_claim_deployment, ResumeRefused, ResumeFenced, ResumerFree, taskVars, chanVars
<1>6. CASE ReaperStep \/ UserStep
  BY <1>6 DEF ReaperStep, ReapSelect, ReapCheck, ReapMark, ReapProject,
     release_orphan_project_locks, UserStep, UserSignal, UserTeardownEnd, RecomputeRead,
     RecomputeWrite, taskVars, chanVars
<1>7. CASE UserCall
  BY <1>7 DEF UserCall, cancel_one_deployment, dismiss_deployment, delete_deployment,
     teardown, taskVars, chanVars
<1>8. CASE Crash \/ UNCHANGED vars
  BY <1>8 DEF Crash, vars, taskVars, chanVars
<1> QED
  BY <1>1, <1>2, <1>3, <1>4, <1>5, <1>6, <1>7, <1>8 DEF Next, RunnerStep

LEMMA PendingStep == TypeOK /\ PendingInv /\ [Next]_vars => PendingInv'
<1> SUFFICES ASSUME TypeOK, PendingInv, [Next]_vars PROVE PendingInv'
  OBVIOUS
<1> USE Identities DEF PendingInv, Goto
<1>0. TasksTyped /\ LoopsTyped
  BY DEF TypeOK
<1> USE DEF TasksTyped, LoopsTyped
<1>1. ASSUME NEW d \in Deploys, Create(d) \/ MarkDeploying(d) \/ Age(d) PROVE PendingInv'
  <2>1. CASE Create(d)
    <3>1. pend[d] = {} /\ \A r \in Runners : r # d => pc'[r] = pc[r]
      BY <1>0, <2>1 DEF Create, TypeOK, JobsTyped, Working
    <3> QED
      BY <1>0, <2>1, <3>1 DEF Create, loopVars
  <2>2. CASE MarkDeploying(d) \/ Age(d)
    BY <1>0, <2>2 DEF MarkDeploying, Age, taskVars, loopVars
  <2> QED
    BY <1>1, <2>1, <2>2
<1>2. ASSUME NEW r \in Runners, StartStep(r) PROVE PendingInv'
  BY <1>0, <1>2 DEF StartStep, EarlyFail, LockStart, register_cancel, supersede_in_progress,
     SignalSuperseded, LeaveStart, Prepare, loopVars
<1>3. ASSUME NEW r \in Runners, SlotStep(r) PROVE PendingInv'
  BY <1>0, <1>3 DEF SlotStep, Subscribe, CheckBeforeWait, AcquireSlot, CancelWhileWaiting,
     RecheckCancelled, mark_running_if_active, FinishBuild, CancelBuild, unregister_cancel,
     LeaveSlot, loopVars
<1>4. ASSUME NEW r \in Runners, EndStep(r) \/ FlushLogs(r) \/ Drop(r) PROVE PendingInv'
  BY <1>0, <1>4 DEF EndStep, finalize_if_active, WriteProject, Drop, FlushLogs, taskVars,
     loopVars
<1>5. CASE ResumeStep \/ ResumeRefused \/ ResumeFenced
  BY <1>0, <1>5 DEF ResumeStep, requeue_interrupted, list_queued_deployments,
     try_claim_deployment, ResumeRefused, ResumeFenced, ResumerFree, taskVars
<1>6. CASE ReaperStep \/ UserStep
  BY <1>0, <1>6 DEF ReaperStep, ReapSelect, ReapCheck, ReapMark, ReapProject,
     release_orphan_project_locks, UserStep, UserSignal, UserTeardownEnd, RecomputeRead,
     RecomputeWrite, taskVars
<1>7. CASE UserCall
  BY <1>0, <1>7 DEF UserCall, UserOp, cancel_one_deployment, dismiss_deployment,
     delete_deployment, teardown, taskVars
<1>8. CASE Crash \/ UNCHANGED vars
  BY <1>0, <1>8 DEF Crash, vars, taskVars, loopVars
<1> QED
  BY <1>1, <1>2, <1>3, <1>4, <1>5, <1>6, <1>7, <1>8 DEF Next, RunnerStep

\* A row is cancelled with its announcement, by a statement of another deployment or of a
\* handler, and an announcement ends with a signal.
LEMMA SignalStep ==
    /\ MaxDrops = 0 /\ TypeOK /\ OneTaskPerDeployment
    /\ ChannelInv /\ PendingInv /\ SignalInv /\ [Next]_vars
    => SignalInv'
<1> SUFFICES ASSUME MaxDrops = 0, TypeOK, OneTaskPerDeployment, ChannelInv, PendingInv,
                    SignalInv, [Next]_vars,
                    NEW r \in Runners, pc'[r] = "build", status'[job'[r]] = "cancelled"
             PROVE  r \in fired' \/ Announced(job[r])'
  BY DEF SignalInv
<1> DEFINE d == job[r]
           Goal == r \in fired' \/ Announced(job[r])'
<1> USE Identities DEF Goto
<1>0. RowsTyped /\ TasksTyped /\ LoopsTyped /\ ChannelsTyped /\ JobsTyped
  BY DEF TypeOK
<1> USE DEF TasksTyped, ChannelsTyped
<1>b. pc[r] = "build" => d \in Deploys /\ registry[d] = r /\ rx[r] = r /\ Working(r)
  BY <1>0 DEF ChannelInv, Registered, Listens, Working, JobsTyped
\* A step that takes no announcement and no signal back.
<1>a. ASSUME pc[r] = "build", job'[r] = d, status[d] = "cancelled",
             r \in fired => r \in fired', user'.pend = user.pend,
             \A q \in Runners : pend[q] \subseteq pend'[q]
      PROVE  Goal
  BY <1>a DEF SignalInv, Announced
\* A signal is heard.
<1>c. ASSUME pc[r] = "build", signal_cancel(d) PROVE Goal
  BY <1>b, <1>c DEF signal_cancel, SendOn, Receivers
<1>d. ASSUME NEW e, signal_cancel(e) PROVE r \in fired => r \in fired'
  BY <1>d DEF signal_cancel
<1>e. ASSUME NEW q \in Runners, q # r, Working(q), pc[r] = "build" PROVE job[q] # d
  BY <1>b, <1>e DEF OneTaskPerDeployment
<1>1. ASSUME NEW e \in Deploys, Create(e) \/ MarkDeploying(e) \/ Age(e) PROVE Goal
  <2>1. pc[r] = "build" /\ job'[r] = d
    BY <1>0, <1>1 DEF Create, MarkDeploying, Age, taskVars
  <2>2. status[d] = "cancelled"
    BY <1>0, <1>1, <1>b, <2>1 DEF Create, MarkDeploying, Age, RowsTyped
  <2> QED
    BY <1>a, <1>1, <2>1, <2>2 DEF Create, MarkDeploying, Age, taskVars, chanVars, loopVars
<1>2. ASSUME NEW q \in Runners, StartStep(q) PROVE Goal
  <2>1. q # r /\ pc[r] = "build" /\ job'[r] = d /\ user' = user
    BY <1>0, <1>2 DEF StartStep, EarlyFail, LockStart, register_cancel,
       supersede_in_progress, SignalSuperseded, LeaveStart, Prepare, loopVars
  <2>2. CASE supersede_in_progress(q)
    <3>1. pend[q] = {}
      BY <2>2 DEF supersede_in_progress, PendingInv
    <3>2. CASE d \in Victims(q)
      BY <1>0, <2>1, <2>2, <3>2 DEF supersede_in_progress, Announced
    <3>3. CASE d \notin Victims(q)
      <4>1. status[d] = "cancelled" /\ fired' = fired
        BY <1>b, <2>1, <2>2, <3>3 DEF supersede_in_progress, chanVars
      <4>2. \A p \in Runners : pend[p] \subseteq pend'[p]
        BY <1>0, <2>2, <3>1 DEF supersede_in_progress
      <4> QED
        BY <1>a, <2>1, <4>1, <4>2
    <3> QED
      BY <3>2, <3>3
  <2>3. CASE SignalSuperseded(q)
    <3>1. PICK e \in pend[q] : signal_cancel(e) /\ pend' = [pend EXCEPT ![q] = @ \ {e}]
      BY <2>3 DEF SignalSuperseded
    <3>2. CASE e = d
      BY <1>c, <2>1, <3>1, <3>2
    <3>3. CASE e # d
      <4>1. status[d] = "cancelled"
        BY <2>1, <2>3 DEF SignalSuperseded, rowVars
      <4>2. r \in fired => r \in fired'
        BY <1>d, <3>1
      <4>3. \A p \in Runners : d \in pend[p] => d \in pend'[p]
        BY <1>0, <3>1, <3>3
      <4> QED
        BY <2>1, <4>1, <4>2, <4>3 DEF SignalInv, Announced
    <3> QED
      BY <3>2, <3>3
  <2>4. CASE ~supersede_in_progress(q) /\ ~SignalSuperseded(q)
    <3>1. status' = status /\ pend' = pend
      BY <1>2, <2>4 DEF StartStep, EarlyFail, LockStart, register_cancel, LeaveStart,
         Prepare, rowVars
    <3>2. r \in fired => r \in fired'
      BY <1>2, <2>1, <2>4 DEF StartStep, EarlyFail, LockStart, register_cancel, LeaveStart,
         Prepare, chanVars
    <3> QED
      BY <1>a, <2>1, <3>1, <3>2
  <2> QED
    BY <2>2, <2>3, <2>4
<1>3. ASSUME NEW q \in Runners, SlotStep(q) PROVE Goal
  <2>1. job' = job /\ pend' = pend /\ fired' = fired /\ user' = user
    BY <1>3 DEF SlotStep, Subscribe, CheckBeforeWait, AcquireSlot, CancelWhileWaiting,
       RecheckCancelled, mark_running_if_active, FinishBuild, CancelBuild,
       unregister_cancel, LeaveSlot, chanVars, loopVars
  <2>2. CASE mark_running_if_active(q)
    <3>1. CASE q = r
      BY <1>0, <2>1, <2>2, <3>1 DEF mark_running_if_active, LeaveSlot, RowsTyped, JobsTyped,
         Working
    <3>2. CASE q # r
      <4>1. pc[r] = "build" /\ Working(q)
        BY <1>0, <2>2, <3>2 DEF mark_running_if_active, LeaveSlot, Working
      <4>2. status[d] = "cancelled"
        <5>1. job[q] # d /\ d \in Deploys
          BY <1>b, <1>e, <3>2, <4>1
        <5>2. status' = status \/ status' = [status EXCEPT ![job[q]] = "running"]
          BY <2>2 DEF mark_running_if_active
        <5> QED
          BY <1>0, <2>1, <5>1, <5>2 DEF RowsTyped
      <4> QED
        BY <1>a, <2>1, <4>1, <4>2
    <3> QED
      BY <3>1, <3>2
  <2>3. CASE ~mark_running_if_active(q)
    <3>1. pc[r] = "build" /\ status' = status
      BY <1>0, <1>3, <2>3 DEF SlotStep, Subscribe, CheckBeforeWait, AcquireSlot,
         CancelWhileWaiting, RecheckCancelled, FinishBuild, CancelBuild, unregister_cancel,
         LeaveSlot, rowVars
    <3> QED
      BY <1>a, <2>1, <3>1
  <2> QED
    BY <2>2, <2>3
<1>4. ASSUME NEW q \in Runners, EndStep(q) \/ FlushLogs(q) PROVE Goal
  <2>1. /\ job' = job /\ pend' = pend /\ fired' = fired /\ user' = user
        /\ pc[r] = "build"
    BY <1>0, <1>4 DEF EndStep, finalize_if_active, WriteProject, FlushLogs, taskVars,
       chanVars, loopVars
  <2>2. status[d] = "cancelled"
    <3>1. CASE finalize_if_active(q)
      <4>1. Working(q) /\ q # r
        BY <2>1, <3>1 DEF finalize_if_active, Working
      <4> QED
        BY <1>b, <1>e, <2>1, <3>1, <4>1 DEF finalize_if_active, RowsTyped
    <3>2. CASE ~finalize_if_active(q)
      BY <1>4, <2>1, <3>2 DEF EndStep, WriteProject, FlushLogs
    <3> QED
      BY <3>1, <3>2
  <2> QED
    BY <1>a, <2>1, <2>2
<1>5. ASSUME NEW q \in Runners, Drop(q) PROVE Goal
  <2>1. drops \in Nat /\ drops < 0
    BY <1>5 DEF Drop, TypeOK, CountersTyped
  <2> QED
    BY <2>1
<1>6. CASE ResumeStep \/ ResumeRefused \/ ResumeFenced
  <2>1. /\ pc[r] = "build" /\ job'[r] = d
        /\ pend' = pend /\ fired' = fired /\ user' = user
    BY <1>0, <1>6 DEF ResumeStep, requeue_interrupted, list_queued_deployments,
       try_claim_deployment, ResumeRefused, ResumeFenced, ResumerFree, taskVars, chanVars
  <2>2. status[d] = "cancelled"
    BY <1>0, <1>6, <1>b, <2>1 DEF ResumeStep, requeue_interrupted,
       list_queued_deployments, try_claim_deployment, ResumeRefused, ResumeFenced, rowVars,
       RowsTyped
  <2> QED
    BY <1>a, <2>1, <2>2
<1>7. CASE ReaperStep
  <2>1. /\ pc[r] = "build" /\ job'[r] = d
        /\ pend' = pend /\ fired' = fired /\ user' = user
    BY <1>7 DEF ReaperStep, ReapSelect, ReapCheck, ReapMark, ReapProject,
       release_orphan_project_locks, taskVars, chanVars
  <2>2. status[d] = "cancelled"
    BY <1>0, <1>7, <1>b, <2>1 DEF ReaperStep, ReapSelect, ReapCheck, ReapMark, ReapProject,
       release_orphan_project_locks, rowVars, RowsTyped
  <2> QED
    BY <1>a, <2>1, <2>2
<1>8. CASE UserStep
  <2>1. /\ pc[r] = "build" /\ job'[r] = d /\ status[d] = "cancelled" /\ pend' = pend
    BY <1>8 DEF UserStep, UserSignal, UserTeardownEnd, RecomputeRead, RecomputeWrite,
       taskVars, rowVars
  <2>2. CASE UserSignal
    <3>1. PICK e \in user.pend : signal_cancel(e) /\ user' = [user EXCEPT !.pend = @ \ {e}]
      BY <2>2 DEF UserSignal
    <3>2. CASE e = d
      BY <1>c, <2>1, <3>1, <3>2
    <3>3. CASE e # d
      <4>1. (r \in fired => r \in fired') /\ (d \in user.pend => d \in user'.pend)
        BY <1>0, <1>d, <3>1, <3>3 DEF LoopsTyped
      <4> QED
        BY <2>1, <4>1 DEF SignalInv, Announced
    <3> QED
      BY <3>2, <3>3
  <2>3. CASE ~UserSignal
    <3>1. user'.pend = user.pend /\ fired' = fired
      BY <1>0, <1>8, <2>3 DEF UserStep, UserTeardownEnd, RecomputeRead, RecomputeWrite,
         chanVars, LoopsTyped
    <3> QED
      BY <1>a, <2>1, <3>1
  <2> QED
    BY <2>2, <2>3
<1>9. CASE UserCall
  <2>1. pc[r] = "build" /\ job'[r] = d /\ pend' = pend /\ fired' = fired
    BY <1>9 DEF UserCall, cancel_one_deployment, dismiss_deployment, delete_deployment,
       teardown, taskVars, chanVars
  <2>2. user.pend = {}
    BY <1>9 DEF UserCall, cancel_one_deployment, dismiss_deployment, delete_deployment,
       teardown, UserOp, PendingInv
  <2>3. d \in user'.pend \/ status[d] = "cancelled"
    BY <1>0, <1>9, <1>b, <2>1 DEF UserCall, cancel_one_deployment, dismiss_deployment,
       delete_deployment, teardown, RowsTyped
  <2> QED
    BY <2>1, <2>2, <2>3 DEF SignalInv, Announced
<1>10. CASE Crash
  BY <1>10 DEF Crash
<1>11. CASE UNCHANGED vars
  BY <1>a, <1>11 DEF vars, taskVars, rowVars, chanVars, loopVars
<1> QED
  BY <1>1, <1>2, <1>3, <1>4, <1>5, <1>6, <1>7, <1>8, <1>9, <1>10, <1>11 DEF Next, RunnerStep

\* run_in_node_slot: when no deployment starts before the boot listing and no task is
\* dropped between a cancel and its signal, a build whose row was cancelled has its signal
\* or is about to get it, for any number of deployments, nodes, crashes and requests.
THEOREM CancelReachesBuildHolds ==
    ~AcceptsBeforeResume /\ MaxDrops = 0 /\ Spec => []CancelReachesBuild
<1> SUFFICES ASSUME ~AcceptsBeforeResume, MaxDrops = 0 PROVE Spec => []CancelReachesBuild
  OBVIOUS
<1> DEFINE IInv == ChannelInv /\ PendingInv /\ SignalInv
<1>1. Init => IInv
  BY DEF Init, ChannelInv, PendingInv, SignalInv, Registered, Listens
<1>2. TypeOK /\ OneTaskPerDeployment /\ IInv /\ [Next]_vars => IInv'
  BY ChannelStep, PendingStep, SignalStep
<1>3. IInv => CancelReachesBuild
  BY Identities DEF ChannelInv, SignalInv, Listens, Announced, CancelReachesBuild, SignalSeen
<1>4. Spec => []OneTaskPerDeployment
  BY OneTaskHolds
<1> QED
  BY <1>1, <1>2, <1>3, <1>4, TypeCorrect, PTL DEF Spec

=============================================================================
