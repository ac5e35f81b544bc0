--------------------------- MODULE AgentRunsProofs ---------------------------
(***************************************************************************)
(* Proofs about AgentRuns: types, the bound on automatic restarts, and the *)
(* finality of settled runs, for any number of processes, runs and tasks.  *)
(***************************************************************************)
EXTENDS AgentRuns, FiniteSetTheorems, TLAPS

AtWork == {"work", "save", "finish", "fail"}

\* A task in use belongs to a process and a run; an executor at work holds a token; what
\* it will write is settled by its pc.
GoodTask == {k \in Task : /\ k.pc # "off" => k.proc \in Procs /\ k.run \in Runs
                          /\ k.pc \in AtWork => k.tok \in Tasks
                          /\ k.pc \in {"save", "finish"} => k.to \in {"completed", "cancelled"}
                          /\ k.pc = "insert" => k.to \in {"queued", "pending"}}

RowT  == row \in [Runs -> Row]
TaskT == task \in [Tasks -> GoodTask]
MemT ==
    /\ replied \subseteq Runs
    /\ hub \in [Procs -> [Runs -> Tasks \cup {NoTask}]]
    /\ cancelled \subseteq Tasks
    /\ boot \in [Procs -> {"down", "recover", "up"}]
    /\ todo \in [Procs -> SUBSET Runs]
    /\ overtaken \in BOOLEAN
    /\ resumes \in [Runs -> Nat]
CountT == ops \in 0..MaxOps /\ troubles \in 0..MaxTroubles
TInv == RowT /\ TaskT /\ MemT /\ CountT

-----------------------------------------------------------------------------
(* What the statements and the task helpers do to the types.               *)

LEMMA RowFields ==
    ASSUME NEW x, x \in Row
    PROVE  /\ x.kind \in {"chat", "worker"} /\ x.status \in Statuses
           /\ x.owner \in Procs \cup {Nobody} /\ x.lease \in {"none", "fresh", "expired"}
           /\ x.attempts \in Nat /\ x.cancel \in BOOLEAN
  BY DEF Row

LEMMA SetRowType ==
    ASSUME RowT, NEW r \in Runs, NEW x \in Row, SetRow(r, x)
    PROVE  RowT'
  BY DEF RowT, SetRow

LEMMA NewRowType ==
    ASSUME NEW k \in {"chat", "worker"}, NEW s \in Statuses
    PROVE  NewRow(k, s) \in Row
  BY DEF NewRow, Row

LEMMA finishType ==
    ASSUME RowT, NEW r \in Runs, NEW s \in Statuses, finish(r, s)
    PROVE  RowT'
<1>1. row[r] \in Row  BY DEF RowT
<1>2. [row[r] EXCEPT !.status = s, !.owner = Nobody, !.lease = "none"] \in Row
  BY <1>1 DEF Row
<1> QED BY <1>1, <1>2, SetRowType DEF finish

LEMMA try_claimType ==
    ASSUME RowT, NEW r \in Runs, NEW p \in Procs, try_claim(r, p)
    PROVE  RowT'
<1>1. row[r] \in Row  BY DEF RowT
<1>2. row[r].attempts + 1 \in Nat  BY <1>1, RowFields
<1>3. "running" \in Statuses  BY DEF Statuses, OPEN_STATUSES
<1>4. ASSUME NEW n \in Nat
      PROVE  [row[r] EXCEPT !.status = "running", !.owner = p, !.lease = "fresh",
                            !.attempts = n] \in Row
  BY <1>1, <1>3 DEF Row
<1> QED BY <1>2, <1>4, SetRowType DEF try_claim

LEMMA recover_expiredType ==
    ASSUME RowT, NEW r \in Runs, recover_expired(r)
    PROVE  RowT'
<1>1. row[r] \in Row  BY DEF RowT
<1>2. [row[r] EXCEPT !.status = IF row[r].attempts >= MAX_ATTEMPTS THEN "failed" ELSE "pending",
                     !.owner = Nobody, !.lease = "none"] \in Row
  BY <1>1 DEF Row, Statuses, OPEN_STATUSES, Terminal
<1> QED BY <1>2, SetRowType DEF recover_expired

LEMMA TaskFields ==
    ASSUME TaskT, NEW t \in Tasks
    PROVE  /\ task[t] \in Task /\ task[t] \in GoodTask
           /\ task[t].to \in Statuses /\ task[t].tok \in Tasks \cup {NoTask}
           /\ task[t].pc # "off" => task[t].proc \in Procs /\ task[t].run \in Runs
           /\ Sinking(t) => task[t].tok \in Tasks
           /\ task[t].pc \in {"save", "finish"} => task[t].to \in {"completed", "cancelled"}
           /\ task[t].pc = "insert" => task[t].to \in {"queued", "pending"}
  BY DEF TaskT, GoodTask, Task, Sinking, AtWork

LEMMA IdleType == Idle \in GoodTask
  BY DEF Idle, GoodTask, Task, PCs, Statuses, AtWork

LEMMA SpawnType ==
    ASSUME TaskT, NEW p \in Procs, NEW r \in Runs, NEW l \in PCs \ AtWork,
           NEW to \in Statuses, l = "insert" => to \in {"queued", "pending"},
           Spawn(p, r, l, to)
    PROVE  TaskT'
<1>1. [proc |-> p, run |-> r, pc |-> l, to |-> to, tok |-> NoTask] \in GoodTask
  BY DEF GoodTask, Task, AtWork
<1> QED BY <1>1 DEF Spawn, Free, TaskT

LEMMA GotoType ==
    ASSUME TaskT, NEW t \in Tasks, task[t].pc # "off",
           NEW l \in PCs \ {"save", "insert"}, l \in AtWork => Sinking(t),
           l = "finish" => task[t].pc = "save", Goto(t, l)
    PROVE  TaskT'
<1>1. task[t] \in Task  BY TaskFields
<1>2. [task[t] EXCEPT !.pc = l] \in GoodTask
  BY <1>1, TaskFields DEF GoodTask, Task
<1> QED BY <1>2 DEF Goto, TaskT

LEMMA EndsType ==
    ASSUME TaskT, NEW t \in Tasks, Ends(t)
    PROVE  TaskT'
  BY IdleType DEF Ends, TaskT

LEMMA RunFields ==
    ASSUME RowT, NEW r \in Runs
    PROVE  row[r] \in Row /\ row[r].status \in Statuses /\ row[r].kind \in {"chat", "worker"}
           /\ row[r].attempts \in Nat
  BY RowFields DEF RowT

LEMMA Counted ==
    ASSUME CountT
    PROVE  /\ Trouble /\ UNCHANGED ops => CountT'
           /\ UserAsks /\ UNCHANGED troubles => CountT'
  BY ConstantsAssumption DEF Trouble, UserAsks, CountT

LEMMA RestartType ==
    ASSUME RowT, TaskT, NEW p \in Procs, NEW r \in Runs, NEW n \in Nat, Restart(p, r, n)
    PROVE  RowT' /\ TaskT'
<1>1. NewRow(row[r].kind, "pending") \in Row
  BY RunFields, NewRowType DEF Statuses, OPEN_STATUSES
<1>2. [NewRow(row[r].kind, "pending") EXCEPT !.attempts = n] \in Row
  BY <1>1 DEF Row
<1>3. RowT'  BY <1>2, SetRowType DEF Restart
<1>4. TaskT'  BY SpawnType DEF Restart, PCs, AtWork, Statuses
<1> QED BY <1>3, <1>4

-----------------------------------------------------------------------------
(* Types.                                                                  *)

LEMMA TypeInit == Init => TInv
<1> SUFFICES ASSUME Init PROVE TInv OBVIOUS
<1>1. RowT  BY NewRowType DEF Init, RowT, Statuses
<1>2. TaskT  BY IdleType DEF Init, TaskT
<1>3. MemT  BY DEF Init, MemT
<1>4. CountT  BY ConstantsAssumption DEF Init, CountT
<1> QED BY <1>1, <1>2, <1>3, <1>4 DEF TInv

\* Every step keeps the types.
LEMMA TypeStep == TInv /\ [Next]_vars => TInv'
<1> SUFFICES ASSUME TInv, [Next]_vars PROVE TInv' OBVIOUS
<1> USE DEF TInv
<1>1. ASSUME NEW t \in Tasks, DelegateInsert(t) PROVE TInv'
  <2>1. RowT'  BY <1>1, TaskFields, NewRowType, SetRowType DEF DelegateInsert
  <2>2. TaskT'  BY <1>1, TaskFields, EndsType DEF DelegateInsert, TaskT, GoodTask, Task, AtWork, PCs, Statuses, OPEN_STATUSES, Terminal
  <2>3. MemT'  BY <1>1, TaskFields DEF DelegateInsert, MemT, bounds
  <2>4. CountT'  BY <1>1 DEF DelegateInsert, CountT, bounds
  <2> QED BY <2>1, <2>2, <2>3, <2>4 DEF TInv
<1>2. ASSUME NEW t \in Tasks, Trigger(t) PROVE TInv'
  <2>1. RowT'  BY <1>2, TaskFields, finishType DEF Trigger, Statuses, OPEN_STATUSES, Terminal, RowT, PCs
  <2>2. TaskT'  BY <1>2, TaskFields, GotoType, EndsType DEF Trigger, PCs, AtWork, Sinking
  <2>3. MemT'  BY <1>2, TaskFields DEF Trigger, MemT, bounds
  <2>4. CountT'  BY <1>2 DEF Trigger, CountT, bounds
  <2> QED BY <2>1, <2>2, <2>3, <2>4 DEF TInv
<1>3. ASSUME NEW t \in Tasks, Check(t) PROVE TInv'
  <2>1. RowT'  BY <1>3, TaskFields, finishType DEF Check, Statuses, OPEN_STATUSES, Terminal, RowT, PCs
  <2>2. TaskT'  BY <1>3, TaskFields, GotoType, EndsType DEF Check, PCs, AtWork, Sinking
  <2>3. MemT'  BY <1>3, TaskFields DEF Check, MemT, bounds
  <2>4. CountT'  BY <1>3 DEF Check, CountT, bounds
  <2> QED BY <2>1, <2>2, <2>3, <2>4 DEF TInv
<1>4. ASSUME NEW t \in Tasks, Claim(t) PROVE TInv'
  <2>1. RowT'  BY <1>4, TaskFields, try_claimType DEF Claim, RowT
  <2>2. TaskT'  BY <1>4, TaskFields, GotoType, EndsType DEF Claim, PCs, AtWork, Sinking
  <2>3. MemT'  BY <1>4, TaskFields DEF Claim, MemT, bounds
  <2>4. CountT'  BY <1>4 DEF Claim, CountT, bounds
  <2> QED BY <2>1, <2>2, <2>3, <2>4 DEF TInv
<1>5. ASSUME NEW t \in Tasks, Open(t) PROVE TInv'
  <2>1. RowT'  BY <1>5 DEF Open, RowT
  <2>2. TaskT'
    <3>1. task[t] \in GoodTask /\ task[t].proc \in Procs /\ task[t].run \in Runs
      BY <1>5, TaskFields DEF Open
    <3>2. \A k \in Tasks : [task[t] EXCEPT !.pc = "work", !.tok = k] \in GoodTask
      BY <3>1 DEF GoodTask, Task, AtWork, PCs
    <3>3. hub[task[t].proc][task[t].run] \in Tasks \cup {NoTask}  BY <3>1 DEF MemT
    <3>4. \E k \in Tasks : task' = [task EXCEPT ![t].pc = "work", ![t].tok = k]
      BY <1>5, <3>3 DEF Open
    <3> QED BY <3>2, <3>4 DEF TaskT
  <2>3. MemT'
    <3>1. task[t].proc \in Procs  BY <1>5, TaskFields DEF Open
    <3>2. hub' \in [Procs -> [Runs -> Tasks \cup {NoTask}]]
      <4>1. CASE hub' = hub  BY <4>1 DEF MemT
      <4>2. CASE hub' = [hub EXCEPT ![task[t].proc][task[t].run] = t]
        BY <4>2, <3>1 DEF MemT
      <4> QED BY <1>5, <4>1, <4>2 DEF Open
    <3>3. cancelled' \subseteq Tasks  BY <1>5 DEF Open, MemT
    <3> QED BY <1>5, <3>2, <3>3 DEF Open, MemT, bounds
  <2>4. CountT'  BY <1>5 DEF Open, CountT, bounds
  <2> QED BY <2>1, <2>2, <2>3, <2>4 DEF TInv
<1>6. ASSUME NEW t \in Tasks, Work(t) PROVE TInv'
  <2>1. RowT'  BY <1>6 DEF Work, RowT
  <2>2. TaskT'  BY <1>6, TaskFields, GotoType DEF Work, TaskT, GoodTask, Task, AtWork, Sinking, PCs, Statuses, OPEN_STATUSES, Terminal
  <2>3. MemT'  BY <1>6, TaskFields DEF Work, MemT, bounds
  <2>4. CountT'  BY <1>6, Counted DEF Work, CountT, bounds
  <2> QED BY <2>1, <2>2, <2>3, <2>4 DEF TInv
<1>7. ASSUME NEW t \in Tasks, Save(t) PROVE TInv'
  <2>1. RowT'  BY <1>7 DEF Save, RowT
  <2>2. TaskT'  BY <1>7, TaskFields, GotoType, EndsType DEF Save, PCs, AtWork, Sinking
  <2>3. MemT'  BY <1>7, TaskFields DEF Save, MemT, bounds
  <2>4. CountT'  BY <1>7, Counted DEF Save, CountT, bounds
  <2> QED BY <2>1, <2>2, <2>3, <2>4 DEF TInv
<1>8. ASSUME NEW t \in Tasks, Finish(t) PROVE TInv'
  <2>1. RowT'  BY <1>8, TaskFields, finishType DEF Finish, Statuses, OPEN_STATUSES, Terminal, RowT, PCs
  <2>2. TaskT'  BY <1>8, TaskFields, GotoType, EndsType DEF Finish, PCs, AtWork, Sinking
  <2>3. MemT'  BY <1>8, TaskFields DEF Finish, MemT, bounds
  <2>4. CountT'  BY <1>8, Counted DEF Finish, CountT, bounds
  <2> QED BY <2>1, <2>2, <2>3, <2>4 DEF TInv
<1>9. ASSUME NEW t \in Tasks, FailRun(t) PROVE TInv'
  <2>1. RowT'  BY <1>9, TaskFields, finishType DEF FailRun, Statuses, OPEN_STATUSES, Terminal, RowT, PCs
  <2>2. TaskT'  BY <1>9, TaskFields, GotoType, EndsType DEF FailRun, PCs, AtWork, Sinking
  <2>3. MemT'  BY <1>9, TaskFields DEF FailRun, MemT, bounds
  <2>4. CountT'  BY <1>9, Counted DEF FailRun, CountT, bounds
  <2> QED BY <2>1, <2>2, <2>3, <2>4 DEF TInv
<1>10. ASSUME NEW t \in Tasks, Drain(t) PROVE TInv'
  <2>1. RowT'  BY <1>10 DEF Drain, RowT
  <2>2. TaskT'  BY <1>10, TaskFields DEF Drain, TaskT, GoodTask, Task, AtWork, PCs, Statuses, OPEN_STATUSES, Terminal
  <2>3. MemT'  BY <1>10, TaskFields DEF Drain, MemT, bounds, Tokens
  <2>4. CountT'  BY <1>10 DEF Drain, CountT, bounds
  <2> QED BY <2>1, <2>2, <2>3, <2>4 DEF TInv
<1>11. ASSUME NEW t \in Tasks, Hook(t) PROVE TInv'
  <2>1. RowT'  BY <1>11 DEF Hook, RowT
  <2>2. TaskT'  BY <1>11, TaskFields, GotoType, EndsType DEF Hook, PCs, AtWork, Sinking
  <2>3. MemT'  BY <1>11, TaskFields DEF Hook, MemT, bounds
  <2>4. CountT'  BY <1>11 DEF Hook, CountT, bounds
  <2> QED BY <2>1, <2>2, <2>3, <2>4 DEF TInv
<1>12. ASSUME NEW t \in Tasks, Promote(t) PROVE TInv'
  <2>1. RowT'  BY <1>12, RunFields, SetRowType DEF Promote, RowT, Oldest, QueuedWorkers, Workers, Row, Statuses, OPEN_STATUSES, Terminal
  <2>2. TaskT'
    <3>1. CASE Ends(t)  BY <3>1, EndsType
    <3>2. ASSUME NEW r \in Runs, task' = [task EXCEPT ![t].run = r, ![t].pc = "claim"]
          PROVE  TaskT'
      <4>1. task[t] \in Task /\ task[t].proc \in Procs
        BY <1>12, TaskFields DEF Promote
      <4>2. [task[t] EXCEPT !.run = r, !.pc = "claim"] \in GoodTask
        BY <4>1 DEF GoodTask, Task, AtWork, PCs
      <4> QED BY <3>2, <4>2 DEF TaskT
    <3> QED BY <1>12, <3>1, <3>2 DEF Promote, Oldest, QueuedWorkers, Workers
  <2>3. MemT'  BY <1>12, TaskFields DEF Promote, MemT, bounds
  <2>4. CountT'  BY <1>12 DEF Promote, CountT, bounds
  <2> QED BY <2>1, <2>2, <2>3, <2>4 DEF TInv
<1>13. ASSUME NEW t \in Tasks, Kill(t) PROVE TInv'
  <2>1. RowT'  BY <1>13 DEF Kill, RowT
  <2>2. TaskT'  BY <1>13, EndsType DEF Kill
  <2>3. MemT'  BY <1>13, TaskFields DEF Kill, CancelLocal, MemT, bounds
  <2>4. CountT'  BY <1>13 DEF Kill, CountT, bounds
  <2> QED BY <2>1, <2>2, <2>3, <2>4 DEF TInv
<1>14. ASSUME NEW t \in Tasks, CancelHere(t) PROVE TInv'
  <2>1. RowT'  BY <1>14, TaskFields, SetRowType DEF CancelHere, RowT, Row, Statuses, OPEN_STATUSES, Terminal
  <2>2. TaskT'  BY <1>14, TaskFields, EndsType DEF CancelHere, TaskT, GoodTask, Task, AtWork, PCs, Statuses, OPEN_STATUSES, Terminal
  <2>3. MemT'  BY <1>14, TaskFields DEF CancelHere, CancelLocal, MemT, bounds
  <2>4. CountT'  BY <1>14 DEF CancelHere, CountT, bounds
  <2> QED BY <2>1, <2>2, <2>3, <2>4 DEF TInv
<1>15. ASSUME NEW t \in Tasks, Heartbeat(t) PROVE TInv'
  <2>1. RowT'  BY <1>15, TaskFields, SetRowType DEF Heartbeat, RowT, Row, Sinking
  <2>2. TaskT'  BY <1>15 DEF Heartbeat, TaskT
  <2>3. MemT'  BY <1>15, TaskFields DEF Heartbeat, MemT, bounds
  <2>4. CountT'  BY <1>15 DEF Heartbeat, CountT, bounds
  <2> QED BY <2>1, <2>2, <2>3, <2>4 DEF TInv
<1>16. ASSUME NEW t \in Tasks, PollCancel(t) PROVE TInv'
  <2>1. RowT'  BY <1>16 DEF PollCancel, RowT
  <2>2. TaskT'  BY <1>16 DEF PollCancel, TaskT
  <2>3. MemT'  BY <1>16, TaskFields DEF PollCancel, MemT, bounds
  <2>4. CountT'  BY <1>16 DEF PollCancel, CountT, bounds
  <2> QED BY <2>1, <2>2, <2>3, <2>4 DEF TInv
<1>17. ASSUME NEW p \in Procs, UserTurn(p) PROVE TInv'
  <2>1. RowT'  BY <1>17, NewRowType, SetRowType DEF UserTurn, Oldest, Uncreated, Statuses, OPEN_STATUSES, Terminal
  <2>2. TaskT'  BY <1>17, SpawnType DEF UserTurn, Oldest, Uncreated, PCs, AtWork, Statuses, OPEN_STATUSES, Terminal
  <2>3. MemT'  BY <1>17, TaskFields DEF UserTurn, MemT, bounds
  <2>4. CountT'  BY <1>17 DEF UserTurn, CountT, bounds
  <2> QED BY <2>1, <2>2, <2>3, <2>4 DEF TInv
<1>18. ASSUME NEW p \in Procs, DelegateRead(p) PROVE TInv'
  <2>1. RowT'  BY <1>18 DEF DelegateRead, RowT
  <2>2. TaskT'  BY <1>18, SpawnType DEF DelegateRead, Oldest, Uncreated, initial_status, PCs, AtWork, Statuses, OPEN_STATUSES, Terminal
  <2>3. MemT'  BY <1>18, TaskFields DEF DelegateRead, MemT, bounds
  <2>4. CountT'  BY <1>18 DEF DelegateRead, CountT, bounds
  <2> QED BY <2>1, <2>2, <2>3, <2>4 DEF TInv
<1>19. ASSUME NEW p \in Procs, BootStart(p) PROVE TInv'
  <2>1. RowT'  BY <1>19 DEF BootStart, RowT
  <2>2. TaskT'  BY <1>19 DEF BootStart, TaskT
  <2>3. MemT'  BY <1>19, TaskFields DEF BootStart, MemT, bounds
  <2>4. CountT'  BY <1>19 DEF BootStart, CountT, bounds
  <2> QED BY <2>1, <2>2, <2>3, <2>4 DEF TInv
<1>20. ASSUME NEW p \in Procs, BootList(p) PROVE TInv'
  <2>1. RowT'  BY <1>20 DEF BootList, RowT
  <2>2. TaskT'  BY <1>20 DEF BootList, TaskT
  <2>3. MemT'  BY <1>20, TaskFields DEF BootList, MemT, bounds
  <2>4. CountT'  BY <1>20 DEF BootList, CountT, bounds
  <2> QED BY <2>1, <2>2, <2>3, <2>4 DEF TInv
<1>21. ASSUME NEW p \in Procs, BootClaim(p) PROVE TInv'
  <2>1. RowT'  BY <1>21, try_claimType DEF BootClaim, RowT, MemT, Oldest
  <2>2. TaskT'  BY <1>21, SpawnType DEF BootClaim, Oldest, MemT, TaskT, PCs, AtWork, Statuses, OPEN_STATUSES, Terminal
  <2>3. MemT'  BY <1>21, TaskFields DEF BootClaim, Oldest, MemT, bounds
  <2>4. CountT'  BY <1>21 DEF BootClaim, CountT, bounds
  <2> QED BY <2>1, <2>2, <2>3, <2>4 DEF TInv
<1>22. ASSUME NEW p \in Procs, Crash(p) PROVE TInv'
  <2>1. RowT'  BY <1>22 DEF Crash, RowT
  <2>2. TaskT'  BY <1>22, IdleType DEF Crash, TaskT
  <2>3. MemT'  BY <1>22, TaskFields DEF Crash, MemT, bounds
  <2>4. CountT'  BY <1>22, Counted DEF Crash, CountT, bounds
  <2> QED BY <2>1, <2>2, <2>3, <2>4 DEF TInv
<1>23. ASSUME NEW p \in Procs, NEW r \in Runs, Pause(p, r) PROVE TInv'
  <2>1. RowT'
    <3>1. row[r] \in Row  BY RunFields
    <3>2. \A b \in BOOLEAN :
             [row[r] EXCEPT !.status = "paused", !.owner = Nobody, !.lease = "none",
                            !.cancel = b] \in Row
      BY <3>1 DEF Row, Statuses
    <3> QED BY <1>23, <3>2, SetRowType DEF Pause
  <2>2. TaskT'  BY <1>23, SpawnType DEF Pause, PCs, AtWork, Statuses, OPEN_STATUSES, Terminal
  <2>3. MemT'  BY <1>23, TaskFields DEF Pause, MemT, bounds
  <2>4. CountT'  BY <1>23, Counted DEF Pause, bounds
  <2> QED BY <2>1, <2>2, <2>3, <2>4 DEF TInv
<1>24. ASSUME NEW p \in Procs, NEW r \in Runs, CancelRun(p, r) PROVE TInv'
  <2>1. RowT'  BY <1>24, SetRowType DEF CancelRun, RowT, Row, Statuses, OPEN_STATUSES, Terminal
  <2>2. TaskT'  BY <1>24, RunFields, SpawnType DEF CancelRun, PCs, AtWork, RowT
  <2>3. MemT'  BY <1>24, TaskFields DEF CancelRun, MemT, bounds
  <2>4. CountT'  BY <1>24, Counted DEF CancelRun, bounds
  <2> QED BY <2>1, <2>2, <2>3, <2>4 DEF TInv
<1>25. ASSUME NEW p \in Procs, NEW r \in Runs, Resume(p, r) PROVE TInv'
  <2>1. RowT'  BY <1>25, RestartType DEF Resume, RowT, Row
  <2>2. TaskT'  BY <1>25, RestartType DEF Resume, RowT, Row
  <2>3. MemT'  BY <1>25, TaskFields DEF Resume, Restart, MemT, bounds
  <2>4. CountT'  BY <1>25, Counted DEF Resume, Restart, bounds
  <2> QED BY <2>1, <2>2, <2>3, <2>4 DEF TInv
<1>26. ASSUME NEW p \in Procs, NEW r \in Runs, Retry(p, r) PROVE TInv'
  <2>1. RowT'  BY <1>26, RestartType DEF Retry, RowT, Row
  <2>2. TaskT'  BY <1>26, RestartType DEF Retry, RowT, Row
  <2>3. MemT'  BY <1>26, TaskFields DEF Retry, Restart, MemT, bounds
  <2>4. CountT'  BY <1>26, Counted DEF Retry, Restart, bounds
  <2> QED BY <2>1, <2>2, <2>3, <2>4 DEF TInv
<1>27. ASSUME NEW p \in Procs, NEW r \in Runs, BootRecover(p, r) PROVE TInv'
  <2>1. RowT'  BY <1>27, recover_expiredType DEF BootRecover
  <2>2. TaskT'  BY <1>27, SpawnType DEF BootRecover, TaskT, PCs, AtWork, Statuses, OPEN_STATUSES, Terminal
  <2>3. MemT'  BY <1>27, TaskFields DEF BootRecover, MemT, bounds
  <2>4. CountT'  BY <1>27 DEF BootRecover, CountT, bounds
  <2> QED BY <2>1, <2>2, <2>3, <2>4 DEF TInv
<1>28. ASSUME NEW p \in Procs, NEW r \in Runs, LeaseWatch(p, r) PROVE TInv'
  <2>1. RowT'  BY <1>28, recover_expiredType DEF LeaseWatch
  <2>2. TaskT'  BY <1>28, SpawnType DEF LeaseWatch, TaskT, PCs, AtWork, Statuses, OPEN_STATUSES, Terminal
  <2>3. MemT'  BY <1>28, TaskFields DEF LeaseWatch, MemT, bounds
  <2>4. CountT'  BY <1>28 DEF LeaseWatch, CountT, bounds
  <2> QED BY <2>1, <2>2, <2>3, <2>4 DEF TInv
<1>29. ASSUME NEW r \in Runs, Expire(r) PROVE TInv'
  <2>1. RowT'  BY <1>29, SetRowType DEF Expire, RowT, Row
  <2>2. TaskT'  BY <1>29 DEF Expire, TaskT
  <2>3. MemT'  BY <1>29, TaskFields DEF Expire, MemT, bounds
  <2>4. CountT'  BY <1>29 DEF Expire, CountT, bounds
  <2> QED BY <2>1, <2>2, <2>3, <2>4 DEF TInv
<1>30. ASSUME NEW r \in Runs, Stall(r) PROVE TInv'
  <2>1. RowT'  BY <1>30, SetRowType DEF Stall, RowT, Row
  <2>2. TaskT'  BY <1>30 DEF Stall, TaskT
  <2>3. MemT'  BY <1>30, TaskFields DEF Stall, MemT, bounds
  <2>4. CountT'  BY <1>30, Counted DEF Stall, CountT, bounds
  <2> QED BY <2>1, <2>2, <2>3, <2>4 DEF TInv
<1>31. CASE UNCHANGED vars
  BY <1>31 DEF vars, RowT, TaskT, MemT, CountT
<1> QED
  BY <1>1, <1>2, <1>3, <1>4, <1>5, <1>6, <1>7, <1>8, <1>9, <1>10, <1>11, <1>12, <1>13, <1>14, <1>15, <1>16, <1>17, <1>18, <1>19, <1>20, <1>21, <1>22, <1>23, <1>24, <1>25, <1>26, <1>27, <1>28, <1>29, <1>30, <1>31
  DEF Next, TaskStep, SinkStep, UserStep, BootStep

\* TypeOK holds in every reachable state, for all constants: the columns of agent_runs,
\* the tasks, the channels and the tokens keep their types.
THEOREM TypeCorrect == Spec => []TypeOK
<1>1. Spec => []TInv
  BY TypeInit, TypeStep, PTL DEF Spec
<1>2. TInv => TypeOK
  BY DEF TInv, RowT, TaskT, MemT, CountT, TypeOK, GoodTask
<1> QED BY <1>1, <1>2, PTL
-----------------------------------------------------------------------------
(* How a row moves.                                                        *)

\* A run that delegate_task is about to insert does not exist yet, and only one task
\* will insert it.
InsertInv ==
    \A t \in Tasks : task[t].pc = "insert" =>
        /\ row[task[t].run].status = "none"
        /\ \A u \in Tasks : task[u].pc = "insert" /\ task[u].run = task[t].run => u = t

\* Everything a step can do to a row, and to the counters that go with it.
Stays(r) == /\ row'[r].status = row[r].status /\ row'[r].attempts = row[r].attempts
            /\ resumes'[r] = resumes[r]
Opened(r) == /\ row[r].status = "none" /\ row'[r].status \in {"queued", "pending"}
             /\ row'[r].attempts = 0 /\ resumes'[r] = resumes[r]
Claimed(r) == /\ row[r].status = "pending" /\ row'[r].status = "running"
              /\ row'[r].attempts = row[r].attempts + 1 /\ resumes'[r] = resumes[r]
Requeued(r) == /\ \/ row[r].status = "queued"
                  \/ row[r].status = "running" /\ row[r].attempts < MAX_ATTEMPTS
               /\ row'[r].status = "pending"
               /\ row'[r].attempts = row[r].attempts /\ resumes'[r] = resumes[r]
Settles(r) == /\ row[r].status \in OPEN_STATUSES
              /\ row'[r].status \in Terminal \cup {"paused"}
              /\ row'[r].attempts = row[r].attempts /\ resumes'[r] = resumes[r]
Resumed(r) == /\ row[r].status = "paused" /\ row'[r].status = "pending"
              /\ row'[r].attempts = row[r].attempts /\ resumes'[r] = resumes[r] + 1
              /\ ops' = ops + 1
Retried(r) == /\ row[r].status = "failed" /\ row'[r].status = "pending"
              /\ row'[r].attempts = 0 /\ resumes'[r] = 0 /\ ops' = ops + 1

RowMove(r) == Stays(r) \/ Opened(r) \/ Claimed(r) \/ Requeued(r) \/ Settles(r)
              \/ Resumed(r) \/ Retried(r)

\* A statement touches one row.
LEMMA OneRow ==
    ASSUME TInv, NEW r \in Runs, NEW x, SetRow(r, x), UNCHANGED resumes,
           NEW q \in Runs, q = r => RowMove(r)
    PROVE  RowMove(q)
  BY DEF SetRow, TInv, RowT, RowMove, Stays

LEMMA OneRowValue ==
    ASSUME TInv, NEW r \in Runs, NEW x, SetRow(r, x)
    PROVE  row'[r] = x /\ row[r] \in Row /\ row[r].attempts \in Nat
  BY RunFields DEF SetRow, TInv, RowT

LEMMA NoRow ==
    ASSUME UNCHANGED <<row, resumes>>, NEW q \in Runs
    PROVE  RowMove(q)
  BY DEF RowMove, Stays

LEMMA finishMove ==
    ASSUME TInv, NEW r \in Runs, NEW s \in Terminal, finish(r, s), UNCHANGED resumes,
           NEW q \in Runs
    PROVE  RowMove(q)
<1>1. CASE row[r].status \in OPEN_STATUSES
  <2>1. row'[r] = [row[r] EXCEPT !.status = s, !.owner = Nobody, !.lease = "none"]
    BY <1>1, OneRowValue DEF finish
  <2>2. Settles(r)  BY <1>1, <2>1, RunFields DEF TInv, Settles, Row
  <2> QED BY <2>2, OneRow DEF finish, RowMove
<1>2. CASE row[r].status \notin OPEN_STATUSES
  <2>1. row'[r] = row[r]  BY <1>2, OneRowValue DEF finish
  <2> QED BY <2>1, OneRow DEF finish, RowMove, Stays
<1> QED BY <1>1, <1>2

LEMMA try_claimMove ==
    ASSUME TInv, NEW r \in Runs, NEW p \in Procs, try_claim(r, p), UNCHANGED resumes,
           NEW q \in Runs
    PROVE  RowMove(q)
<1>1. row'[r] = [row[r] EXCEPT !.status = "running", !.owner = p, !.lease = "fresh",
                              !.attempts = row[r].attempts + 1]
  BY OneRowValue DEF try_claim
<1>2. row'[r].status = "running" /\ row'[r].attempts = row[r].attempts + 1
  BY <1>1, RunFields DEF TInv, Row
<1>3. Claimed(r)  BY <1>2 DEF try_claim, Claimed
<1> QED BY <1>3, OneRow DEF try_claim, RowMove

LEMMA recover_expiredMove ==
    ASSUME TInv, NEW r \in Runs, recover_expired(r), UNCHANGED resumes, NEW q \in Runs
    PROVE  RowMove(q)
<1>1. row'[r] = [row[r] EXCEPT
                   !.status = IF row[r].attempts >= MAX_ATTEMPTS THEN "failed" ELSE "pending",
                   !.owner = Nobody, !.lease = "none"]
  BY OneRowValue DEF recover_expired
<1>2. /\ row'[r].status = IF row[r].attempts >= MAX_ATTEMPTS THEN "failed" ELSE "pending"
      /\ row'[r].attempts = row[r].attempts
  BY <1>1, RunFields DEF TInv, Row
<1>3. row[r].attempts \in Nat  BY RunFields DEF TInv
<1>4. Settles(r) \/ Requeued(r)
  BY <1>2, <1>3, ConstantsAssumption
  DEF recover_expired, Settles, Requeued, OPEN_STATUSES, Terminal
<1> QED BY <1>4, OneRow DEF recover_expired, RowMove

\* Whatever process, executor, watch or user takes the step, a row only moves in these ways.
LEMMA RowStep ==
    ASSUME TInv, InsertInv, [Next]_vars, NEW q \in Runs
    PROVE  RowMove(q)
<1>1. ASSUME NEW t \in Tasks, DelegateInsert(t) PROVE RowMove(q)
  <2>1. task[t].run \in Runs /\ row[task[t].run].status = "none"
        /\ task[t].to \in {"queued", "pending"}
    BY <1>1, TaskFields DEF DelegateInsert, InsertInv, TInv
  <2>2. row'[task[t].run] = NewRow("worker", task[t].to)
    BY <1>1, <2>1, OneRowValue DEF DelegateInsert
  <2>3. Opened(task[t].run)  BY <1>1, <2>1, <2>2 DEF DelegateInsert, Opened, NewRow
  <2> QED BY <1>1, <2>1, <2>3, OneRow DEF DelegateInsert, RowMove
<1>2. ASSUME NEW t \in Tasks, Trigger(t) PROVE RowMove(q)
  BY <1>2, NoRow, finishMove, TaskFields DEF Trigger, TInv, Terminal
<1>3. ASSUME NEW t \in Tasks, Check(t) PROVE RowMove(q)
  BY <1>3, NoRow, finishMove, TaskFields DEF Check, TInv, Terminal
<1>4. ASSUME NEW t \in Tasks, Claim(t) PROVE RowMove(q)
  BY <1>4, NoRow, try_claimMove, TaskFields DEF Claim, TInv
<1>5. ASSUME NEW t \in Tasks, Open(t) PROVE RowMove(q)
  BY <1>5, NoRow DEF Open
<1>6. ASSUME NEW t \in Tasks, Work(t) PROVE RowMove(q)
  BY <1>6, NoRow DEF Work
<1>7. ASSUME NEW t \in Tasks, Save(t) PROVE RowMove(q)
  BY <1>7, NoRow DEF Save
<1>8. ASSUME NEW t \in Tasks, Finish(t) PROVE RowMove(q)
  BY <1>8, NoRow, finishMove, TaskFields DEF Finish, TInv, Terminal
<1>9. ASSUME NEW t \in Tasks, FailRun(t) PROVE RowMove(q)
  BY <1>9, NoRow, finishMove, TaskFields DEF FailRun, TInv, Terminal
<1>10. ASSUME NEW t \in Tasks, Drain(t) PROVE RowMove(q)
  BY <1>10, NoRow DEF Drain
<1>11. ASSUME NEW t \in Tasks, Hook(t) PROVE RowMove(q)
  BY <1>11, NoRow DEF Hook
<1>12. ASSUME NEW t \in Tasks, Promote(t) PROVE RowMove(q)
  <2>1. CASE UNCHANGED row  BY <1>12, <2>1, NoRow DEF Promote
  <2>2. ASSUME NEW r \in QueuedWorkers, SetRow(r, [row[r] EXCEPT !.status = "pending"])
        PROVE  RowMove(q)
    <3>1. r \in Runs /\ row[r].status = "queued"  BY DEF QueuedWorkers, Workers
    <3>2. row'[r] = [row[r] EXCEPT !.status = "pending"] /\ row[r] \in Row
      BY <2>2, <3>1, OneRowValue
    <3>3. Requeued(r)  BY <1>12, <3>1, <3>2 DEF Promote, Requeued, Row
    <3> QED BY <1>12, <2>2, <3>1, <3>3, OneRow DEF Promote, RowMove
  <2> QED BY <1>12, <2>1, <2>2 DEF Promote, Oldest
<1>13. ASSUME NEW t \in Tasks, Kill(t) PROVE RowMove(q)
  BY <1>13, NoRow DEF Kill
<1>14. ASSUME NEW t \in Tasks, CancelHere(t) PROVE RowMove(q)
  <2>1. task[t].run \in Runs  BY <1>14, TaskFields DEF CancelHere, TInv
  <2>2. CASE UNCHANGED row  BY <1>14, <2>2, NoRow DEF CancelHere
  <2>3. CASE /\ row[task[t].run].status \in {"queued", "pending"}
             /\ SetRow(task[t].run, [row[task[t].run] EXCEPT !.status = "cancelled"])
    <3>1. /\ row'[task[t].run] = [row[task[t].run] EXCEPT !.status = "cancelled"]
          /\ row[task[t].run] \in Row
      BY <2>1, <2>3, OneRowValue
    <3>2. Settles(task[t].run)
      BY <1>14, <2>3, <3>1 DEF CancelHere, Settles, Row, OPEN_STATUSES, Terminal
    <3> QED BY <1>14, <2>1, <2>3, <3>2, OneRow DEF CancelHere, RowMove
  <2> QED BY <1>14, <2>2, <2>3 DEF CancelHere
<1>15. ASSUME NEW t \in Tasks, Heartbeat(t) PROVE RowMove(q)
  <2>1. task[t].run \in Runs  BY <1>15, TaskFields DEF Heartbeat, TInv, Sinking
  <2>2. CASE UNCHANGED row  BY <1>15, <2>2, NoRow DEF Heartbeat
  <2>3. CASE SetRow(task[t].run, [row[task[t].run] EXCEPT !.lease = "fresh"])
    <3>1. /\ row'[task[t].run] = [row[task[t].run] EXCEPT !.lease = "fresh"]
          /\ row[task[t].run] \in Row
      BY <2>1, <2>3, OneRowValue
    <3>2. Stays(task[t].run)  BY <1>15, <2>1, <3>1 DEF Heartbeat, Stays, Row
    <3> QED BY <1>15, <2>1, <2>3, <3>2, OneRow DEF Heartbeat, RowMove
  <2> QED BY <1>15, <2>2, <2>3 DEF Heartbeat
<1>16. ASSUME NEW t \in Tasks, PollCancel(t) PROVE RowMove(q)
  BY <1>16, NoRow DEF PollCancel
<1>17. ASSUME NEW p \in Procs, UserTurn(p) PROVE RowMove(q)
  <2> PICK r \in Uncreated : SetRow(r, NewRow("chat", "pending"))
    BY <1>17 DEF UserTurn, Oldest
  <2>1. r \in Runs /\ row[r].status = "none"  BY DEF Uncreated
  <2>2. row'[r] = NewRow("chat", "pending")  BY <2>1, OneRowValue
  <2>3. Opened(r)  BY <1>17, <2>1, <2>2 DEF UserTurn, Opened, NewRow
  <2> QED BY <1>17, <2>1, <2>3, OneRow DEF UserTurn, RowMove
<1>18. ASSUME NEW p \in Procs, DelegateRead(p) PROVE RowMove(q)
  BY <1>18, NoRow DEF DelegateRead
<1>19. ASSUME NEW p \in Procs, BootStart(p) PROVE RowMove(q)
  BY <1>19, NoRow DEF BootStart
<1>20. ASSUME NEW p \in Procs, BootList(p) PROVE RowMove(q)
  BY <1>20, NoRow DEF BootList
<1>21. ASSUME NEW p \in Procs, BootClaim(p) PROVE RowMove(q)
  BY <1>21, NoRow, try_claimMove DEF BootClaim, Oldest, TInv, MemT
<1>22. ASSUME NEW p \in Procs, Crash(p) PROVE RowMove(q)
  BY <1>22, NoRow DEF Crash
<1>23. ASSUME NEW p \in Procs, NEW r \in Runs, Pause(p, r) PROVE RowMove(q)
  <2>1. /\ row'[r] = [row[r] EXCEPT !.status = "paused", !.owner = Nobody, !.lease = "none",
                                     !.cancel = (row[r].status = "running")]
        /\ row[r] \in Row
    BY <1>23, OneRowValue DEF Pause
  <2>2. row'[r].status = "paused" /\ row'[r].attempts = row[r].attempts
    BY <2>1 DEF Row
  <2>3. Settles(r)  BY <1>23, <2>2 DEF Pause, Settles
  <2> QED BY <1>23, <2>3, OneRow DEF Pause, RowMove
<1>24. ASSUME NEW p \in Procs, NEW r \in Runs, CancelRun(p, r) PROVE RowMove(q)
  <2>1. row'[r] = [row[r] EXCEPT !.cancel = TRUE] /\ row[r] \in Row
    BY <1>24, OneRowValue DEF CancelRun
  <2>2. Stays(r)  BY <1>24, <2>1 DEF CancelRun, Stays, Row
  <2> QED BY <1>24, <2>2, OneRow DEF CancelRun, RowMove
<1>25. ASSUME NEW p \in Procs, NEW r \in Runs, Resume(p, r) PROVE RowMove(q)
  <2>1. SetRow(r, [NewRow(row[r].kind, "pending") EXCEPT !.attempts = row[r].attempts])
    BY <1>25 DEF Resume, Restart
  <2>2. row'[r].status = "pending" /\ row'[r].attempts = row[r].attempts
    BY <2>1, OneRowValue DEF NewRow
  <2>3. Resumed(r)  BY <1>25, <2>2 DEF Resume, Restart, UserAsks, Resumed, TInv, MemT
  <2>4. q # r => Stays(q)
    BY <1>25, <2>1 DEF Resume, SetRow, Stays, TInv, RowT, MemT
  <2> QED BY <2>3, <2>4 DEF RowMove
<1>26. ASSUME NEW p \in Procs, NEW r \in Runs, Retry(p, r) PROVE RowMove(q)
  <2>1. SetRow(r, [NewRow(row[r].kind, "pending") EXCEPT !.attempts = 0])
    BY <1>26 DEF Retry, Restart
  <2>2. row'[r].status = "pending" /\ row'[r].attempts = 0
    BY <2>1, OneRowValue DEF NewRow
  <2>3. Retried(r)  BY <1>26, <2>2 DEF Retry, Restart, UserAsks, Retried, TInv, MemT
  <2>4. q # r => Stays(q)
    BY <1>26, <2>1 DEF Retry, SetRow, Stays, TInv, RowT, MemT
  <2> QED BY <2>3, <2>4 DEF RowMove
<1>27. ASSUME NEW p \in Procs, NEW r \in Runs, BootRecover(p, r) PROVE RowMove(q)
  BY <1>27, recover_expiredMove DEF BootRecover
<1>28. ASSUME NEW p \in Procs, NEW r \in Runs, LeaseWatch(p, r) PROVE RowMove(q)
  BY <1>28, recover_expiredMove DEF LeaseWatch
<1>29. ASSUME NEW r \in Runs, Expire(r) PROVE RowMove(q)
  <2>1. row'[r] = [row[r] EXCEPT !.lease = "expired"] /\ row[r] \in Row
    BY <1>29, OneRowValue DEF Expire
  <2>2. Stays(r)  BY <1>29, <2>1 DEF Expire, Stays, Row
  <2> QED BY <1>29, <2>2, OneRow DEF Expire, RowMove
<1>30. ASSUME NEW r \in Runs, Stall(r) PROVE RowMove(q)
  <2>1. row'[r] = [row[r] EXCEPT !.lease = "expired"] /\ row[r] \in Row
    BY <1>30, OneRowValue DEF Stall
  <2>2. Stays(r)  BY <1>30, <2>1 DEF Stall, Stays, Row
  <2> QED BY <1>30, <2>2, OneRow DEF Stall, RowMove
<1>31. CASE UNCHANGED vars  BY <1>31, NoRow DEF vars
<1> QED
  BY <1>1, <1>2, <1>3, <1>4, <1>5, <1>6, <1>7, <1>8, <1>9, <1>10, <1>11, <1>12, <1>13, <1>14, <1>15, <1>16, <1>17, <1>18, <1>19, <1>20, <1>21, <1>22, <1>23, <1>24, <1>25, <1>26, <1>27, <1>28, <1>29, <1>30, <1>31
  DEF Next, TaskStep, SinkStep, UserStep, BootStep

\* A step that neither creates a run nor starts to.
NoneStays == \A q \in Runs : row[q].status = "none" => row'[q] = row[q]
NoNewInsert == \A u \in Tasks : task'[u].pc = "insert" =>
                   task[u].pc = "insert" /\ task'[u].run = task[u].run
Quiet == NoneStays /\ NoNewInsert

LEMMA OtherTasks ==
    ASSUME TInv, NEW t \in Tasks,
           \/ Ends(t)
           \/ \E l \in PCs \ {"insert"} : Goto(t, l)
           \/ \E k : task' = [task EXCEPT ![t] = k] /\ k.pc # "insert"
    PROVE  NoNewInsert
<1>1. task \in [Tasks -> Task]  BY DEF TInv, TaskT, GoodTask
<1>2. \A u \in Tasks \ {t} : task'[u] = task[u]
  BY <1>1 DEF Ends, Goto
<1>3. task'[t].pc # "insert"
  <2>1. CASE Ends(t)  BY <1>1, <2>1 DEF Ends, Idle
  <2>2. CASE \E l \in PCs \ {"insert"} : Goto(t, l)
    <3>1. task[t] \in Task  BY <1>1
    <3> QED BY <1>1, <2>2, <3>1 DEF Goto, Task
  <2>3. CASE \E k : task' = [task EXCEPT ![t] = k] /\ k.pc # "insert"
    BY <1>1, <2>3
  <2> QED BY <2>1, <2>2, <2>3
<1> QED BY <1>2, <1>3 DEF NoNewInsert

LEMMA InsertStep ==
    ASSUME TInv, InsertInv, [Next]_vars
    PROVE  InsertInv'
<1>1. ASSUME NEW t \in Tasks, Trigger(t) PROVE Quiet
  <2>1. NoneStays  BY <1>1 DEF NoneStays, Trigger, finish, SetRow, OPEN_STATUSES, TInv, RowT
  <2>2. NoNewInsert  BY <1>1, OtherTasks DEF Trigger, PCs
  <2> QED BY <2>1, <2>2 DEF Quiet
<1>2. ASSUME NEW t \in Tasks, Claim(t) PROVE Quiet
  <2>1. NoneStays  BY <1>2 DEF NoneStays, Claim, try_claim, SetRow, TInv, RowT
  <2>2. NoNewInsert  BY <1>2, OtherTasks DEF Claim, PCs
  <2> QED BY <2>1, <2>2 DEF Quiet
<1>3. ASSUME NEW t \in Tasks, Check(t) PROVE Quiet
  <2>1. NoneStays  BY <1>3 DEF NoneStays, Check, finish, SetRow, OPEN_STATUSES, TInv, RowT
  <2>2. NoNewInsert  BY <1>3, OtherTasks DEF Check, PCs
  <2> QED BY <2>1, <2>2 DEF Quiet
<1>4. ASSUME NEW t \in Tasks, Open(t) PROVE Quiet
  <2>1. NoneStays  BY <1>4 DEF NoneStays, Open, TInv, RowT
  <2>2. NoNewInsert
    <3>1. task[t] \in Task  BY <1>4, TaskFields DEF TInv
    <3> QED BY <1>4, <3>1, OtherTasks DEF Open, Task, PCs
  <2> QED BY <2>1, <2>2 DEF Quiet
<1>5. ASSUME NEW t \in Tasks, Work(t) PROVE Quiet
  <2>1. NoneStays  BY <1>5 DEF NoneStays, Work, TInv, RowT
  <2>2. NoNewInsert
    <3>1. task[t] \in Task  BY <1>5, TaskFields DEF TInv
    <3> QED BY <1>5, <3>1, OtherTasks DEF Work, Task, PCs
  <2> QED BY <2>1, <2>2 DEF Quiet
<1>6. ASSUME NEW t \in Tasks, Save(t) PROVE Quiet
  <2>1. NoneStays  BY <1>6 DEF NoneStays, Save, TInv, RowT
  <2>2. NoNewInsert  BY <1>6, OtherTasks DEF Save, PCs
  <2> QED BY <2>1, <2>2 DEF Quiet
<1>7. ASSUME NEW t \in Tasks, Finish(t) PROVE Quiet
  <2>1. NoneStays  BY <1>7 DEF NoneStays, Finish, finish, SetRow, OPEN_STATUSES, TInv, RowT
  <2>2. NoNewInsert  BY <1>7, OtherTasks DEF Finish, PCs
  <2> QED BY <2>1, <2>2 DEF Quiet
<1>8. ASSUME NEW t \in Tasks, FailRun(t) PROVE Quiet
  <2>1. NoneStays  BY <1>8 DEF NoneStays, FailRun, finish, SetRow, OPEN_STATUSES, TInv, RowT
  <2>2. NoNewInsert  BY <1>8, OtherTasks DEF FailRun, PCs
  <2> QED BY <2>1, <2>2 DEF Quiet
<1>9. ASSUME NEW t \in Tasks, Drain(t) PROVE Quiet
  <2>1. NoneStays  BY <1>9 DEF NoneStays, Drain, TInv, RowT
  <2>2. NoNewInsert  BY <1>9 DEF NoNewInsert, Drain, TInv, TaskT
  <2> QED BY <2>1, <2>2 DEF Quiet
<1>10. ASSUME NEW t \in Tasks, Hook(t) PROVE Quiet
  <2>1. NoneStays  BY <1>10 DEF NoneStays, Hook, TInv, RowT
  <2>2. NoNewInsert  BY <1>10, OtherTasks DEF Hook, PCs
  <2> QED BY <2>1, <2>2 DEF Quiet
<1>11. ASSUME NEW t \in Tasks, Promote(t) PROVE Quiet
  <2>1. NoneStays  BY <1>11 DEF NoneStays, Promote, SetRow, Oldest, QueuedWorkers, TInv, RowT
  <2>2. NoNewInsert
    <3>1. task[t] \in Task /\ task \in [Tasks -> Task]
      BY <1>11, TaskFields DEF TInv, TaskT, GoodTask
    <3>2. (\A u \in Tasks \ {t} : task'[u] = task[u]) /\ task'[t].pc # "insert"
      <4>1. ASSUME NEW r, task' = [task EXCEPT ![t].run = r, ![t].pc = "claim"]
            PROVE  (\A u \in Tasks \ {t} : task'[u] = task[u]) /\ task'[t].pc # "insert"
        BY <3>1, <4>1 DEF Task
      <4>2. CASE Ends(t)  BY <3>1, <4>2 DEF Ends, Idle
      <4> QED BY <1>11, <4>1, <4>2 DEF Promote
    <3> QED BY <3>2 DEF NoNewInsert
  <2> QED BY <2>1, <2>2 DEF Quiet
<1>12. ASSUME NEW t \in Tasks, Kill(t) PROVE Quiet
  <2>1. NoneStays  BY <1>12 DEF NoneStays, Kill, TInv, RowT
  <2>2. NoNewInsert  BY <1>12 DEF NoNewInsert, Kill, Goto, Ends, Idle, TInv, TaskT
  <2> QED BY <2>1, <2>2 DEF Quiet
<1>13. ASSUME NEW t \in Tasks, CancelHere(t) PROVE Quiet
  <2>1. NoneStays  BY <1>13 DEF NoneStays, CancelHere, SetRow, TInv, RowT
  <2>2. NoNewInsert
    <3>1. task[t] \in Task /\ task \in [Tasks -> Task]
      BY <1>13, TaskFields DEF TInv, TaskT, GoodTask
    <3>2. (\A u \in Tasks \ {t} : task'[u] = task[u]) /\ task'[t].pc # "insert"
      <4>1. CASE task' = [task EXCEPT ![t].pc = "hook", ![t].to = "none"]
        BY <3>1, <4>1 DEF Task
      <4>2. CASE Ends(t)  BY <3>1, <4>2 DEF Ends, Idle
      <4> QED BY <1>13, <4>1, <4>2 DEF CancelHere
    <3> QED BY <3>2 DEF NoNewInsert
  <2> QED BY <2>1, <2>2 DEF Quiet
<1>14. ASSUME NEW t \in Tasks, Heartbeat(t) PROVE Quiet
  <2>1. NoneStays  BY <1>14 DEF NoneStays, Heartbeat, SetRow, TInv, RowT
  <2>2. NoNewInsert  BY <1>14 DEF NoNewInsert, Heartbeat, TInv, TaskT
  <2> QED BY <2>1, <2>2 DEF Quiet
<1>15. ASSUME NEW t \in Tasks, PollCancel(t) PROVE Quiet
  <2>1. NoneStays  BY <1>15 DEF NoneStays, PollCancel, TInv, RowT
  <2>2. NoNewInsert  BY <1>15 DEF NoNewInsert, PollCancel, TInv, TaskT
  <2> QED BY <2>1, <2>2 DEF Quiet
<1>16. ASSUME NEW p \in Procs, BootStart(p) PROVE Quiet
  <2>1. NoneStays  BY <1>16 DEF NoneStays, BootStart, TInv, RowT
  <2>2. NoNewInsert  BY <1>16 DEF NoNewInsert, BootStart, TInv, TaskT
  <2> QED BY <2>1, <2>2 DEF Quiet
<1>17. ASSUME NEW p \in Procs, BootList(p) PROVE Quiet
  <2>1. NoneStays  BY <1>17 DEF NoneStays, BootList, TInv, RowT
  <2>2. NoNewInsert  BY <1>17 DEF NoNewInsert, BootList, TInv, TaskT
  <2> QED BY <2>1, <2>2 DEF Quiet
<1>18. ASSUME NEW p \in Procs, BootClaim(p) PROVE Quiet
  <2>1. NoneStays  BY <1>18 DEF NoneStays, BootClaim, try_claim, SetRow, TInv, RowT
  <2>2. NoNewInsert  BY <1>18 DEF NoNewInsert, BootClaim, Spawn, Free, TInv, TaskT
  <2> QED BY <2>1, <2>2 DEF Quiet
<1>19. ASSUME NEW p \in Procs, Crash(p) PROVE Quiet
  <2>1. NoneStays  BY <1>19 DEF NoneStays, Crash, TInv, RowT
  <2>2. NoNewInsert  BY <1>19 DEF NoNewInsert, Crash, Idle, TInv, TaskT
  <2> QED BY <2>1, <2>2 DEF Quiet
<1>20. ASSUME NEW p \in Procs, NEW r \in Runs, Pause(p, r) PROVE Quiet
  <2>1. NoneStays  BY <1>20 DEF NoneStays, Pause, SetRow, OPEN_STATUSES, TInv, RowT
  <2>2. NoNewInsert  BY <1>20 DEF NoNewInsert, Pause, Spawn, Free, TInv, TaskT
  <2> QED BY <2>1, <2>2 DEF Quiet
<1>21. ASSUME NEW p \in Procs, NEW r \in Runs, Resume(p, r) PROVE Quiet
  <2>1. NoneStays  BY <1>21 DEF NoneStays, Resume, Restart, SetRow, TInv, RowT
  <2>2. NoNewInsert  BY <1>21 DEF NoNewInsert, Resume, Spawn, Free, Restart, TInv, TaskT
  <2> QED BY <2>1, <2>2 DEF Quiet
<1>22. ASSUME NEW p \in Procs, NEW r \in Runs, Retry(p, r) PROVE Quiet
  <2>1. NoneStays  BY <1>22 DEF NoneStays, Retry, Restart, SetRow, TInv, RowT
  <2>2. NoNewInsert  BY <1>22 DEF NoNewInsert, Retry, Spawn, Free, Restart, TInv, TaskT
  <2> QED BY <2>1, <2>2 DEF Quiet
<1>23. ASSUME NEW p \in Procs, NEW r \in Runs, CancelRun(p, r) PROVE Quiet
  <2>1. NoneStays  BY <1>23 DEF NoneStays, CancelRun, SetRow, Terminal, TInv, RowT
  <2>2. NoNewInsert  BY <1>23 DEF NoNewInsert, CancelRun, Spawn, Free, TInv, TaskT
  <2> QED BY <2>1, <2>2 DEF Quiet
<1>24. ASSUME NEW p \in Procs, NEW r \in Runs, BootRecover(p, r) PROVE Quiet
  <2>1. NoneStays  BY <1>24 DEF NoneStays, BootRecover, recover_expired, SetRow, TInv, RowT
  <2>2. NoNewInsert  BY <1>24 DEF NoNewInsert, BootRecover, Spawn, Free, TInv, TaskT
  <2> QED BY <2>1, <2>2 DEF Quiet
<1>25. ASSUME NEW p \in Procs, NEW r \in Runs, LeaseWatch(p, r) PROVE Quiet
  <2>1. NoneStays  BY <1>25 DEF NoneStays, LeaseWatch, recover_expired, SetRow, TInv, RowT
  <2>2. NoNewInsert  BY <1>25 DEF NoNewInsert, LeaseWatch, Spawn, Free, TInv, TaskT
  <2> QED BY <2>1, <2>2 DEF Quiet
<1>26. ASSUME NEW r \in Runs, Expire(r) PROVE Quiet
  <2>1. NoneStays  BY <1>26 DEF NoneStays, Expire, SetRow, TInv, RowT
  <2>2. NoNewInsert  BY <1>26 DEF NoNewInsert, Expire, TInv, TaskT
  <2> QED BY <2>1, <2>2 DEF Quiet
<1>27. ASSUME NEW r \in Runs, Stall(r) PROVE Quiet
  <2>1. NoneStays  BY <1>27 DEF NoneStays, Stall, SetRow, TInv, RowT
  <2>2. NoNewInsert  BY <1>27 DEF NoNewInsert, Stall, TInv, TaskT
  <2> QED BY <2>1, <2>2 DEF Quiet
<1>28. ASSUME NEW t \in Tasks, DelegateInsert(t) PROVE InsertInv'
  <2>1. NoNewInsert /\ task'[t].pc # "insert"
    <3>1. task[t] \in Task /\ task \in [Tasks -> Task]
      BY <1>28, TaskFields DEF TInv, TaskT, GoodTask
    <3>2. CASE task' = [task EXCEPT ![t].pc = "claim", ![t].to = "none"]
      BY <3>1, <3>2 DEF Task, NoNewInsert
    <3>3. CASE Ends(t)  BY <3>1, <3>3 DEF Ends, Idle, NoNewInsert
    <3> QED BY <1>28, <3>2, <3>3 DEF DelegateInsert
  <2>2. ASSUME NEW u \in Tasks, task'[u].pc = "insert"
        PROVE  row'[task[u].run] = row[task[u].run] /\ task[u].pc = "insert"
    <3>1. task[u].pc = "insert" /\ u # t  BY <2>1, <2>2 DEF NoNewInsert
    <3>2. task[u].run # task[t].run  BY <1>28, <3>1 DEF InsertInv, DelegateInsert
    <3>3. task[u].run \in Runs  BY <3>1, TaskFields DEF TInv
    <3> QED BY <1>28, <3>1, <3>2, <3>3 DEF DelegateInsert, SetRow, TInv, RowT
  <2> QED BY <2>1, <2>2 DEF InsertInv, NoNewInsert
<1>29. ASSUME NEW p \in Procs, UserTurn(p) PROVE InsertInv'
  <2> PICK r \in Uncreated : SetRow(r, NewRow("chat", "pending")) /\ Spawn(p, r, "trigger", "none")
    BY <1>29 DEF UserTurn, Oldest
  <2>1. NoNewInsert  BY DEF NoNewInsert, Spawn, Free, TInv, TaskT
  <2>2. ASSUME NEW u \in Tasks, task[u].pc = "insert"
        PROVE  row'[task[u].run] = row[task[u].run]
    <3>1. task[u].run # r /\ task[u].run \in Runs
      BY <2>2, TaskFields DEF Uncreated, TInv
    <3> QED BY <3>1 DEF SetRow, TInv, RowT
  <2> QED BY <2>1, <2>2 DEF InsertInv, NoNewInsert
<1>30. ASSUME NEW p \in Procs, DelegateRead(p) PROVE InsertInv'
  <2> PICK r \in Uncreated :
         Spawn(p, r, "insert", initial_status(Cardinality(ActiveWorkers)))
    BY <1>30 DEF DelegateRead, Oldest
  <2> PICK k \in Free : task' = [task EXCEPT ![k] =
         [proc |-> p, run |-> r, pc |-> "insert",
          to |-> initial_status(Cardinality(ActiveWorkers)), tok |-> NoTask]]
    BY DEF Spawn
  <2>1. task'[k].run = r /\ \A u \in Tasks \ {k} : task'[u] = task[u]
    BY DEF Free, TInv, TaskT
  <2>2. row[r].status = "none" /\ \A u \in Tasks : task[u].pc = "insert" => task[u].run # r
    BY DEF Uncreated
  <2>3. UNCHANGED row  BY <1>30 DEF DelegateRead
  <2> QED BY <2>1, <2>2, <2>3 DEF InsertInv
<1>31. CASE UNCHANGED vars  BY <1>31 DEF vars, InsertInv
<1>q. Quiet => InsertInv'
  <2> SUFFICES ASSUME Quiet, NEW u \in Tasks, task'[u].pc = "insert"
               PROVE  /\ row'[task'[u].run].status = "none"
                      /\ \A v \in Tasks : task'[v].pc = "insert" /\ task'[v].run = task'[u].run
                                           => v = u
    BY DEF InsertInv
  <2>1. task[u].pc = "insert" /\ task'[u].run = task[u].run /\ task[u].run \in Runs
    BY TaskFields DEF Quiet, NoNewInsert, TInv
  <2> QED BY <2>1 DEF Quiet, NoneStays, NoNewInsert, InsertInv
<1> QED
  BY <1>1, <1>2, <1>3, <1>4, <1>5, <1>6, <1>7, <1>8, <1>9, <1>10, <1>11, <1>12, <1>13, <1>14, <1>15, <1>16, <1>17, <1>18, <1>19, <1>20, <1>21, <1>22, <1>23, <1>24, <1>25, <1>26, <1>27, <1>28, <1>29, <1>30, <1>31, <1>q
  DEF Next, TaskStep, SinkStep, UserStep, BootStep

-----------------------------------------------------------------------------
(* What follows for a run.                                                 *)

\* A run still to be claimed has an attempt left.
AttemptsInv ==
    \A r \in Runs :
        /\ row[r].attempts <= MAX_ATTEMPTS + resumes[r]
        /\ row[r].status \in {"none", "queued", "pending"}
             => row[r].attempts < MAX_ATTEMPTS + resumes[r]

RInv == TInv /\ InsertInv /\ AttemptsInv

LEMMA RInit == Init => RInv
<1> SUFFICES ASSUME Init PROVE RInv OBVIOUS
<1>1. TInv  BY TypeInit
<1>2. InsertInv  BY DEF Init, InsertInv, Idle
<1>3. AttemptsInv  BY ConstantsAssumption DEF Init, AttemptsInv, NewRow
<1> QED BY <1>1, <1>2, <1>3 DEF RInv

LEMMA RStep == RInv /\ [Next]_vars => RInv'
<1> SUFFICES ASSUME RInv, [Next]_vars PROVE RInv' OBVIOUS
<1>1. TInv'  BY TypeStep DEF RInv
<1>2. InsertInv'  BY InsertStep DEF RInv
<1>3. AttemptsInv'
  <2> SUFFICES ASSUME NEW r \in Runs
               PROVE  /\ row'[r].attempts <= MAX_ATTEMPTS + resumes'[r]
                      /\ row'[r].status \in {"none", "queued", "pending"}
                           => row'[r].attempts < MAX_ATTEMPTS + resumes'[r]
    BY DEF AttemptsInv
  <2>1. RowMove(r)  BY RowStep DEF RInv
  <2>2. /\ row[r].attempts \in Nat /\ resumes[r] \in Nat /\ resumes'[r] \in Nat
        /\ MAX_ATTEMPTS \in Nat \ {0}
    BY <1>1, RunFields, ConstantsAssumption DEF RInv, TInv, MemT
  <2> QED
    BY <2>1, <2>2
    DEF RInv, AttemptsInv, RowMove, Stays, Opened, Claimed, Requeued, Settles, Resumed,
        Retried, OPEN_STATUSES, Terminal
<1> QED BY <1>1, <1>2, <1>3 DEF RInv

\* AttemptsBounded holds for every number of processes, runs, crashes and lapsed leases:
\* recover_expired never lets try_claim count past MAX_ATTEMPTS, but for resumptions.
THEOREM AttemptsBoundedHolds == Spec => []AttemptsBounded
<1>1. Spec => []RInv
  BY RInit, RStep, PTL DEF Spec
<1>2. RInv => AttemptsBounded
  BY DEF RInv, AttemptsInv, AttemptsBounded
<1> QED BY <1>1, <1>2, PTL

\* SettledIsFinal holds for all constants: no late executor, watch, boot or worker hook
\* moves a run that ended or was paused; only its user does, by Resume or Retry.
THEOREM SettledStays == Spec => SettledIsFinal
<1>1. Spec => []RInv
  BY RInit, RStep, PTL DEF Spec
<1>2. ASSUME RInv, [Next]_vars
      PROVE  [\A r \in Runs :
                row[r].status \in Terminal \cup {"paused"} /\ row'[r].status # row[r].status
                  => /\ row[r].status \in {"paused", "failed"}
                     /\ row'[r].status = "pending"
                     /\ ops' = ops + 1]_vars
  <2> SUFFICES ASSUME NEW r \in Runs,
                      row[r].status \in Terminal \cup {"paused"},
                      row'[r].status # row[r].status
               PROVE  /\ row[r].status \in {"paused", "failed"}
                      /\ row'[r].status = "pending"
                      /\ ops' = ops + 1
    OBVIOUS
  <2>1. RowMove(r)  BY <1>2, RowStep DEF RInv
  <2> QED
    BY <2>1
    DEF RowMove, Stays, Opened, Claimed, Requeued, Settles, Resumed, Retried,
        OPEN_STATUSES, Terminal
<1> QED BY <1>1, <1>2, PTL DEF Spec, SettledIsFinal


-----------------------------------------------------------------------------
(* One executor.                                                           *)

\* A task that executes its run, also once it was told to stop.
BusyPCs == {"check", "open"} \cup AtWork
Busy(t) == task[t].pc \in BusyPCs

\* Until an executor is left behind: a run with an executor is running, under a lease
\* that has not expired and that the executor will renew, or has ended or was paused;
\* and nobody else executes it.  A cancelled executor counts: it is the expiry of the
\* lease it no longer renews that leaves it behind.
BusyAlone ==
    \A t \in Tasks : Busy(t) =>
        /\ row[task[t].run].status \in {"running", "paused", "completed", "cancelled"}
        /\ row[task[t].run].status = "running" =>
              /\ row[task[t].run].lease # "expired"
              /\ task[t].pc \in {"check", "open"} => row[task[t].run].owner = task[t].proc
        /\ \A u \in Tasks : Busy(u) /\ task[u].run = task[t].run => u = t
BusyInv == ~overtaken => BusyAlone

\* What a step that begins no execution does to the executors and to their rows.
TaskKeeps(u) ==
    Busy(u)' => /\ Busy(u) /\ task'[u].run = task[u].run /\ task'[u].proc = task[u].proc
                /\ task'[u].pc \in {"check", "open"} => task[u].pc \in {"check", "open"}
RowKeeps(r) ==
    \/ row'[r].status \in {"paused", "completed", "cancelled"}
    \/ /\ row'[r].status = row[r].status /\ row'[r].owner = row[r].owner
       /\ row'[r].lease = "expired" => row[r].lease = "expired"

LEMMA BusyKeeps ==
    ASSUME BusyAlone, \A u \in Tasks : TaskKeeps(u),
           \A u \in Tasks : Busy(u) /\ Busy(u)' => RowKeeps(task[u].run)
    PROVE  BusyAlone'
<1> SUFFICES ASSUME NEW t \in Tasks, Busy(t)'
             PROVE  /\ row'[task'[t].run].status
                          \in {"running", "paused", "completed", "cancelled"}
                    /\ row'[task'[t].run].status = "running" =>
                          /\ row'[task'[t].run].lease # "expired"
                          /\ task'[t].pc \in {"check", "open"} =>
                                row'[task'[t].run].owner = task'[t].proc
                    /\ \A u \in Tasks : Busy(u)' /\ task'[u].run = task'[t].run => u = t
  BY DEF BusyAlone
<1>1. Busy(t) /\ RowKeeps(task[t].run) /\ task'[t].run = task[t].run
  BY DEF TaskKeeps
<1>2. \A u \in Tasks : Busy(u)' => Busy(u) /\ task'[u].run = task[u].run
  BY DEF TaskKeeps
<1> QED BY <1>1, <1>2 DEF BusyAlone, TaskKeeps, RowKeeps

\* One task moves, and not to begin an execution.
LEMMA MovedKeeps ==
    ASSUME TInv, NEW t \in Tasks, NEW x, task' = [task EXCEPT ![t] = x],
           \/ x.pc \notin BusyPCs
           \/ /\ Busy(t) /\ x.run = task[t].run /\ x.proc = task[t].proc
              /\ x.pc \in {"check", "open"} => task[t].pc \in {"check", "open"}
    PROVE  \A u \in Tasks : TaskKeeps(u)
  BY DEF TInv, TaskT, TaskKeeps, Busy

LEMMA GotoKeeps ==
    ASSUME TInv, NEW t \in Tasks, NEW l, Goto(t, l),
           \/ l \notin BusyPCs
           \/ Busy(t) /\ (l \in {"check", "open"} => task[t].pc \in {"check", "open"})
    PROVE  /\ \A u \in Tasks : TaskKeeps(u)
           /\ l \notin BusyPCs => ~Busy(t)'
<1>1. task[t] \in Task  BY TaskFields DEF TInv
<1> DEFINE x == [task[t] EXCEPT !.pc = l]
<1>2. x.pc = l /\ x.run = task[t].run /\ x.proc = task[t].proc
  BY <1>1 DEF Task
<1>3. task' = [task EXCEPT ![t] = x]  BY DEF Goto, TInv, TaskT
<1>4. task'[t] = x  BY <1>3 DEF TInv, TaskT
<1> HIDE DEF x
<1> QED BY <1>2, <1>3, <1>4, MovedKeeps DEF Busy

LEMMA EndsKeeps ==
    ASSUME TInv, NEW t \in Tasks, Ends(t)
    PROVE  (\A u \in Tasks : TaskKeeps(u)) /\ ~Busy(t)'
<1>1. Idle.pc \notin BusyPCs  BY DEF Idle, BusyPCs, AtWork
<1>2. task'[t] = Idle  BY DEF Ends, TInv, TaskT
<1> QED BY <1>1, <1>2, MovedKeeps DEF Ends, Busy

LEMMA SpawnKeeps ==
    ASSUME TInv, NEW p, NEW r, NEW l, NEW to, Spawn(p, r, l, to), l \notin BusyPCs
    PROVE  \A u \in Tasks : TaskKeeps(u)
<1>1. PICK t \in Free :
        task' = [task EXCEPT ![t] = [proc |-> p, run |-> r, pc |-> l, to |-> to,
                                     tok |-> NoTask]]
  BY DEF Spawn
<1> QED BY <1>1, MovedKeeps DEF Free

\* A statement leaves the rows of the other runs alone.
LEMMA OthersKeep ==
    ASSUME TInv, NEW r \in Runs, NEW x, SetRow(r, x)
    PROVE  \A q \in Runs : RowKeeps(q) \/ q = r
  BY DEF SetRow, TInv, RowT, RowKeeps

LEMMA finishKeeps ==
    ASSUME TInv, NEW r \in Runs, NEW s, finish(r, s)
    PROVE  \A q \in Runs : RowKeeps(q) \/ (q = r /\ s \notin {"completed", "cancelled"})
<1>1. CASE row[r].status \in OPEN_STATUSES /\ s \in {"completed", "cancelled"}
  <2>1. row'[r] = [row[r] EXCEPT !.status = s, !.owner = Nobody, !.lease = "none"]
    BY <1>1, OneRowValue DEF finish
  <2>2. row'[r].status = s  BY <2>1, RunFields DEF TInv, Row
  <2> QED BY <1>1, <2>2, OthersKeep DEF finish, RowKeeps
<1>2. CASE row[r].status \notin OPEN_STATUSES
  <2>1. row'[r] = row[r]  BY <1>2, OneRowValue DEF finish
  <2> QED BY <2>1, OthersKeep DEF finish, RowKeeps
<1>3. CASE s \notin {"completed", "cancelled"}
  BY <1>3, OthersKeep DEF finish
<1> QED BY <1>1, <1>2, <1>3

\* The run of an executor, and what its row is.
LEMMA BusyRun ==
    ASSUME TInv, NEW t \in Tasks, Busy(t)
    PROVE  task[t].run \in Runs /\ task[t].proc \in Procs
  BY TaskFields DEF TInv, Busy, BusyPCs, AtWork

\* A claim begins an execution of a run that has none.
LEMMA ClaimAlone ==
    ASSUME TInv, BusyAlone, NEW t \in Tasks, NEW r \in Runs, NEW p \in Procs,
           try_claim(r, p), ~Busy(t),
           task'[t].run = r, task'[t].proc = p, task'[t].pc \in {"check", "open"},
           \A u \in Tasks \ {t} : task'[u] = task[u]
    PROVE  BusyAlone'
<1>1. \A u \in Tasks : Busy(u) => task[u].run # r
  BY DEF BusyAlone, try_claim
<1>2. row'[r].status = "running" /\ row'[r].lease = "fresh" /\ row'[r].owner = p
  <2>1. row'[r] = [row[r] EXCEPT !.status = "running", !.owner = p, !.lease = "fresh",
                                !.attempts = row[r].attempts + 1]
    BY OneRowValue DEF try_claim
  <2> QED BY <2>1, RunFields DEF TInv, Row
<1>3. \A q \in Runs \ {r} : row'[q] = row[q]
  BY DEF try_claim, SetRow, TInv, RowT
<1>4. \A u \in Tasks \ {t} : Busy(u)' <=> Busy(u)
  BY DEF Busy
<1>5. \A u \in Tasks : Busy(u) => /\ task[u].run \in Runs \ {r} /\ u # t
                                  /\ row'[task[u].run] = row[task[u].run]
  BY <1>1, <1>3, BusyRun
<1> SUFFICES ASSUME NEW u \in Tasks, Busy(u)'
             PROVE  /\ row'[task'[u].run].status
                          \in {"running", "paused", "completed", "cancelled"}
                    /\ row'[task'[u].run].status = "running" =>
                          /\ row'[task'[u].run].lease # "expired"
                          /\ task'[u].pc \in {"check", "open"} =>
                                row'[task'[u].run].owner = task'[u].proc
                    /\ \A v \in Tasks : Busy(v)' /\ task'[v].run = task'[u].run => v = u
  BY DEF BusyAlone
<1>6. CASE u = t
  BY <1>2, <1>4, <1>5, <1>6
<1>7. CASE u # t
  <2>1. Busy(u) /\ task'[u] = task[u] /\ row'[task[u].run] = row[task[u].run]
        /\ task[u].run # r
    BY <1>4, <1>5, <1>7
  <2>2. \A v \in Tasks : Busy(v)' /\ task'[v].run = task'[u].run
                            => Busy(v) /\ task[v].run = task[u].run
    BY <1>4, <2>1
  <2> QED BY <2>1, <2>2 DEF BusyAlone
<1> QED BY <1>6, <1>7

\* An executor left behind is not forgotten.
LEMMA OvertakenStays == TInv /\ [Next]_vars => (overtaken => overtaken')
<1> SUFFICES ASSUME TInv, [Next]_vars, overtaken PROVE overtaken'
  OBVIOUS
<1>1. CASE UNCHANGED overtaken
  BY <1>1
<1>2. ASSUME NEW t \in Tasks, TaskStep(t) \/ SinkStep(t) PROVE overtaken'
  BY <1>1, <1>2 DEF TaskStep, SinkStep, DelegateInsert, Trigger, Claim, Check, Open, Work, Save,
     Finish, FailRun, Drain, Hook, Promote, Kill, CancelHere, Heartbeat, PollCancel, bounds
<1>3. ASSUME NEW p \in Procs,
             UserStep(p) \/ BootStep(p) \/ Crash(p) \/ \E r \in Runs : LeaseWatch(p, r)
      PROVE  overtaken'
  BY <1>1, <1>3 DEF UserStep, BootStep, Crash, LeaseWatch, UserTurn, DelegateRead, Pause, Resume,
     Retry, Restart, CancelRun, BootStart, BootList, BootClaim, BootRecover, bounds
<1>4. ASSUME NEW r \in Runs, Expire(r) \/ Stall(r) PROVE overtaken'
  BY <1>4 DEF Expire, Stall
<1> QED BY <1>1, <1>2, <1>3, <1>4 DEF Next, vars

LEMMA BusyTask ==
    ASSUME TInv, InsertInv, BusyAlone, NEW t \in Tasks, TaskStep(t)
    PROVE  BusyAlone'
<1>0. task[t] \in Task /\ task \in [Tasks -> GoodTask] /\ (task[t].pc # "off" => task[t].run \in Runs)
  BY TaskFields DEF TInv, TaskT
<1> USE DEF BusyPCs, AtWork
<1>k. ASSUME \A u \in Tasks : TaskKeeps(u), UNCHANGED row PROVE BusyAlone'
  BY <1>k, BusyKeeps DEF RowKeeps
<1>r. ASSUME \A u \in Tasks : TaskKeeps(u), NEW r,
             \A q \in Runs : RowKeeps(q) \/ q = r,
             \A u \in Tasks : Busy(u) /\ Busy(u)' => task[u].run # r
      PROVE  BusyAlone'
  BY <1>r, BusyKeeps, BusyRun
<1>1. CASE DelegateInsert(t)
  <2>1. \A u \in Tasks : TaskKeeps(u)
    <3>1. CASE Ends(t)  BY <3>1, EndsKeeps
    <3>2. CASE task' = [task EXCEPT ![t].pc = "claim", ![t].to = "none"]
      <4> DEFINE x == [[task[t] EXCEPT !.pc = "claim"] EXCEPT !.to = "none"]
      <4>1. x.pc = "claim"  BY <1>0 DEF Task
      <4>2. task' = [task EXCEPT ![t] = x]  BY <1>0, <3>2
      <4> HIDE DEF x
      <4> QED BY <4>1, <4>2, MovedKeeps
    <3> QED BY <1>1, <3>1, <3>2 DEF DelegateInsert
  <2>2. \A q \in Runs : RowKeeps(q) \/ q = task[t].run
    BY <1>0, <1>1, OthersKeep DEF DelegateInsert
  <2>3. row[task[t].run].status = "none"  BY <1>1 DEF DelegateInsert, InsertInv
  <2>4. \A u \in Tasks : Busy(u) => task[u].run # task[t].run
    BY <2>3 DEF BusyAlone
  <2> QED BY <1>r, <2>1, <2>2, <2>4
<1>2. CASE Trigger(t) \/ Check(t)
  <2>1. \/ UNCHANGED row /\ (Goto(t, "claim") \/ (Busy(t) /\ task[t].pc = "check" /\ Goto(t, "open")))
        \/ finish(task[t].run, "completed") /\ Ends(t)
    BY <1>2 DEF Trigger, Check, Busy
  <2>2. \A u \in Tasks : TaskKeeps(u)
    BY <2>1, GotoKeeps, EndsKeeps
  <2>3. task[t].run \in Runs  BY <1>0, <1>2 DEF Trigger, Check
  <2>4. CASE UNCHANGED row  BY <1>k, <2>2, <2>4
  <2>5. CASE finish(task[t].run, "completed")
    <3>1. \A q \in Runs : RowKeeps(q)  BY <2>3, <2>5, finishKeeps
    <3> QED BY <2>2, <3>1, BusyKeeps, BusyRun
  <2> QED BY <2>1, <2>4, <2>5
<1>3. CASE Claim(t)
  <2>1. CASE Ends(t) /\ UNCHANGED row  BY <1>k, <2>1, EndsKeeps
  <2>2. CASE try_claim(task[t].run, task[t].proc) /\ Goto(t, "open")
    <3>1. task[t].run \in Runs /\ task[t].proc \in Procs /\ ~Busy(t)
      BY <1>3, TaskFields DEF Claim, TInv, Busy
    <3>2. task'[t].pc = "open" /\ task'[t].run = task[t].run /\ task'[t].proc = task[t].proc
          /\ \A u \in Tasks \ {t} : task'[u] = task[u]
      BY <1>0, <2>2 DEF Goto, Task
    <3> QED BY <2>2, <3>1, <3>2, ClaimAlone
  <2> QED BY <1>3, <2>1, <2>2 DEF Claim
<1>4. CASE Open(t)
  <2>1. PICK k : task' = [task EXCEPT ![t].pc = "work", ![t].tok = k]
    BY <1>4 DEF Open
  <2> DEFINE x == [[task[t] EXCEPT !.pc = "work"] EXCEPT !.tok = k]
  <2>2. x.pc = "work" /\ x.run = task[t].run /\ x.proc = task[t].proc  BY <1>0 DEF Task
  <2>3. task' = [task EXCEPT ![t] = x]  BY <1>0, <2>1
  <2>4. Busy(t)  BY <1>4 DEF Open, Busy
  <2> HIDE DEF x
  <2>5. \A u \in Tasks : TaskKeeps(u)  BY <2>2, <2>3, <2>4, MovedKeeps
  <2> QED BY <1>k, <1>4, <2>5 DEF Open
<1>5. CASE Work(t)
  <2>1. Busy(t)  BY <1>5 DEF Work, Busy
  <2>2. CASE Goto(t, "fail")
    <3>1. \A u \in Tasks : TaskKeeps(u)  BY <2>1, <2>2, GotoKeeps
    <3> QED BY <1>k, <1>5, <3>1 DEF Work
  <2>3. ASSUME NEW s, task' = [task EXCEPT ![t].pc = "save", ![t].to = s] PROVE BusyAlone'
    <3> DEFINE x == [[task[t] EXCEPT !.pc = "save"] EXCEPT !.to = s]
    <3>1. x.pc = "save" /\ x.run = task[t].run /\ x.proc = task[t].proc  BY <1>0 DEF Task
    <3>2. task' = [task EXCEPT ![t] = x]  BY <1>0, <2>3
    <3> HIDE DEF x
    <3>3. \A u \in Tasks : TaskKeeps(u)  BY <2>1, <3>1, <3>2, MovedKeeps
    <3> QED BY <1>k, <1>5, <3>3 DEF Work
  <2> QED BY <1>5, <2>2, <2>3 DEF Work
<1>6. CASE Save(t)
  <2>1. Busy(t) /\ UNCHANGED row /\ (Goto(t, "finish") \/ Goto(t, "drain"))
    BY <1>6 DEF Save, Busy
  <2> QED BY <1>k, <2>1, GotoKeeps
<1>7. CASE Finish(t)
  <2>1. \A u \in Tasks : TaskKeeps(u)  BY <1>7, GotoKeeps DEF Finish
  <2>2. task[t].to \in {"completed", "cancelled"} /\ task[t].run \in Runs
    BY <1>7, TaskFields DEF Finish, TInv
  <2>3. CASE UNCHANGED row  BY <1>k, <2>1, <2>3
  <2>4. CASE finish(task[t].run, task[t].to)
    <3>1. \A q \in Runs : RowKeeps(q)  BY <2>2, <2>4, finishKeeps
    <3> QED BY <2>1, <3>1, BusyKeeps, BusyRun
  <2> QED BY <1>7, <2>3, <2>4 DEF Finish
<1>8. CASE FailRun(t)
  <2>1. (\A u \in Tasks : TaskKeeps(u)) /\ ~Busy(t)'  BY <1>8, GotoKeeps DEF FailRun
  <2>2. Busy(t) /\ task[t].run \in Runs  BY <1>0, <1>8 DEF FailRun, Busy
  <2>3. CASE UNCHANGED row  BY <1>k, <2>1, <2>3
  <2>4. CASE finish(task[t].run, "failed")
    <3>1. \A q \in Runs : RowKeeps(q) \/ q = task[t].run  BY <2>2, <2>4, finishKeeps
    <3>2. \A u \in Tasks : Busy(u) /\ Busy(u)' => task[u].run # task[t].run
      BY <2>1, <2>2 DEF BusyAlone
    <3> QED BY <1>r, <2>1, <3>1, <3>2
  <2> QED BY <1>8, <2>3, <2>4 DEF FailRun
<1>9. CASE Drain(t)
  <2> DEFINE x == [[[task[t] EXCEPT !.pc = "hook"] EXCEPT !.to = "none"] EXCEPT !.tok = NoTask]
  <2>1. x.pc = "hook"  BY <1>0 DEF Task
  <2>2. task' = [task EXCEPT ![t] = x]  BY <1>0, <1>9 DEF Drain
  <2> HIDE DEF x
  <2>3. \A u \in Tasks : TaskKeeps(u)  BY <2>1, <2>2, MovedKeeps
  <2> QED BY <1>k, <1>9, <2>3 DEF Drain
<1>10. CASE Hook(t) \/ Kill(t)
  <2>1. UNCHANGED row /\ (Goto(t, "promote") \/ Ends(t))  BY <1>10 DEF Hook, Kill
  <2> QED BY <1>k, <2>1, GotoKeeps, EndsKeeps
<1>11. CASE Promote(t)
  <2>1. CASE Ends(t) /\ UNCHANGED row  BY <1>k, <2>1, EndsKeeps
  <2>2. ASSUME NEW r \in QueuedWorkers,
               SetRow(r, [row[r] EXCEPT !.status = "pending"]),
               task' = [task EXCEPT ![t].run = r, ![t].pc = "claim"]
        PROVE  BusyAlone'
    <3> DEFINE x == [[task[t] EXCEPT !.run = r] EXCEPT !.pc = "claim"]
    <3>1. x.pc = "claim"  BY <1>0 DEF Task
    <3>2. task' = [task EXCEPT ![t] = x]  BY <1>0, <2>2
    <3> HIDE DEF x
    <3>3. \A u \in Tasks : TaskKeeps(u)  BY <3>1, <3>2, MovedKeeps
    <3>4. r \in Runs /\ row[r].status = "queued"  BY DEF QueuedWorkers, Workers
    <3>5. \A q \in Runs : RowKeeps(q) \/ q = r  BY <2>2, <3>4, OthersKeep
    <3>6. \A u \in Tasks : Busy(u) => task[u].run # r  BY <3>4 DEF BusyAlone
    <3> QED BY <1>r, <3>3, <3>5, <3>6
  <2> QED BY <1>11, <2>1, <2>2 DEF Promote, Oldest
<1>12. CASE CancelHere(t)
  <2>1. CASE Ends(t) /\ UNCHANGED row  BY <1>k, <2>1, EndsKeeps
  <2>2. CASE /\ SetRow(task[t].run, [row[task[t].run] EXCEPT !.status = "cancelled"])
             /\ task' = [task EXCEPT ![t].pc = "hook", ![t].to = "none"]
    <3> DEFINE x == [[task[t] EXCEPT !.pc = "hook"] EXCEPT !.to = "none"]
    <3>1. x.pc = "hook"  BY <1>0 DEF Task
    <3>2. task' = [task EXCEPT ![t] = x]  BY <1>0, <2>2
    <3> HIDE DEF x
    <3>3. \A u \in Tasks : TaskKeeps(u)  BY <3>1, <3>2, MovedKeeps
    <3>4. task[t].run \in Runs  BY <1>0, <1>12 DEF CancelHere
    <3>5. row'[task[t].run].status = "cancelled"
      BY <2>2, <3>4, OneRowValue DEF Row
    <3>6. \A q \in Runs : RowKeeps(q)  BY <2>2, <3>4, <3>5, OthersKeep DEF RowKeeps
    <3> QED BY <3>3, <3>6, BusyKeeps, BusyRun
  <2> QED BY <1>12, <2>1, <2>2 DEF CancelHere
<1> QED BY <1>1, <1>2, <1>3, <1>4, <1>5, <1>6, <1>7, <1>8, <1>9, <1>10, <1>11, <1>12 DEF TaskStep

LEMMA BusyElse ==
    ASSUME TInv, InsertInv, BusyAlone, ~overtaken, ~overtaken', [Next]_vars,
           \A t \in Tasks : ~TaskStep(t)
    PROVE  BusyAlone'
<1> USE DEF BusyPCs, AtWork
<1>k. ASSUME \A u \in Tasks : TaskKeeps(u), UNCHANGED row PROVE BusyAlone'
  BY <1>k, BusyKeeps DEF RowKeeps
<1>r. ASSUME \A u \in Tasks : TaskKeeps(u), NEW r,
             \A q \in Runs : RowKeeps(q) \/ q = r,
             RowKeeps(r) \/ \A u \in Tasks : Busy(u) => task[u].run # r
      PROVE  BusyAlone'
  BY <1>r, BusyKeeps, BusyRun
<1>s. UNCHANGED task => \A u \in Tasks : TaskKeeps(u)
  BY DEF TaskKeeps, Busy
<1>n. ASSUME NEW r \in Runs, row[r].status \notin {"running", "paused", "completed", "cancelled"},
             NEW u \in Tasks, Busy(u)
      PROVE  task[u].run # r
  BY <1>n DEF BusyAlone
<1>1. ASSUME NEW t \in Tasks, SinkStep(t) PROVE BusyAlone'
  <2>1. UNCHANGED task  BY <1>1 DEF SinkStep, Heartbeat, PollCancel
  <2>2. CASE UNCHANGED row  BY <1>k, <1>s, <2>1, <2>2
  <2>3. CASE SetRow(task[t].run, [row[task[t].run] EXCEPT !.lease = "fresh"])
    <3>1. Sinking(t)  BY <1>1 DEF SinkStep, Heartbeat, PollCancel
    <3>2. task[t].run \in Runs  BY <3>1, TaskFields DEF TInv, Sinking
    <3>3. RowKeeps(task[t].run)  BY <2>3, <3>2, OneRowValue DEF Row, RowKeeps
    <3> QED BY <1>r, <1>s, <2>1, <2>3, <3>2, <3>3, OthersKeep
  <2> QED BY <1>1, <2>2, <2>3 DEF SinkStep, Heartbeat, PollCancel
<1>2. ASSUME NEW p \in Procs, UserTurn(p) PROVE BusyAlone'
  <2>1. PICK r \in Uncreated : SetRow(r, NewRow("chat", "pending")) /\ Spawn(p, r, "trigger", "none")
    BY <1>2 DEF UserTurn, Oldest
  <2>2. r \in Runs /\ row[r].status = "none"  BY DEF Uncreated
  <2>3. \A u \in Tasks : TaskKeeps(u)  BY <2>1, SpawnKeeps
  <2> QED BY <1>r, <1>n, <2>1, <2>2, <2>3, OthersKeep
<1>3. ASSUME NEW p \in Procs, DelegateRead(p) PROVE BusyAlone'
  BY <1>k, <1>3, SpawnKeeps DEF DelegateRead
<1>4. ASSUME NEW p \in Procs, NEW r \in Runs, Pause(p, r) PROVE BusyAlone'
  <2>1. \A u \in Tasks : TaskKeeps(u)  BY <1>4, SpawnKeeps DEF Pause
  <2>2. RowKeeps(r)
    <3>1. PICK b : row'[r] = [row[r] EXCEPT !.status = "paused", !.owner = Nobody,
                                           !.lease = "none", !.cancel = b]
      BY <1>4, OneRowValue DEF Pause
    <3>2. row'[r].status = "paused"  BY <3>1, RunFields DEF TInv, Row
    <3> QED BY <3>2 DEF RowKeeps
  <2> QED BY <1>r, <1>4, <2>1, <2>2, OthersKeep DEF Pause
<1>5. ASSUME NEW p \in Procs, NEW r \in Runs, Resume(p, r) PROVE BusyAlone'
  BY <1>5 DEF Resume
<1>6. ASSUME NEW p \in Procs, NEW r \in Runs, Retry(p, r) PROVE BusyAlone'
  <2>1. \A u \in Tasks : TaskKeeps(u)  BY <1>6, SpawnKeeps DEF Retry, Restart
  <2>2. row[r].status = "failed"  BY <1>6 DEF Retry
  <2> QED BY <1>r, <1>n, <1>6, <2>1, <2>2, OthersKeep DEF Retry, Restart
<1>7. ASSUME NEW p \in Procs, NEW r \in Runs, CancelRun(p, r) PROVE BusyAlone'
  <2>1. \A u \in Tasks : TaskKeeps(u)  BY <1>7, SpawnKeeps DEF CancelRun
  <2>2. RowKeeps(r)  BY <1>7, OneRowValue DEF CancelRun, Row, RowKeeps
  <2> QED BY <1>r, <1>7, <2>1, <2>2, OthersKeep DEF CancelRun
<1>8. ASSUME NEW p \in Procs, BootStart(p) \/ BootList(p) PROVE BusyAlone'
  BY <1>k, <1>s, <1>8 DEF BootStart, BootList
<1>9. ASSUME NEW p \in Procs, BootClaim(p) PROVE BusyAlone'
  <2>1. CASE UNCHANGED <<row, task>>  BY <1>k, <1>s, <2>1
  <2>2. ASSUME NEW r \in todo[p], try_claim(r, p), Spawn(p, r, "check", "none")
        PROVE  BusyAlone'
    <3>1. r \in Runs  BY <2>2 DEF TInv, MemT
    <3>2. PICK t \in Free :
            task' = [task EXCEPT ![t] = [proc |-> p, run |-> r, pc |-> "check", to |-> "none",
                                         tok |-> NoTask]]
      BY <2>2 DEF Spawn
    <3>3. t \in Tasks /\ ~Busy(t)  BY DEF Free, Busy
    <3>4. task'[t].run = r /\ task'[t].proc = p /\ task'[t].pc = "check"
          /\ \A u \in Tasks \ {t} : task'[u] = task[u]
      BY <3>2, <3>3 DEF TInv, TaskT
    <3> QED BY <2>2, <3>1, <3>3, <3>4, ClaimAlone
  <2> QED BY <1>9, <2>1, <2>2 DEF BootClaim, Oldest
<1>10. ASSUME NEW p \in Procs, NEW r \in Runs, BootRecover(p, r) \/ LeaseWatch(p, r)
       PROVE  BusyAlone'
  <2>1. recover_expired(r)  BY <1>10 DEF BootRecover, LeaseWatch
  <2>2. \A u \in Tasks : TaskKeeps(u)
    <3>1. UNCHANGED task \/ \E l \in {"hook", "claim"} : Spawn(p, r, l, "none")
      BY <1>10 DEF BootRecover, LeaseWatch
    <3> QED BY <1>s, <3>1, SpawnKeeps
  <2>3. \A u \in Tasks : Busy(u) => task[u].run # r
    BY <2>1 DEF BusyAlone, recover_expired
  <2> QED BY <1>r, <2>1, <2>2, <2>3, OthersKeep DEF recover_expired
<1>11. ASSUME NEW p \in Procs, Crash(p) PROVE BusyAlone'
  <2>1. \A u \in Tasks : TaskKeeps(u)
    BY <1>11 DEF Crash, TaskKeeps, Busy, Idle
  <2> QED BY <1>k, <1>11, <2>1 DEF Crash
<1>12. ASSUME NEW r \in Runs, Expire(r) PROVE BusyAlone'
  <2>1. \A u \in Tasks : Busy(u) => task[u].run # r
    <3> SUFFICES ASSUME NEW u \in Tasks, Busy(u), task[u].run = r PROVE FALSE
      OBVIOUS
    <3>1. ~Sinking(u)  BY <1>12 DEF Expire
    <3>2. task[u].pc \in {"check", "open"}  BY <3>1 DEF Sinking, Busy
    <3>3. task[u].proc = row[r].owner  BY <1>12, <3>2 DEF Expire, BusyAlone
    <3> QED BY <1>12, <3>2, <3>3 DEF Expire, Kept
  <2>2. UNCHANGED task /\ SetRow(r, [row[r] EXCEPT !.lease = "expired"])
    BY <1>12 DEF Expire
  <2> QED BY <1>r, <1>s, <2>1, <2>2, OthersKeep
<1>13. ASSUME NEW r \in Runs, Stall(r) PROVE BusyAlone'
  BY <1>13 DEF Stall
<1>14. CASE UNCHANGED vars
  BY <1>k, <1>s, <1>14 DEF vars
<1> QED
  BY <1>1, <1>2, <1>3, <1>4, <1>5, <1>6, <1>7, <1>8, <1>9, <1>10, <1>11, <1>12, <1>13, <1>14
  DEF Next, UserStep, BootStep

LEMMA BusyStep == RInv /\ BusyInv /\ [Next]_vars => BusyInv'
<1> SUFFICES ASSUME RInv, BusyInv, [Next]_vars, ~overtaken' PROVE BusyAlone'
  BY DEF BusyInv
<1>1. TInv /\ InsertInv  BY DEF RInv
<1>2. ~overtaken /\ BusyAlone  BY <1>1, OvertakenStays DEF BusyInv
<1> QED BY <1>1, <1>2, BusyTask, BusyElse

\* SoleExecutor holds for all constants: however many processes boot, watch leases and
\* start runs late, and wherever they crash, try_claim_as and recover_expired let only
\* one task execute a run, until a lease lapses under an executor or a user resumes it.
THEOREM SoleExecutorHolds == Spec => []SoleExecutor
<1>1. Init => BusyInv
  BY DEF Init, BusyInv, BusyAlone, Busy, BusyPCs, AtWork, Idle
<1>2. Spec => [](RInv /\ BusyInv)
  BY <1>1, RInit, RStep, BusyStep, PTL DEF Spec
<1>3. RInv /\ BusyInv => SoleExecutor
  <2> SUFFICES ASSUME BusyInv, NEW r \in Runs, ~overtaken
               PROVE  Cardinality(Executors(r)) <= 1
    BY DEF SoleExecutor
  <2>1. \A t, u \in Executors(r) : t = u
    BY DEF Executors, BusyInv, BusyAlone, Busy, BusyPCs, AtWork, Sinking
  <2>2. CASE Executors(r) = {}
    BY <2>2, FS_EmptySet
  <2>3. ASSUME NEW t \in Executors(r) PROVE Cardinality(Executors(r)) <= 1
    <3>1. Executors(r) = {t}  BY <2>1, <2>3
    <3>2. Cardinality({t}) = 1  BY FS_Singleton
    <3> QED BY <3>1, <3>2
  <2> QED BY <2>2, <2>3
<1> QED BY <1>2, <1>3, PTL

-----------------------------------------------------------------------------
(* AgentRuns implements RunLife.                                           *)

\* A move of a row is a step of the run's abstract machine; a claim is within the
\* budget because a pending row has attempts left.
LEMMA MoveIsLife ==
    ASSUME RInv, NEW r \in Runs, RowMove(r)
    PROVE  Life!Step(r)
<1>1. row[r].attempts \in Nat  BY RunFields DEF RInv, TInv
<1>2. CASE Stays(r)
  BY <1>2 DEF Stays, Life!Step, Life!Idle, Life!Becomes
<1>3. CASE Opened(r)
  BY <1>3 DEF Opened, Life!Step, Life!Create, Life!Becomes
<1>4. CASE Claimed(r)
  <2>1. row[r].attempts < MAX_ATTEMPTS + resumes[r]
    BY <1>4 DEF Claimed, RInv, AttemptsInv
  <2> QED BY <1>4, <2>1 DEF Claimed, Life!Step, Life!Start, Life!Budget, Life!Becomes
<1>5. CASE Requeued(r)
  BY <1>5 DEF Requeued, Life!Step, Life!Requeue, Life!Becomes
<1>6. CASE Settles(r)
  BY <1>6 DEF Settles, OPEN_STATUSES, Terminal, Life!Step, Life!Settle, Life!Open,
              Life!Settled, Life!Becomes
<1>7. CASE Resumed(r)
  BY <1>7 DEF Resumed, Life!Step, Life!Resume, Life!Becomes
<1>8. CASE Retried(r)
  BY <1>8 DEF Retried, Life!Step, Life!Retry, Life!Becomes
<1> QED BY <1>2, <1>3, <1>4, <1>5, <1>6, <1>7, <1>8 DEF RowMove

\* ImplementsRunLife holds for all constants: whatever processes, leases, tasks and
\* crashes do, every run lives the life RunLife describes.
THEOREM RefinesRunLife == Spec => ImplementsRunLife
<1>1. Spec => []RInv
  BY RInit, RStep, PTL DEF Spec
<1>2. Init => Life!Init
  BY DEF Init, NewRow, Life!Init
<1>3. ASSUME RInv, [Next]_vars
      PROVE  [Life!Next]_(Life!vars)
  BY <1>3, RowStep, MoveIsLife DEF RInv, Life!Next
<1> QED BY <1>1, <1>2, <1>3, PTL DEF Spec, ImplementsRunLife, Life!Spec
=============================================================================
