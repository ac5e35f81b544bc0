--------------------------- MODULE PageWatchProofs ---------------------------
(***************************************************************************)
(* Proofs about PageWatch: types, the mute overtaken check, the pause by   *)
(* failures and the alerts, for any number of processes, checks, pages and *)
(* contents.                                                               *)
(***************************************************************************)
EXTENDS PageWatch, TLAPS

\* A task with a result has read the page, and an edit has a new condition.
GoodTask == {k \in Task : /\ k.pc = "apply" => k.seen # None
                          /\ k.pc = "edit" => k.new \in Specs}
RowT  == row \in Row
TaskT == task \in [Tasks -> GoodTask]
WorldT ==
    /\ page \in [Urls -> Contents] /\ up \in [Procs -> BOOLEAN]
    /\ changes \in 0..MaxChanges /\ events \in 0..MaxEvents
HistT ==
    /\ superseded \subseteq Tasks /\ fails \in 0..MAX_FAILURES
    /\ told \in Contents \cup {None} /\ hashSpec \subseteq Specs
AlertT == \A a \in alerts : /\ a.kind \in {"watch_alert", "watch_paused"}
                            /\ a.seq \in Nat /\ a.state \in Contents \cup {None}
TInv == RowT /\ TaskT /\ WorldT /\ HistT /\ AlertT

-----------------------------------------------------------------------------
(* The types.                                                              *)

LEMMA Constants ==
    /\ MaxContent \in Nat \ {0} /\ MAX_FAILURES \in Nat \ {0}
    /\ MaxChanges \in Nat /\ MaxEvents \in Nat
    /\ NoToken \notin Tasks /\ Nobody \notin Procs
    /\ \A c \in Contents : c # None /\ c # Error
    /\ None # Error
  BY ConstantsAssumption DEF Contents, None, Error

LEMMA NoRowType == NoRow \in Row /\ [NoRow EXCEPT !.status = "deleted"] \in Row
<1>1. \E u \in Urls, k \in Kinds : [url |-> u, kind |-> k] \in Specs
  BY ConstantsAssumption DEF Specs
<1>2. (CHOOSE s \in Specs : TRUE) \in Specs  BY <1>1
<1> QED BY <1>2 DEF NoRow, Row

LEMMA IdleType ==
    /\ Idle \in GoodTask
    /\ \A p \in Procs : [Idle EXCEPT !.proc = p, !.pc = "claim"] \in GoodTask
  BY DEF Idle, GoodTask, Task, PCs

LEMMA CopyType ==
    ASSUME NEW r \in Row
    PROVE  CopyOf(r) \in Copy
  BY DEF Row, CopyOf, Copy

LEMMA HappensType ==
    ASSUME WorldT, Happens
    PROVE  events' \in 0..MaxEvents
<1>1. MaxEvents \in Nat  BY Constants
<1> QED BY <1>1 DEF WorldT, Happens

LEMMA SpawnType ==
    ASSUME TaskT, NEW p \in Procs, Spawn(p, "claim")
    PROVE  TaskT'
  BY IdleType DEF Spawn, TaskT

LEMMA EndsType ==
    ASSUME TaskT, NEW t \in Tasks, Ends(t)
    PROVE  TaskT'
  BY IdleType DEF Ends, TaskT

LEMMA LeaseType ==
    ASSUME RowT, TaskT, HistT, NEW t \in Tasks, NEW p \in Procs \cup {Nobody}, NEW tick \in BOOLEAN,
           Lease(t, p, tick)
    PROVE  RowT' /\ TaskT' /\ superseded' \subseteq Tasks
<1> DEFINE new == [row EXCEPT !.token = t, !.lapsed = FALSE]
<1>1. new \in Row  BY DEF RowT, Row
<1>2. row' = new  BY DEF Lease, lease_token
<1>3. CopyOf(new) \in Copy  BY <1>1, CopyType
<1>4. task' = [task EXCEPT ![t] = [Idle EXCEPT !.proc = p, !.pc = "observe",
                                               !.tick = tick, !.w = {CopyOf(new)}]]
  BY DEF Lease, lease_token
<1> HIDE DEF new
<1>5. [Idle EXCEPT !.proc = p, !.pc = "observe", !.tick = tick, !.w = {CopyOf(new)}] \in GoodTask
  BY <1>3 DEF Idle, GoodTask, Task, PCs
<1>6. TaskT'  BY <1>4, <1>5 DEF TaskT
<1>7. superseded' \subseteq Tasks  BY DEF Lease, HistT, RowT, Row
<1> QED BY <1>1, <1>2, <1>6, <1>7 DEF RowT

LEMMA decideType ==
    ASSUME NEW w \in Copy, NEW c \in Contents \cup {None, Error}
    PROVE  /\ decide(w, c).streak \in Nat
           /\ decide(w, c).pause \in BOOLEAN
           /\ decide(w, c).alert \in BOOLEAN
           /\ decide(w, c).alertHash \in Contents \cup {None}
<1>1. w.streak \in Nat /\ w.alertHash \in Contents \cup {None}  BY DEF Copy
<1>2. MAX_FAILURES \in Nat  BY Constants
<1>3. CASE c = Error
  <2>1. decide(w, c) = [streak |-> w.streak + 1, pause |-> w.streak + 1 >= MAX_FAILURES,
                        alert |-> w.streak + 1 >= MAX_FAILURES, alertHash |-> w.alertHash]
    BY <1>3 DEF decide
  <2>2. (w.streak + 1 >= MAX_FAILURES) \in BOOLEAN /\ w.streak + 1 \in Nat  BY <1>1, <1>2
  <2> QED BY <1>1, <1>3, <2>1, <2>2
<1>4. CASE c # Error
  <2> DEFINE a == Met(w, c) /\ w.alertHash # c
             h == IF Met(w, c) THEN c ELSE IF w.spec.kind = "change" THEN w.alertHash ELSE None
  <2>1. decide(w, c) = [streak |-> 0, pause |-> FALSE, alert |-> a, alertHash |-> h]
    BY <1>4 DEF decide
  <2>2. a \in BOOLEAN /\ h \in Contents \cup {None}  BY <1>1, <1>4
  <2> HIDE DEF a, h
  <2> QED BY <1>4, <2>1, <2>2
<1> QED BY <1>3, <1>4

LEMMA RecordType ==
    ASSUME TInv, NEW t \in Tasks, NEW w \in Copy, NEW c \in Contents \cup {Error},
           Record(t, w, c, decide(w, c))
    PROVE  RowT' /\ AlertT' /\ fails' \in 0..MAX_FAILURES /\ told' \in Contents \cup {None}
           /\ hashSpec' \subseteq Specs
<1> DEFINE d == decide(w, c)
           seq == w.seq + (IF d.alert THEN 1 ELSE 0)
           state == IF c = Error THEN None ELSE c
<1>1. /\ d.streak \in Nat /\ d.pause \in BOOLEAN /\ d.alert \in BOOLEAN
      /\ d.alertHash \in Contents \cup {None}
  BY decideType
<1>2. w.seq \in Nat /\ w.spec \in Specs  BY DEF Copy
<1>3. seq \in Nat /\ state \in Contents \cup {None}  BY <1>1, <1>2
<1>4. RowT'
  <2> DEFINE st == IF d.pause THEN "paused" ELSE row.status
             re == IF d.pause THEN "failures" ELSE row.reason
             ha == IF c = Error THEN row.hash ELSE c
  <2>1. row' = [row EXCEPT
                     !.token = NoToken, !.lapsed = FALSE, !.due = FALSE, !.streak = d.streak,
                     !.status = st, !.reason = re, !.hash = ha,
                     !.alertHash = d.alertHash, !.seq = seq]
    BY DEF Record, TInv, RowT, Row
  <2>2. /\ st \in {"none", "active", "paused", "deleted"} /\ re \in {"none", "user", "failures"}
        /\ ha \in Contents \cup {None}
    BY DEF TInv, RowT, Row
  <2> HIDE DEF d, seq, st, re, ha
  <2> QED BY <1>1, <1>3, <2>1, <2>2 DEF TInv, RowT, Row
<1>5. AlertT'
  <2>1. alerts' = IF d.alert
                  THEN alerts \cup {[kind |-> IF d.pause THEN "watch_paused" ELSE "watch_alert",
                                     seq |-> seq, state |-> state]}
                  ELSE alerts
    BY DEF Record
  <2> HIDE DEF d, seq, state
  <2> QED BY <1>3, <2>1 DEF TInv, AlertT
<1>6. MAX_FAILURES \in Nat  BY Constants
<1>7. fails' \in 0..MAX_FAILURES  BY <1>6 DEF Record, TInv, HistT
<1>8. told' \in Contents \cup {None}
  <2>1. told' \in {told, c, None} /\ (told' = c => c # Error \/ told' = told)  BY DEF Record
  <2> QED BY <2>1 DEF TInv, HistT
<1>9. hashSpec' \subseteq Specs  BY <1>2 DEF Record, TInv, HistT
<1> QED BY <1>4, <1>5, <1>7, <1>8, <1>9

LEMMA InitType == Init => TInv
<1> SUFFICES ASSUME Init PROVE TInv  OBVIOUS
<1>1. RowT /\ TaskT  BY NoRowType, IdleType DEF Init, RowT, TaskT
<1>2. 0 \in Contents /\ MaxChanges \in Nat /\ MaxEvents \in Nat /\ MAX_FAILURES \in Nat
  BY Constants DEF Contents
<1>3. WorldT /\ HistT /\ AlertT  BY <1>2 DEF Init, WorldT, HistT, AlertT
<1> QED BY <1>1, <1>3 DEF TInv

LEMMA TaskTypes ==
    ASSUME TInv, NEW t \in Tasks, TaskStep(t)
    PROVE  TInv'
<1> USE DEF TInv
<1>0. task[t] \in GoodTask  BY DEF TaskT
<1>1. CASE Claim(t)
  <2>1. task[t].proc \in Procs \cup {Nobody}  BY <1>0 DEF GoodTask, Task
  <2>2. RowT' /\ TaskT' /\ superseded' \subseteq Tasks
    BY <1>1, <2>1, LeaseType, EndsType DEF Claim, RowT, HistT
  <2> QED BY <1>1, <2>2 DEF Claim, WorldT, HistT, AlertT, counters
<1>2. CASE Observe(t)
  <2>1. PICK w \in task[t].w, c \in Contents \cup {Error} :
          task' = [task EXCEPT ![t].pc = "apply", ![t].seen = c]
    BY <1>2 DEF Observe
  <2>2. c # None  BY Constants
  <2>3. [task[t] EXCEPT !.pc = "apply", !.seen = c] \in GoodTask
    BY <1>0, <2>2 DEF GoodTask, Task, PCs
  <2>4. TaskT'  BY <2>1, <2>3 DEF TaskT
  <2> QED BY <1>2, <2>4 DEF Observe, RowT, WorldT, HistT, AlertT, counters, history
<1>3. CASE apply_check(t)
  <2>1. TaskT'  BY <1>3, EndsType DEF apply_check
  <2>2. superseded' \subseteq Tasks  BY <1>3 DEF apply_check, HistT
  <2>3. CASE \E w \in task[t].w : Record(t, w, task[t].seen, decide(w, task[t].seen))
    <3>1. task[t].w \subseteq Copy /\ task[t].seen \in Contents \cup {Error}
      BY <1>0, <1>3 DEF apply_check, GoodTask, Task
    <3>2. RowT' /\ AlertT' /\ fails' \in 0..MAX_FAILURES /\ told' \in Contents \cup {None}
          /\ hashSpec' \subseteq Specs
      BY <2>3, <3>1, RecordType
    <3>3. events' \in 0..MaxEvents  BY <1>3, HappensType DEF apply_check, WorldT
    <3> QED BY <1>3, <2>1, <2>2, <3>2, <3>3 DEF apply_check, WorldT, HistT
  <2>4. CASE UNCHANGED <<row, alerts, fails, told, hashSpec>>
    <3>1. events' \in 0..MaxEvents  BY <1>3, HappensType DEF apply_check, WorldT
    <3> QED BY <1>3, <2>1, <2>2, <2>4, <3>1 DEF apply_check, RowT, WorldT, HistT, AlertT
  <2> QED BY <1>3, <2>3, <2>4 DEF apply_check
<1>4. CASE apply_update(t)
  <2>1. PICK w \in task[t].w :
         LET reset == task[t].new # w.spec
             new   == [row EXCEPT
                         !.spec = task[t].new,
                         !.hash = IF reset THEN None ELSE @,
                         !.alertHash = IF reset THEN None ELSE @,
                         !.streak = IF reset THEN 0 ELSE @,
                         !.due = reset \/ @]
         IN  /\ row' = IF row.status = "deleted" THEN row ELSE new
             /\ told' = IF reset THEN None ELSE told
    BY <1>4 DEF apply_update
  <2>2. task[t].new \in Specs  BY <1>0, <1>4 DEF apply_update, GoodTask
  <2>3. RowT'  BY <2>1, <2>2 DEF RowT, Row
  <2>4. told' \in Contents \cup {None}  BY <2>1 DEF HistT
  <2>5. \/ task' = [task EXCEPT ![t] = [Idle EXCEPT !.proc = task[t].proc, !.pc = "claim"]]
        \/ task' = [task EXCEPT ![t] = Idle]
    BY <1>4 DEF apply_update
  <2>6. [Idle EXCEPT !.proc = task[t].proc, !.pc = "claim"] \in GoodTask
    BY <1>0 DEF Idle, GoodTask, Task, PCs
  <2>7. TaskT'  BY <2>5, <2>6, IdleType DEF TaskT
  <2> QED BY <1>4, <2>3, <2>4, <2>7 DEF apply_update, WorldT, HistT, AlertT, counters
<1> QED BY <1>1, <1>2, <1>3, <1>4 DEF TaskStep

LEMMA UserTypes ==
    ASSUME TInv, NEW p \in Procs, UserStep(p)
    PROVE  TInv'
<1> USE DEF TInv
<1>1. CASE Create(p)
  <2>1. RowT'  BY <1>1 DEF Create, RowT, Row
  <2>2. TaskT'  BY <1>1, SpawnType DEF Create
  <2> QED BY <1>1, <2>1, <2>2 DEF Create, WorldT, HistT, AlertT, counters, history
<1>2. CASE pause(p) \/ delete(p)
  <2>1. RowT'  BY <1>2, NoRowType DEF pause, delete, RowT, Row
  <2>2. superseded' \subseteq Tasks  BY <1>2 DEF pause, delete, Supersede, RowT, Row, HistT
  <2>3. events' \in 0..MaxEvents  BY <1>2, HappensType DEF pause, delete
  <2> QED BY <1>2, <2>1, <2>2, <2>3 DEF pause, delete, TaskT, WorldT, HistT, AlertT
<1>3. CASE resume(p)
  <2>1. RowT'  BY <1>3 DEF resume, RowT, Row
  <2>2. TaskT'  BY <1>3, SpawnType DEF resume
  <2>3. events' \in 0..MaxEvents  BY <1>3, HappensType DEF resume
  <2>4. 0 \in 0..MAX_FAILURES  BY Constants
  <2> QED BY <1>3, <2>1, <2>2, <2>3, <2>4 DEF resume, WorldT, HistT, AlertT
<1>4. CASE run_now(p)
  <2>1. TaskT'  BY <1>4, SpawnType DEF run_now
  <2>2. events' \in 0..MaxEvents  BY <1>4, HappensType DEF run_now
  <2> QED BY <1>4, <2>1, <2>2 DEF run_now, RowT, WorldT, HistT, AlertT, history
<1>5. CASE EditRead(p)
  <2> DEFINE copy == CopyOf([NoRow EXCEPT !.spec = row.spec])
  <2>1. [NoRow EXCEPT !.spec = row.spec] \in Row  BY NoRowType DEF RowT, Row
  <2>2. copy \in Copy  BY <2>1, CopyType
  <2>3. PICK t \in Free, s \in Specs :
          task' = [task EXCEPT ![t] = [Idle EXCEPT !.proc = p, !.pc = "edit", !.new = s,
                                                   !.w = {copy}]]
    BY <1>5 DEF EditRead
  <2> HIDE DEF copy
  <2>4. [Idle EXCEPT !.proc = p, !.pc = "edit", !.new = s, !.w = {copy}] \in GoodTask
    BY <2>2 DEF Idle, GoodTask, Task, PCs
  <2>5. TaskT'  BY <2>3, <2>4 DEF TaskT
  <2>6. events' \in 0..MaxEvents  BY <1>5, HappensType DEF EditRead
  <2> QED BY <1>5, <2>5, <2>6 DEF EditRead, RowT, WorldT, HistT, AlertT, history
<1> QED BY <1>1, <1>2, <1>3, <1>4, <1>5 DEF UserStep

LEMMA WorldTypes ==
    ASSUME TInv,
           \/ \E p \in Procs : Tick(p) \/ Crash(p) \/ Boot(p)
           \/ BecomesDue \/ Lapse \/ PageChanges
    PROVE  TInv'
<1> USE DEF TInv
<1>1. ASSUME NEW p \in Procs, Tick(p) PROVE TInv'
  <2>1. PICK t \in Free : Lease(t, p, TRUE)  BY <1>1 DEF Tick
  <2>2. RowT' /\ TaskT' /\ superseded' \subseteq Tasks  BY <2>1, LeaseType DEF Free
  <2> QED BY <1>1, <2>2 DEF Tick, WorldT, HistT, AlertT, counters
<1>2. ASSUME NEW p \in Procs, Crash(p) PROVE TInv'
  <2>1. TaskT'  BY <1>2, IdleType DEF Crash, TaskT
  <2>2. events' \in 0..MaxEvents  BY <1>2, HappensType DEF Crash
  <2> QED BY <1>2, <2>1, <2>2 DEF Crash, RowT, WorldT, HistT, AlertT
<1>3. ASSUME NEW p \in Procs, Boot(p) PROVE TInv'
  BY <1>3 DEF Boot, RowT, TaskT, WorldT, HistT, AlertT, counters, history
<1>4. CASE BecomesDue
  BY <1>4 DEF BecomesDue, RowT, Row, TaskT, WorldT, HistT, AlertT, counters, history
<1>5. CASE Lapse
  <2>1. events' \in 0..MaxEvents  BY <1>5, HappensType DEF Lapse, WorldT
  <2> QED BY <1>5, <2>1 DEF Lapse, RowT, Row, TaskT, WorldT, HistT, AlertT, history
<1>6. CASE PageChanges
  <2>1. changes' \in 0..MaxChanges  BY <1>6, Constants DEF PageChanges, WorldT
  <2>2. page' \in [Urls -> Contents]  BY <1>6 DEF PageChanges, WorldT
  <2> QED BY <1>6, <2>1, <2>2 DEF PageChanges, RowT, TaskT, WorldT, HistT, AlertT, history
<1> QED BY <1>1, <1>2, <1>3, <1>4, <1>5, <1>6

LEMMA TypesHold == Spec => []TInv
<1>1. TInv /\ [Next]_vars => TInv'
  <2> SUFFICES ASSUME TInv, [Next]_vars PROVE TInv'  OBVIOUS
  <2>1. CASE UNCHANGED vars
    BY <2>1 DEF vars, counters, history, TInv, RowT, TaskT, WorldT, HistT, AlertT
  <2>2. CASE Next  BY <2>2, TaskTypes, UserTypes, WorldTypes DEF Next
  <2> QED BY <2>1, <2>2
<1> QED BY <1>1, InitType, PTL DEF Spec

\* Every variable stays within its type: the row never takes a status, a token or
\* a state that the statements of page_watch.rs do not know.
THEOREM TypeCorrect == Spec => []TypeOK
<1>1. TInv => TypeOK
  BY DEF TInv, RowT, TaskT, WorldT, HistT, AlertT, TypeOK, GoodTask
<1> QED BY <1>1, TypesHold, PTL

-----------------------------------------------------------------------------
(* Leases, failures and alerts.                                            *)

Checking(t) == task[t].pc \in {"observe", "apply"}

\* A check works on the row it was given under its own token, and a check the row
\* no longer knows has lost it.
LeaseInv ==
    /\ \A t \in Tasks : Checking(t) => \A w \in task[t].w : w.token = t
    /\ \A t \in superseded : row.token # t

\* The streak of failures and the state last signalled, in the row and in the copy of
\* the check that holds it, are those of the history; an edit may only have dropped
\* the latter.
Fits(x) == x.streak <= fails /\ x.streak < MAX_FAILURES /\ told \in {None, x.alertHash}
CountInv ==
    /\ \A t \in Tasks : row.token = t /\ Checking(t) => \A w \in task[t].w : Fits(w)
    /\ row.reason = "failures" => row.status = "paused" /\ fails = MAX_FAILURES
    /\ row.reason # "failures" => row.streak <= fails /\ row.streak < MAX_FAILURES
    /\ row.status # "deleted" => told \in {None, row.alertHash}
PInv == LeaseInv /\ CountInv

LEMMA PInvInit == Init => PInv
<1>1. MAX_FAILURES \in Nat \ {0} /\ NoToken \notin Tasks  BY Constants
<1> QED BY <1>1 DEF Init, PInv, LeaseInv, CountInv, Checking, Idle, NoRow

\* No check begins, and those under way keep their copy.
NoneBegins ==
    \A t \in Tasks : Checking(t)' => Checking(t) /\ task'[t].w = task[t].w

LEMMA ClaimsBegins ==
    ASSUME TInv, NEW t \in Tasks, NEW p,
           task' = [task EXCEPT ![t] = [Idle EXCEPT !.proc = p, !.pc = "claim"]]
    PROVE  NoneBegins
  BY DEF Idle, NoneBegins, Checking, TInv, TaskT

LEMMA SpawnBegins ==
    ASSUME TInv, NEW p, Spawn(p, "claim")
    PROVE  NoneBegins
  BY DEF Spawn, Idle, NoneBegins, Checking, TInv, TaskT

LEMMA EndsBegins ==
    ASSUME TInv, NEW t \in Tasks, Ends(t)
    PROVE  NoneBegins
  BY DEF Ends, Idle, NoneBegins, Checking, TInv, TaskT

\* A step that leaves lease, counts and signals alone.
LEMMA PInvQuiet ==
    ASSUME PInv, NoneBegins, UNCHANGED <<fails, told>>, superseded' \subseteq superseded,
           row'.token = row.token, row'.reason = row.reason, row'.status = row.status,
           row'.streak = row.streak, row'.alertHash = row.alertHash
    PROVE  PInv'
  BY DEF PInv, LeaseInv, CountInv, NoneBegins, Checking, Fits

LEMMA PInvLease ==
    ASSUME TInv, PInv, NEW t \in Tasks, NEW p \in Procs \cup {Nobody}, NEW tick \in BOOLEAN,
           ~Checking(t), row.status = "active", Lease(t, p, tick), UNCHANGED <<fails, told>>
    PROVE  PInv'
<1> DEFINE new == [row EXCEPT !.token = t, !.lapsed = FALSE]
<1>1. /\ new.token = t /\ new.status = row.status /\ new.reason = row.reason
      /\ new.streak = row.streak /\ new.alertHash = row.alertHash
  BY DEF TInv, RowT, Row
<1>2. /\ CopyOf(new).token = t /\ CopyOf(new).streak = row.streak
      /\ CopyOf(new).alertHash = row.alertHash
  BY <1>1 DEF CopyOf
<1>3. row' = new /\ superseded' = (superseded \cup ({row.token} \ {NoToken})) \ {t}
  BY DEF Lease, lease_token
<1>4. task' = [task EXCEPT ![t] = [Idle EXCEPT !.proc = p, !.pc = "observe",
                                               !.tick = tick, !.w = {CopyOf(new)}]]
  BY DEF Lease, lease_token
<1> HIDE DEF new
<1>5. task'[t].w = {CopyOf(new)} /\ \A u \in Tasks \ {t} : task'[u] = task[u]
  BY <1>4 DEF TInv, TaskT, Idle
<1>6. row.reason # "failures" /\ row.streak <= fails /\ row.streak < MAX_FAILURES
      /\ told \in {None, row.alertHash}
  BY DEF PInv, CountInv
<1>7. LeaseInv'
  <2>1. \A u \in Tasks : Checking(u)' => \A w \in task'[u].w : w.token = u
    BY <1>2, <1>5 DEF PInv, LeaseInv, Checking
  <2>2. \A u \in superseded' : row'.token # u  BY <1>1, <1>3
  <2> QED BY <2>1, <2>2 DEF LeaseInv
<1>8. CountInv'
  <2>1. \A u \in Tasks : row'.token = u => u = t  BY <1>1, <1>3
  <2>2. \A w \in task'[t].w : Fits(w)'  BY <1>2, <1>5, <1>6 DEF Fits
  <2>3. row'.reason # "failures" /\ row'.streak <= fails' /\ row'.streak < MAX_FAILURES
        /\ told' \in {None, row'.alertHash}
    BY <1>1, <1>3, <1>6
  <2> QED BY <2>1, <2>2, <2>3 DEF CountInv
<1> QED BY <1>7, <1>8 DEF PInv

\* What the transaction of a check that still holds its lease keeps and signals.
LEMMA RecordStep ==
    ASSUME TInv, PInv, NEW t \in Tasks, task[t].pc = "apply", NEW w \in task[t].w,
           row.token = w.token, row.status = "active",
           Record(t, w, task[t].seen, decide(w, task[t].seen))
    PROVE  /\ row'.token = NoToken
           /\ row'.reason = "failures" => row'.status = "paused" /\ fails' = MAX_FAILURES
           /\ row'.reason # "failures" => row'.streak <= fails' /\ row'.streak < MAX_FAILURES
           /\ told' \in {None, row'.alertHash}
           /\ \A a \in alerts' \ alerts : a.kind = "watch_alert" => a.state # told
<1> DEFINE c == task[t].seen
           d == decide(w, c)
           st == IF d.pause THEN "paused" ELSE row.status
           re == IF d.pause THEN "failures" ELSE row.reason
           ha == IF c = Error THEN row.hash ELSE c
           seq == w.seq + (IF d.alert THEN 1 ELSE 0)
<1>1. w \in Copy /\ w.streak \in Nat /\ c \in Contents \cup {Error} /\ row \in Row
  BY DEF TInv, TaskT, RowT, GoodTask, Task, Copy
<1>2. /\ w.streak <= fails /\ w.streak < MAX_FAILURES /\ told \in {None, w.alertHash}
      /\ row.reason # "failures"
  BY DEF PInv, LeaseInv, CountInv, Checking, Fits
<1>3. row' = [row EXCEPT
                   !.token = NoToken, !.lapsed = FALSE, !.due = FALSE, !.streak = d.streak,
                   !.status = st, !.reason = re, !.hash = ha,
                   !.alertHash = d.alertHash, !.seq = seq]
  BY <1>1 DEF Record, Row
<1> HIDE DEF ha, seq, d
<1>4. /\ row'.token = NoToken /\ row'.streak = d.streak /\ row'.status = st
      /\ row'.reason = re /\ row'.alertHash = d.alertHash
  BY <1>1, <1>3 DEF Row
<1>5. fails \in 0..MAX_FAILURES /\ MAX_FAILURES \in Nat \ {0} /\ None # Error
      /\ (c # Error => c # None)
  BY <1>1, Constants DEF TInv, HistT
<1>6. CASE c = Error
  <2>1. d = [streak |-> w.streak + 1, pause |-> w.streak + 1 >= MAX_FAILURES,
             alert |-> w.streak + 1 >= MAX_FAILURES, alertHash |-> w.alertHash]
    BY <1>6 DEF decide, d
  <2>2. fails' = (IF fails < MAX_FAILURES THEN fails + 1 ELSE fails) /\ told' = told
    BY <1>6 DEF Record
  <2>3. d.alert <=> d.pause  BY <2>1
  <2>4. \A a \in alerts' \ alerts : a.kind = "watch_paused"
    <3>1. \A a \in alerts' \ alerts : d.alert /\ a.kind = IF d.pause THEN "watch_paused"
                                                                   ELSE "watch_alert"
      BY DEF Record, d
    <3> QED BY <2>3, <3>1
  <2>5. CASE w.streak + 1 >= MAX_FAILURES
    <3>1. re = "failures" /\ st = "paused" /\ d.alertHash = w.alertHash  BY <2>1, <2>5
    <3>2. fails' = MAX_FAILURES  BY <1>1, <1>2, <1>5, <2>2, <2>5
    <3> QED BY <1>2, <1>4, <2>2, <2>4, <3>1, <3>2
  <2>6. CASE ~(w.streak + 1 >= MAX_FAILURES)
    <3>1. re = row.reason /\ d.streak = w.streak + 1 /\ d.alertHash = w.alertHash
      BY <2>1, <2>6
    <3>2. d.streak <= fails' /\ d.streak < MAX_FAILURES
      BY <1>1, <1>2, <1>5, <2>2, <2>6, <3>1
    <3> QED BY <1>2, <1>4, <2>2, <2>4, <3>1, <3>2
  <2> QED BY <2>5, <2>6
<1>7. CASE c # Error
  <2> DEFINE h == IF Met(w, c) THEN c ELSE IF w.spec.kind = "change" THEN w.alertHash ELSE None
  <2>1. d = [streak |-> 0, pause |-> FALSE, alert |-> Met(w, c) /\ w.alertHash # c,
             alertHash |-> h]
    BY <1>7 DEF decide, d
  <2>2. fails' = 0 /\ told' = (IF d.alert THEN c
                               ELSE IF w.spec.kind = "condition" /\ ~Met(w, c) THEN None
                               ELSE told)
    BY <1>7 DEF Record, d
  <2>3. /\ d.streak = 0 /\ ~d.pause /\ d.alertHash = h
        /\ d.alert <=> Met(w, c) /\ w.alertHash # c
    BY <2>1
  <2>4. \A a \in alerts' \ alerts : d.alert /\ a.state = c
    BY <1>7 DEF Record, d
  <2>5. re = row.reason  BY <2>3
  <2>6. told' \in {None, h}
    <3>1. w.spec.kind \in {"change", "condition"}
      BY <1>1, ConstantsAssumption DEF Copy, Specs
    <3> QED BY <1>2, <2>2, <2>3, <3>1
  <2>7. d.alert => c # told  BY <1>2, <1>5, <1>7, <2>3
  <2> QED BY <1>2, <1>4, <1>5, <2>2, <2>3, <2>4, <2>5, <2>6, <2>7
<1> QED BY <1>6, <1>7

LEMMA PInvTasks ==
    ASSUME TInv, PInv, NEW t \in Tasks, TaskStep(t)
    PROVE  PInv'
<1>0. task \in [Tasks -> GoodTask] /\ row \in Row  BY DEF TInv, TaskT, RowT
<1>1. CASE Claim(t)
  <2>1. CASE Leasable /\ Lease(t, task[t].proc, FALSE)
    <3>1. task[t].proc \in Procs \cup {Nobody}  BY <1>0 DEF GoodTask, Task
    <3>2. UNCHANGED <<fails, told>> /\ ~Checking(t) /\ row.status = "active"
      BY <1>1, <2>1 DEF Claim, Checking, Leasable
    <3> QED BY <2>1, <3>1, <3>2, PInvLease
  <2>2. CASE Ends(t) /\ UNCHANGED <<row, superseded>>
    BY <1>1, <2>2, EndsBegins, PInvQuiet DEF Claim
  <2> QED BY <1>1, <2>1, <2>2 DEF Claim
<1>2. CASE Observe(t)
  <2>1. PICK w \in task[t].w, c \in Contents \cup {Error} :
          task' = [task EXCEPT ![t].pc = "apply", ![t].seen = c]
    BY <1>2 DEF Observe
  <2>2. NoneBegins
    <3>1. task'[t].w = task[t].w  BY <1>0, <2>1 DEF GoodTask, Task
    <3>2. Checking(t) /\ \A u \in Tasks \ {t} : task'[u] = task[u]
      BY <1>0, <1>2, <2>1 DEF Observe, Checking
    <3> QED BY <3>1, <3>2 DEF NoneBegins, Checking
  <2> QED BY <1>2, <2>2, PInvQuiet DEF Observe, history
<1>3. CASE apply_check(t)
  <2>1. NoneBegins /\ superseded' \subseteq superseded
    BY <1>3, EndsBegins DEF apply_check
  <2>2. CASE Fence(t) /\ \E w \in task[t].w : Record(t, w, task[t].seen, decide(w, task[t].seen))
    <3>1. PICK w \in task[t].w : Record(t, w, task[t].seen, decide(w, task[t].seen))
      BY <2>2
    <3>2. task[t].pc = "apply"  BY <1>3 DEF apply_check
    <3>3. row.token = w.token /\ row.status = "active"
      BY <2>2, <3>2 DEF Fence, PInv, LeaseInv, Checking
    <3>4. /\ row'.token = NoToken
          /\ row'.reason = "failures" => row'.status = "paused" /\ fails' = MAX_FAILURES
          /\ row'.reason # "failures" => row'.streak <= fails' /\ row'.streak < MAX_FAILURES
          /\ told' \in {None, row'.alertHash}
      BY <3>1, <3>2, <3>3, RecordStep
    <3>5. \A u \in Tasks : row'.token # u  BY <3>4, Constants
    <3>6. LeaseInv'
      BY <2>1, <3>5 DEF LeaseInv, PInv, NoneBegins, Checking, TInv, HistT
    <3>7. CountInv'  BY <3>4, <3>5 DEF CountInv
    <3> QED BY <3>6, <3>7 DEF PInv
  <2>3. CASE UNCHANGED <<row, alerts, fails, told, hashSpec>>
    BY <2>1, <2>3, PInvQuiet
  <2> QED BY <1>3, <2>2, <2>3 DEF apply_check
<1>4. CASE apply_update(t)
  <2>1. PICK w \in task[t].w :
         LET reset == task[t].new # w.spec
             new   == [row EXCEPT
                         !.spec = task[t].new,
                         !.hash = IF reset THEN None ELSE @,
                         !.alertHash = IF reset THEN None ELSE @,
                         !.streak = IF reset THEN 0 ELSE @,
                         !.due = reset \/ @]
         IN  /\ row' = IF row.status = "deleted" THEN row ELSE new
             /\ told' = IF reset THEN None ELSE told
    BY <1>4 DEF apply_update
  <2>2. /\ row'.token = row.token /\ row'.status = row.status /\ row'.reason = row.reason
        /\ row'.streak \in {0, row.streak}
        /\ row'.alertHash = row.alertHash \/ told' = None
        /\ told' \in {None, told}
    BY <1>0, <2>1 DEF Row
  <2>3. NoneBegins
    <3>1. \/ task' = [task EXCEPT ![t] = [Idle EXCEPT !.proc = task[t].proc, !.pc = "claim"]]
          \/ Ends(t)
      BY <1>4 DEF apply_update, Ends
    <3> QED BY <3>1, ClaimsBegins, EndsBegins, Zenon
  <2>4. UNCHANGED <<fails, superseded>>  BY <1>4 DEF apply_update
  <2>5. LeaseInv'  BY <2>2, <2>3, <2>4 DEF PInv, LeaseInv, NoneBegins, Checking
  <2>6. fails \in Nat /\ MAX_FAILURES \in Nat \ {0}  BY Constants DEF TInv, HistT
  <2>7. \A u \in Tasks : row'.token = u /\ Checking(u)' => \A x \in task'[u].w : Fits(x)'
    BY <2>2, <2>3, <2>4 DEF PInv, CountInv, NoneBegins, Fits
  <2>8. CountInv'  BY <2>2, <2>4, <2>6, <2>7 DEF PInv, CountInv
  <2> QED BY <2>5, <2>8 DEF PInv
<1> QED BY <1>1, <1>2, <1>3, <1>4 DEF TaskStep

LEMMA PInvUser ==
    ASSUME TInv, PInv, NEW p \in Procs, UserStep(p)
    PROVE  PInv'
<1>0. task \in [Tasks -> GoodTask] /\ row \in Row  BY DEF TInv, TaskT, RowT
<1>1. CASE Create(p)
  <2>1. NoneBegins  BY <1>1, SpawnBegins DEF Create
  <2>2. PICK s \in Specs : row' = [row EXCEPT !.status = "active", !.spec = s, !.due = TRUE]
    BY <1>1 DEF Create
  <2>3. /\ row'.token = row.token /\ row'.reason = row.reason /\ row'.streak = row.streak
        /\ row'.alertHash = row.alertHash /\ row'.status = "active"
    BY <1>0, <2>2 DEF Row
  <2>4. UNCHANGED <<fails, told, superseded>> /\ row.status = "none"  BY <1>1 DEF Create, history
  <2> QED BY <2>1, <2>3, <2>4 DEF PInv, LeaseInv, CountInv, NoneBegins, Checking, Fits
<1>2. ASSUME row'.token = NoToken, NoneBegins,
             superseded' \subseteq superseded \cup ({row.token} \ {NoToken}),
             row'.reason # "failures",
             row'.streak <= fails' /\ row'.streak < MAX_FAILURES,
             row'.status # "deleted" => told' \in {None, row'.alertHash}
      PROVE  PInv'
  <2>1. \A u \in Tasks : row'.token # u  BY <1>2, Constants
  <2>2. superseded' \subseteq Tasks  BY <1>2 DEF TInv, HistT, RowT, Row
  <2>3. LeaseInv'  BY <1>2, <2>1, <2>2 DEF PInv, LeaseInv, NoneBegins, Checking
  <2>4. CountInv'  BY <1>2, <2>1 DEF CountInv
  <2> QED BY <2>3, <2>4 DEF PInv
<1>3. fails \in Nat /\ MAX_FAILURES \in Nat \ {0}  BY Constants DEF TInv, HistT
<1>4. CASE pause(p)
  <2>1. row' = [row EXCEPT !.status = "paused", !.reason = "user",
                           !.token = NoToken, !.lapsed = FALSE]
        /\ UNCHANGED <<task, fails, told>>
    BY <1>4 DEF pause
  <2>2. /\ row'.token = NoToken /\ row'.reason = "user" /\ row'.streak = row.streak
        /\ row'.alertHash = row.alertHash /\ row'.status = "paused"
    BY <1>0, <2>1 DEF Row
  <2>3. row.status = "active"  BY <1>4 DEF pause
  <2>4. /\ row.streak <= fails /\ row.streak < MAX_FAILURES
        /\ told \in {None, row.alertHash}
    BY <2>3 DEF PInv, CountInv
  <2>5. NoneBegins  BY <2>1 DEF NoneBegins, Checking
  <2>6. superseded' \subseteq superseded \cup ({row.token} \ {NoToken})
    BY <1>4 DEF pause, Supersede
  <2> QED BY <1>2, <2>1, <2>2, <2>4, <2>5, <2>6
<1>5. CASE resume(p)
  <2>1. /\ row' = [row EXCEPT !.status = "active", !.reason = "none", !.streak = 0,
                              !.due = TRUE, !.token = NoToken, !.lapsed = FALSE]
        /\ fails' = 0 /\ UNCHANGED <<told, superseded>>
    BY <1>5 DEF resume
  <2>2. /\ row'.token = NoToken /\ row'.reason = "none" /\ row'.streak = 0
        /\ row'.alertHash = row.alertHash /\ row.status = "paused"
    BY <1>0, <1>5, <2>1 DEF resume, Row
  <2>3. told \in {None, row.alertHash}  BY <2>2 DEF PInv, CountInv
  <2>4. NoneBegins  BY <1>5, SpawnBegins DEF resume
  <2> QED BY <1>2, <1>3, <2>1, <2>2, <2>3, <2>4
<1>6. CASE run_now(p)
  BY <1>6, SpawnBegins, PInvQuiet DEF run_now, history
<1>7. CASE EditRead(p)
  <2>1. NoneBegins
    <3>1. PICK u \in Free, s \in Specs, x \in {{CopyOf([NoRow EXCEPT !.spec = row.spec])}} :
            task' = [task EXCEPT ![u] = [Idle EXCEPT !.proc = p, !.pc = "edit", !.new = s,
                                                     !.w = x]]
      BY <1>7 DEF EditRead
    <3> QED BY <1>0, <3>1 DEF Idle, NoneBegins, Checking
  <2> QED BY <1>7, <2>1, PInvQuiet DEF EditRead, history
<1>8. CASE delete(p)
  <2>1. row' = [NoRow EXCEPT !.status = "deleted"] /\ UNCHANGED <<task, fails, told>>
    BY <1>8 DEF delete
  <2>2. /\ row'.token = NoToken /\ row'.reason = "none" /\ row'.streak = 0
        /\ row'.status = "deleted"
    BY <2>1 DEF NoRow
  <2>3. NoneBegins  BY <2>1 DEF NoneBegins, Checking
  <2>4. superseded' \subseteq superseded \cup ({row.token} \ {NoToken})
    BY <1>8 DEF delete, Supersede
  <2> QED BY <1>2, <1>3, <2>1, <2>2, <2>3, <2>4
<1> QED BY <1>1, <1>4, <1>5, <1>6, <1>7, <1>8 DEF UserStep

LEMMA PInvWorld ==
    ASSUME TInv, PInv,
           \/ \E p \in Procs : Tick(p) \/ Crash(p) \/ Boot(p)
           \/ BecomesDue \/ Lapse \/ PageChanges
    PROVE  PInv'
<1>0. task \in [Tasks -> GoodTask] /\ row \in Row  BY DEF TInv, TaskT, RowT
<1>1. ASSUME NEW p \in Procs, Tick(p) PROVE PInv'
  <2>1. PICK t \in Free : Lease(t, p, TRUE)  BY <1>1 DEF Tick
  <2>2. UNCHANGED <<fails, told>> /\ t \in Tasks /\ ~Checking(t) /\ row.status = "active"
    BY <1>1 DEF Tick, Free, Checking, Leasable
  <2> QED BY <2>1, <2>2, PInvLease
<1>2. ASSUME NEW p \in Procs, Crash(p) PROVE PInv'
  <2>1. NoneBegins  BY <1>0, <1>2 DEF Crash, Idle, NoneBegins, Checking
  <2> QED BY <1>2, <2>1, PInvQuiet DEF Crash
<1>3. CASE UNCHANGED <<row, task, history>>
  <2>1. NoneBegins  BY <1>3 DEF NoneBegins, Checking
  <2> QED BY <1>3, <2>1, PInvQuiet DEF history
<1>4. CASE BecomesDue \/ Lapse
  <2>1. UNCHANGED <<task, fails, told, superseded>>  BY <1>4 DEF BecomesDue, Lapse, history
  <2>2. NoneBegins  BY <2>1 DEF NoneBegins, Checking
  <2>3. /\ row'.token = row.token /\ row'.reason = row.reason /\ row'.status = row.status
        /\ row'.streak = row.streak /\ row'.alertHash = row.alertHash
    BY <1>0, <1>4 DEF BecomesDue, Lapse, Row
  <2> QED BY <2>1, <2>2, <2>3, PInvQuiet
<1> QED BY <1>1, <1>2, <1>3, <1>4 DEF Boot, PageChanges

LEMMA PInvHolds == Spec => [](TInv /\ PInv)
<1>1. TInv /\ PInv /\ [Next]_vars => PInv'
  <2> SUFFICES ASSUME TInv, PInv, [Next]_vars PROVE PInv'  OBVIOUS
  <2>1. CASE UNCHANGED vars
    <3>1. NoneBegins /\ UNCHANGED <<row, fails, told, superseded>>
      BY <2>1 DEF vars, NoneBegins, Checking
    <3> QED BY <3>1, PInvQuiet
  <2>2. CASE Next  BY <2>2, PInvTasks, PInvUser, PInvWorld DEF Next
  <2> QED BY <2>1, <2>2
<1> QED BY <1>1, PInvInit, TypesHold, PTL DEF Spec

\* However checks and edits overlap and processes die, a watch that paused itself
\* has recorded MAX_FAILURES failed checks in a row (decide, apply_check).
THEOREM PausedOnlyByFailuresHolds == Spec => []PausedOnlyByFailures
<1>1. PInv => PausedOnlyByFailures  BY DEF PInv, CountInv, PausedOnlyByFailures
<1> QED BY <1>1, PInvHolds, PTL

\* A check whose lease was dropped or taken over writes neither the watch nor an
\* alert (lease_token and the fence of apply_check).
THEOREM StaleChecksAreMute == Spec => StaleCheckIsMute
<1> DEFINE Mute == \A t \in superseded : task[t].pc = "apply" /\ task'[t].pc = "off"
                     => \/ row' = row /\ alerts' = alerts
                        \/ ~up'[task[t].proc]
<1>1. TInv /\ PInv /\ [Next]_vars => [Mute]_vars
  <2> SUFFICES ASSUME TInv, PInv, Next, NEW t \in superseded,
                      task[t].pc = "apply", task'[t].pc = "off"
               PROVE  \/ row' = row /\ alerts' = alerts
                      \/ ~up'[task[t].proc]
    OBVIOUS
  <2>1. t \in Tasks /\ task \in [Tasks -> GoodTask] /\ up \in [Procs -> BOOLEAN]
        /\ \A w \in task[t].w : w.token # row.token
    BY DEF TInv, TaskT, WorldT, HistT, PInv, LeaseInv, Checking
  <2>2. ASSUME NEW u \in Tasks, u # t, NEW k, task' = [task EXCEPT ![u] = k] PROVE FALSE
    BY <2>1, <2>2
  <2>3. ASSUME NEW u \in Tasks, TaskStep(u)
        PROVE  row' = row /\ alerts' = alerts
    <3>1. CASE apply_check(t)  BY <2>1, <3>1 DEF apply_check, Fence
    <3>2. CASE u # t
      <4>1. \E k : task' = [task EXCEPT ![u] = k]
        <5>1. CASE Observe(u)
          <6>1. PICK c : task' = [task EXCEPT ![u].pc = "apply", ![u].seen = c]
            BY <5>1 DEF Observe
          <6>2. task' = [task EXCEPT ![u] = [task[u] EXCEPT !.pc = "apply", !.seen = c]]
            BY <2>1, <6>1
          <6> QED BY <6>2
        <5>2. CASE Claim(u)  BY <5>2, Zenon DEF Claim, Lease, Ends
        <5>3. CASE apply_check(u)  BY <5>3, Zenon DEF apply_check, Ends
        <5>4. CASE apply_update(u)  BY <5>4, Zenon DEF apply_update
        <5> QED BY <2>3, <5>1, <5>2, <5>3, <5>4 DEF TaskStep
      <4> QED BY <2>2, <3>2, <4>1
    <3> QED BY <2>3, <3>1, <3>2 DEF TaskStep, Claim, Observe, apply_update
  <2>4. ASSUME NEW p \in Procs, UserStep(p) \/ Tick(p) PROVE FALSE
    <3>1. task' = task \/ \E u \in Free : \E k : task' = [task EXCEPT ![u] = k]
      BY <2>4, Zenon DEF UserStep, Create, pause, resume, run_now, EditRead, delete, Tick, Spawn,
         Lease
    <3>2. \A u \in Free : u \in Tasks /\ u # t  BY DEF Free
    <3> QED BY <2>2, <3>1, <3>2
  <2>5. ASSUME NEW p \in Procs, Crash(p) PROVE ~up'[task[t].proc]
    BY <2>1, <2>5 DEF Crash
  <2>6. CASE (\E p \in Procs : Boot(p)) \/ BecomesDue \/ Lapse \/ PageChanges
    BY <2>6 DEF Boot, BecomesDue, Lapse, PageChanges
  <2> QED BY <2>3, <2>4, <2>5, <2>6 DEF Next
<1> QED BY <1>1, PInvHolds, PTL DEF Spec, StaleCheckIsMute

\* Between two alerts about the same state a check read another state or an unmet
\* condition, or the watch was edited (decide, apply_check).
THEOREM NoAlertIsRepeated == Spec => NoAlertTwice
<1> DEFINE Once == \A a \in alerts' \ alerts : a.kind = "watch_alert" => a.state # told
<1>1. TInv /\ PInv /\ [Next]_vars => [Once]_vars
  <2> SUFFICES ASSUME TInv, PInv, Next PROVE Once  OBVIOUS
  <2>1. ASSUME NEW t \in Tasks, apply_check(t) PROVE Once
    <3>1. CASE UNCHANGED alerts  BY <3>1
    <3>2. CASE Fence(t) /\ \E w \in task[t].w : Record(t, w, task[t].seen, decide(w, task[t].seen))
      <4>1. PICK w \in task[t].w : Record(t, w, task[t].seen, decide(w, task[t].seen))
        BY <3>2
      <4>2. task[t].pc = "apply"  BY <2>1 DEF apply_check
      <4>3. row.token = w.token /\ row.status = "active"
        BY <3>2, <4>2 DEF Fence, PInv, LeaseInv, Checking
      <4> QED BY <4>1, <4>2, <4>3, RecordStep
    <3> QED BY <2>1, <3>1, <3>2 DEF apply_check
  <2>2. CASE UNCHANGED alerts  BY <2>2
  <2>3. (\E t \in Tasks : apply_check(t)) \/ UNCHANGED alerts
    BY DEF Next, TaskStep, Claim, Observe, apply_update, UserStep, Create, pause, resume, run_now,
           EditRead, delete, Tick, Crash, Boot, BecomesDue, Lapse, PageChanges
  <2> QED BY <2>1, <2>2, <2>3
<1> QED BY <1>1, PInvHolds, PTL DEF Spec, NoAlertTwice
=============================================================================
