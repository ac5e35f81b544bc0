------------------------------ MODULE PageWatch ------------------------------
(***************************************************************************)
(* One watch of a page (table page_watches): due at an interval, checked   *)
(* under a lease by any server process, on the scheduler's tick or at its  *)
(* user's request; a check reads the page, decides, and writes watch and   *)
(* alert in one transaction fenced by its lease token.                     *)
(*                                                                         *)
(* A task is a check or an edit under way; a lease token is named after    *)
(* the check that drew it.  What a page says is a number: 0 is the content *)
(* that does not meet a condition.  Time is what makes a watch due and a   *)
(* lease run out.                                                          *)
(***************************************************************************)
EXTENDS Integers, FiniteSets

CONSTANTS
    Procs,           \* server processes on the same database
    Tasks,           \* bound: checks and edits under way at once
    Urls, Kinds,     \* addresses; "change", "condition" (text and price)
    MaxContent,      \* contents of a page are 0..MaxContent
    MAX_FAILURES,
    MaxChanges,      \* bound: changes of a page
    MaxEvents        \* bound: requests of the user, crashes, lapsed leases and failed
                     \* statements, together

NoToken == "no token"
Nobody  == "nobody"

ASSUME ConstantsAssumption ==
    /\ Procs # {} /\ Nobody \notin Procs /\ NoToken \notin Tasks
    /\ Urls # {} /\ Kinds \subseteq {"change", "condition"} /\ Kinds # {}
    /\ MaxContent \in Nat \ {0} /\ MAX_FAILURES \in Nat \ {0}
    /\ MaxChanges \in Nat /\ MaxEvents \in Nat

Contents == 0..MaxContent
None  == -1                              \* NULL
Error == -2                              \* the page could not be read
Specs == [url : Urls, kind : Kinds]

VARIABLES
    row,        \* the row of page_watches
    alerts,     \* page_watch_alerts: kind, seq, state
    task,       \* [Tasks -> proc, pc, tick, w (the row it read), seen, new]
    page,       \* [Urls -> Contents]
    up,         \* [Procs -> BOOLEAN]
    changes, events,
    superseded, \* history: checks whose lease was dropped or taken over
    fails,      \* history: failed checks in a row that were recorded, up to MAX_FAILURES
    told,       \* history: the state last signalled, None once the condition was read unmet
    hashSpec    \* history: {the address and condition last_hash was read for}

vars == <<row, alerts, task, page, up, changes, events, superseded, fails,
          told, hashSpec>>
counters == <<changes, events>>
history  == <<superseded, fails, told, hashSpec>>

Row == [status : {"none", "active", "paused", "deleted"},
        reason : {"none", "user", "failures"}, spec : Specs,
        token : Tasks \cup {NoToken}, lapsed : BOOLEAN, due : BOOLEAN,
        streak : Nat, hash : Contents \cup {None}, alertHash : Contents \cup {None}, seq : Nat]
NoRow == [status |-> "none", reason |-> "none", spec |-> CHOOSE s \in Specs : TRUE,
          token |-> NoToken, lapsed |-> FALSE, due |-> FALSE, streak |-> 0,
          hash |-> None, alertHash |-> None, seq |-> 0]
PCs == {"off", "claim", "observe", "apply", "edit"}
NoSpec == [url |-> 0, kind |-> "none"]
Idle == [proc |-> Nobody, pc |-> "off", tick |-> FALSE, w |-> {}, seen |-> None, new |-> NoSpec]
\* What a task uses of the row it read.
Copy == [spec : Specs, token : Tasks \cup {NoToken}, streak : Nat,
         hash : Contents \cup {None}, alertHash : Contents \cup {None}, seq : Nat]
CopyOf(r) == [spec |-> r.spec, token |-> r.token, streak |-> r.streak, hash |-> r.hash,
              alertHash |-> r.alertHash, seq |-> r.seq]
Task == [proc : Procs \cup {Nobody}, pc : PCs, tick : BOOLEAN, w : SUBSET Copy,
         seen : Contents \cup {None, Error}, new : Specs \cup {NoSpec}]

-----------------------------------------------------------------------------
Free == {t \in Tasks : task[t].pc = "off" /\ row.token # t}

Spawn(p, l) ==
    \E t \in Free : task' = [task EXCEPT ![t] = [Idle EXCEPT !.proc = p, !.pc = l]]
Ends(t) == task' = [task EXCEPT ![t] = Idle]

Happens == events < MaxEvents /\ events' = events + 1

\* The checks that the row no longer knows.
Supersede == superseded' = superseded \cup ({row.token} \ {NoToken})

-----------------------------------------------------------------------------
(* The lease.                                                              *)

\* Mutant: a lease that ran out is still respected.
LeasableUnheld == row.status = "active" /\ row.token = NoToken

Leasable == row.status = "active" /\ (row.token = NoToken \/ row.lapsed)

\* lease_token: the process and a random part, unlike any other.
lease_token(t) == t

\* What both claims write; the check keeps the row it was given.
Lease(t, p, tick) ==
    LET new == [row EXCEPT !.token = lease_token(t), !.lapsed = FALSE]
    IN  /\ row' = new
        /\ task' = [task EXCEPT ![t] = [Idle EXCEPT !.proc = p, !.pc = "observe",
                                                    !.tick = tick, !.w = {CopyOf(new)}]]
        /\ superseded' = (superseded \cup ({row.token} \ {NoToken})) \ {t}

\* WatchTick: one tick at a time in a process; claim_due.
Tick(p) ==
    /\ up[p] /\ \A t \in Tasks : ~(task[t].proc = p /\ task[t].tick)
    /\ Leasable /\ row.due
    /\ \E t \in Free : Lease(t, p, TRUE)
    /\ UNCHANGED <<alerts, page, up, counters, fails, told, hashSpec>>

\* spawn_check, run_now: claim_one, whether due or not.
Claim(t) ==
    /\ task[t].pc = "claim"
    /\ \/ Leasable /\ Lease(t, task[t].proc, FALSE)
       \/ ~Leasable /\ Ends(t) /\ UNCHANGED <<row, superseded>>
    /\ UNCHANGED <<alerts, page, up, counters, fails, told, hashSpec>>

-----------------------------------------------------------------------------
(* The check.                                                              *)

\* observe: the page, or an error.
Observe(t) ==
    /\ task[t].pc = "observe"
    /\ \E w \in task[t].w, c \in Contents \cup {Error} :
         /\ c = Error \/ c = page[w.spec.url]
         /\ task' = [task EXCEPT ![t].pc = "apply", ![t].seen = c]
    /\ UNCHANGED <<row, alerts, page, up, counters, history>>

\* evaluate: what is met.
Met(w, c) == IF w.spec.kind = "change" THEN w.hash # None /\ w.hash # c ELSE c # 0

\* Mutant: the state already signalled is not looked at.
DecideAlways(w, c) ==
    IF c = Error
      THEN [streak |-> w.streak + 1, pause |-> w.streak + 1 >= MAX_FAILURES,
            alert |-> w.streak + 1 >= MAX_FAILURES, alertHash |-> w.alertHash]
      ELSE [streak |-> 0, pause |-> FALSE, alert |-> Met(w, c),
            alertHash |-> IF Met(w, c) THEN c
                          ELSE IF w.spec.kind = "change" THEN w.alertHash ELSE None]

\* decide, on the row as it was when the lease was taken.
decide(w, c) ==
    IF c = Error
      THEN [streak |-> w.streak + 1, pause |-> w.streak + 1 >= MAX_FAILURES,
            alert |-> w.streak + 1 >= MAX_FAILURES, alertHash |-> w.alertHash]
      ELSE [streak |-> 0, pause |-> FALSE,
            alert |-> Met(w, c) /\ w.alertHash # c,
            alertHash |-> IF Met(w, c) THEN c
                          ELSE IF w.spec.kind = "change" THEN w.alertHash ELSE None]

\* apply_check's transaction, when the fence holds.
Record(t, w, c, d) ==
    LET seq == w.seq + (IF d.alert THEN 1 ELSE 0)
        state == IF c = Error THEN None ELSE c
    IN  /\ row' = [row EXCEPT
                     !.token = NoToken, !.lapsed = FALSE, !.due = FALSE, !.streak = d.streak,
                     !.status = IF d.pause THEN "paused" ELSE @,
                     !.reason = IF d.pause THEN "failures" ELSE @,
                     !.hash = IF c = Error THEN @ ELSE c,
                     !.alertHash = d.alertHash, !.seq = seq]
        /\ alerts' = IF d.alert
                       THEN alerts \cup {[kind |-> IF d.pause THEN "watch_paused" ELSE "watch_alert",
                                          seq |-> seq, state |-> state]}
                       ELSE alerts
        /\ fails' = IF c # Error THEN 0
                    ELSE IF fails < MAX_FAILURES THEN fails + 1 ELSE fails
        /\ told' = IF c = Error THEN told
                   ELSE IF d.alert THEN c
                   ELSE IF w.spec.kind = "condition" /\ ~Met(w, c) THEN None ELSE told
        /\ hashSpec' = IF c = Error THEN hashSpec ELSE {w.spec}

\* WHERE lease_owner = token AND status = 'active'
Fence(t) == \E w \in task[t].w : row.token = w.token /\ row.status = "active"

apply_check(t) ==
    /\ task[t].pc = "apply"
    /\ \/ /\ Fence(t)
          /\ \E w \in task[t].w : Record(t, w, task[t].seen, decide(w, task[t].seen))
          /\ UNCHANGED events
       \/ /\ ~Fence(t)
          /\ UNCHANGED <<row, alerts, fails, told, hashSpec, events>>
       \/ /\ Happens
          /\ UNCHANGED <<row, alerts, fails, told, hashSpec>>
    /\ Ends(t)
    /\ superseded' = superseded \ {t}
    /\ UNCHANGED <<page, up, changes>>

-----------------------------------------------------------------------------
(* Requests of the user.                                                   *)

\* insert, then a first check.
Create(p) ==
    /\ row.status = "none" /\ up[p]
    /\ \E s \in Specs :
         row' = [row EXCEPT !.status = "active", !.spec = s, !.due = TRUE]
    /\ Spawn(p, "claim")
    /\ UNCHANGED <<alerts, page, up, counters, history>>

\* Mutant: a status nobody reads.
PauseMisspelt(p) ==
    /\ row.status = "active" /\ up[p] /\ Happens
    /\ row' = [row EXCEPT !.status = "pause", !.token = NoToken, !.lapsed = FALSE]
    /\ Supersede
    /\ UNCHANGED <<alerts, task, page, up, changes, fails, told, hashSpec>>

pause(p) ==
    /\ row.status = "active" /\ up[p] /\ Happens
    /\ row' = [row EXCEPT !.status = "paused", !.reason = "user",
                          !.token = NoToken, !.lapsed = FALSE]
    /\ Supersede
    /\ UNCHANGED <<alerts, task, page, up, changes, fails, told, hashSpec>>

resume(p) ==
    /\ row.status = "paused" /\ up[p] /\ Happens
    /\ row' = [row EXCEPT !.status = "active", !.reason = "none", !.streak = 0,
                          !.due = TRUE, !.token = NoToken, !.lapsed = FALSE]
    /\ Spawn(p, "claim")
    /\ fails' = 0
    /\ UNCHANGED <<alerts, page, up, changes, superseded, told, hashSpec>>

run_now(p) ==
    /\ row.status = "active" /\ up[p] /\ Happens
    /\ Spawn(p, "claim")
    /\ UNCHANGED <<row, alerts, page, up, changes, history>>

\* update reads the watch and merges the request into it; the address is looked up...
EditRead(p) ==
    /\ row.status \in {"active", "paused"} /\ up[p] /\ Happens
    /\ \E t \in Free, s \in Specs :
         task' = [task EXCEPT ![t] = [Idle EXCEPT !.proc = p, !.pc = "edit",
                                                  !.new = s,
                                                  !.w = {CopyOf([NoRow EXCEPT !.spec = row.spec])}]]
    /\ UNCHANGED <<row, alerts, page, up, changes, history>>

\* ...and apply_update writes it: another address or condition than the one read drops
\* the reference, and a watch without one is checked at once.  The lease is left alone.
apply_update(t) ==
    /\ task[t].pc = "edit"
    /\ \E w \in task[t].w :
         LET reset == task[t].new # w.spec
             new   == [row EXCEPT
                         !.spec = task[t].new,
                         !.hash = IF reset THEN None ELSE @,
                         !.alertHash = IF reset THEN None ELSE @,
                         !.streak = IF reset THEN 0 ELSE @,
                         !.due = reset \/ @]
         IN  /\ row' = IF row.status = "deleted" THEN row ELSE new
             /\ told' = IF reset THEN None ELSE told
    /\ task' = [task EXCEPT ![t] = IF row'.status = "active" /\ row'.hash = None
                                     THEN [Idle EXCEPT !.proc = task[t].proc, !.pc = "claim"]
                                     ELSE Idle]
    /\ UNCHANGED <<alerts, page, up, counters, superseded, fails, hashSpec>>

delete(p) ==
    /\ row.status \in {"active", "paused"} /\ up[p] /\ Happens
    /\ row' = [NoRow EXCEPT !.status = "deleted"]
    /\ Supersede
    /\ UNCHANGED <<alerts, task, page, up, changes, fails, told, hashSpec>>

-----------------------------------------------------------------------------
(* Time, the page, crashes.                                                *)

BecomesDue ==
    /\ row.status = "active" /\ ~row.due
    /\ row' = [row EXCEPT !.due = TRUE]
    /\ UNCHANGED <<alerts, task, page, up, counters, history>>

Holder == {t \in Tasks : task[t].pc \in {"observe", "apply"}
                         /\ \E w \in task[t].w : w.token = row.token}

\* LEASE_SECS are over: nobody is at work under the lease, or a check was stalled.
Lapse ==
    /\ row.token # NoToken /\ ~row.lapsed
    /\ IF Holder = {} THEN UNCHANGED events ELSE Happens
    /\ row' = [row EXCEPT !.lapsed = TRUE]
    /\ UNCHANGED <<alerts, task, page, up, changes, history>>

PageChanges ==
    /\ changes < MaxChanges /\ changes' = changes + 1
    /\ \E u \in Urls, c \in Contents : c # page[u] /\ page' = [page EXCEPT ![u] = c]
    /\ UNCHANGED <<row, alerts, task, up, events, history>>

Crash(p) ==
    /\ up[p] /\ Happens
    /\ up' = [up EXCEPT ![p] = FALSE]
    /\ task' = [t \in Tasks |-> IF task[t].proc = p THEN Idle ELSE task[t]]
    /\ superseded' = {t \in superseded : task[t].proc # p}
    /\ UNCHANGED <<row, alerts, page, changes, fails, told, hashSpec>>

Boot(p) ==
    /\ ~up[p] /\ up' = [up EXCEPT ![p] = TRUE]
    /\ UNCHANGED <<row, alerts, task, page, counters, history>>

-----------------------------------------------------------------------------
Init ==
    /\ row = NoRow
    /\ alerts = {}
    /\ task = [t \in Tasks |-> Idle]
    /\ page = [u \in Urls |-> 0]
    /\ up = [p \in Procs |-> TRUE]
    /\ changes = 0 /\ events = 0
    /\ superseded = {} /\ fails = 0 /\ told = None /\ hashSpec = {}

TaskStep(t) == Claim(t) \/ Observe(t) \/ apply_check(t) \/ apply_update(t)
UserStep(p) ==
    Create(p) \/ pause(p) \/ resume(p) \/ run_now(p) \/ EditRead(p) \/ delete(p)

Next ==
    \/ \E t \in Tasks : TaskStep(t)
    \/ \E p \in Procs : UserStep(p) \/ Tick(p) \/ Crash(p) \/ Boot(p)
    \/ BecomesDue \/ Lapse \/ PageChanges

Spec == Init /\ [][Next]_vars

\* The scheduler ticks every minute, spawned tasks run, a fetch is bounded by its
\* timeout, time passes, a process is restarted.
Fairness ==
    /\ \A t \in Tasks : WF_vars(TaskStep(t))
    /\ \A p \in Procs : WF_vars(Tick(p)) /\ WF_vars(Boot(p))
    /\ WF_vars(Lapse /\ UNCHANGED events)

FairSpec == Spec /\ Fairness

-----------------------------------------------------------------------------
TypeOK ==
    /\ row \in Row
    /\ \A a \in alerts : /\ a.kind \in {"watch_alert", "watch_paused"}
                         /\ a.seq \in Nat /\ a.state \in Contents \cup {None}
    /\ task \in [Tasks -> Task]
    /\ page \in [Urls -> Contents] /\ up \in [Procs -> BOOLEAN]
    /\ changes \in 0..MaxChanges /\ events \in 0..MaxEvents
    /\ superseded \subseteq Tasks /\ fails \in 0..MAX_FAILURES
    /\ told \in Contents \cup {None} /\ hashSpec \subseteq Specs

\* A check that lost its lease (the watch was paused and resumed, deleted, or taken over
\* once the lease had run out) never writes, also on the process that holds the new lease
\* (lease_token, apply_check).
StaleCheckIsMute ==
    [][\A t \in superseded : task[t].pc = "apply" /\ task'[t].pc = "off"
         => \/ row' = row /\ alerts' = alerts
            \/ ~up'[task[t].proc]]_vars

\* The same state is never signalled twice in a row: between two alerts about it a check
\* read another state or an unmet condition, or the watch was edited, whatever checks
\* overlap (decide, apply_check).
NoAlertTwice ==
    [][\A a \in alerts' \ alerts : a.kind = "watch_alert" => a.state # told]_vars

\* A watch pauses itself only after MAX_FAILURES recorded failures in a row, however
\* checks and edits overlap (decide, resume).
PausedOnlyByFailures == row.reason = "failures" => fails = MAX_FAILURES

\* An active watch that is due gets checked, whichever process dies with its lease
\* (claim_due, LEASE_SECS).
DueIsChecked == (row.status = "active" /\ row.due) ~> (row.status # "active" \/ ~row.due)

\* What apply_update's comment says: another address or condition starts from a reference
\* of its own.
ReferenceIsOwn == row.hash # None => hashSpec = {row.spec}
=============================================================================
