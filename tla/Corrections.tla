----------------------------- MODULE Corrections -----------------------------
(***************************************************************************)
(* The corrections of one project (apps/server: correction.rs, draft.rs,   *)
(* draft_origin.rs) and the automatic deployments that compete with them   *)
(* for the working directory (auto_deploy.rs, auto_deploy_guard.rs).       *)
(*                                                                         *)
(* Agents change files in the project's checkout.  At the end of a turn    *)
(* the change becomes a row of `corrections`; a repair is first verified,  *)
(* and tried again when its test fails.  The user applies, rejects or asks *)
(* again; a sorter archives what has lost its object; and every deployment *)
(* resets the checkout to the branch.  Nothing locks the checkout: each    *)
(* of these looks at it, saves it and erases it in steps of its own.       *)
(*                                                                         *)
(* A write is a change to a file git follows, each to a file of its own,   *)
(* numbered in the order they are made; a commit of the branch is the      *)
(* number of its push.                                                     *)
(***************************************************************************)
EXTENDS Naturals, FiniteSets

CONSTANTS
    Rows,          \* the rows of `corrections` that may exist
    Verifies,      \* the verifications that may run at once
    Agents,        \* the agents, by the kind of their turns: repair, feature
    Ops,           \* what the user, the forge and the sorter may do
    MAX_ATTEMPTS,  \* correction.rs:77
    AutoDeploy,    \* projects.auto_deploy
    MaxWrites,     \* bound: changes made by agents
    MaxTip,        \* bound: commits pushed to the branch
    MaxEvents      \* bound: requests and pushes, failed saves, refused pushes, crashes

ASSUME CorrectionsAssumption ==
    /\ IsFiniteSet(Rows) /\ "none" \notin Rows
    /\ IsFiniteSet(Verifies)
    /\ Agents \subseteq {"repair", "feature"} /\ "repair" \in Agents
    /\ Ops \subseteq {"apply", "reject", "redo", "sort", "chat", "push", "direct"}
    /\ "chat" \in Ops => "feature" \in Agents
    /\ MAX_ATTEMPTS \in Nat \ {0}
    /\ AutoDeploy \in BOOLEAN
    /\ {MaxWrites, MaxTip, MaxEvents} \subseteq Nat

VARIABLES
    rows,     \* the table: state, kind, fresh (updated_at within 30 min), attempts, sha
    retried,  \* history: the turns the verifications of a row have asked for
    verify,   \* verify[v]: a task of spawn_verify, [pc, id, ok, n]
    run,      \* run[a]: the turn of agent a, [pc, own, id]
    due,      \* due[a]: a turn of a is asked for
    writes,   \* the writes made so far
    wd,       \* the uncommitted writes in the checkout
    ahead,    \* the writes in commits of the checkout that are not on the branch
    saved,    \* the writes in a backup of the draft
    repo,     \* the writes on the branch
    missed,   \* history: the writes a save has missed (made after it, or it failed)
    traced,   \* the writes draft_origins attributes to a repair
    tip,      \* the last commit of the branch
    live,     \* the commit of the last successful deployment
    failed,   \* the commits a deployment has failed on
    last,     \* last[s]: status of the newest deployment that names commit s
    job,      \* job[t]: a deployment task, [pc, target, built, newer, todo]
    sort,     \* the sorter, [pc, snap]
    hand,     \* the request being handled, [pc, op, id, sha]
    events    \* the bounded events so far

rowVars == <<rows, retried>>
agentVars == <<run, due, writes>>
fileVars == <<wd, ahead, saved, repo, missed, traced>>
gitVars == <<tip, live, failed, last>>
vars == <<rowVars, verify, agentVars, fileVars, gitVars, job, sort, hand, events>>

Kinds == {"repair", "feature"}        \* a turn is classified by its prompt
Requests == {"apply", "reject", "redo"}
Tasks == {"poll", "apply", "direct"}  \* direct: the user's button, the push webhook
Commits == 0 .. MaxTip
NoSha == MaxTip + 1
NoRow == "none"
Writes == 1 .. MaxWrites

OpenStates == {"testing", "proposed", "conflict"}
ClosedStates == {"live", "failed", "rejected", "archived"}
Row == [state : OpenStates \cup ClosedStates \cup {"deploying", "none"},
        kind : Kinds, fresh : BOOLEAN, attempts : Nat, sha : Commits \cup {NoSha}]
Ids == Rows \cup {NoRow}

TypeOK ==
    /\ rows \in [Rows -> Row]
    /\ retried \in [Rows -> Nat]
    /\ verify \in [Verifies -> [pc : {"idle", "test", "judge"}, id : Ids,
                                ok : BOOLEAN, n : Nat]]
    /\ run \in [Agents -> [pc : {"idle", "work", "find", "note"}, own : SUBSET Writes,
                           id : Ids]]
    /\ due \in [Agents -> BOOLEAN]
    /\ writes \in 0 .. MaxWrites
    /\ {wd, ahead, saved, repo, missed, traced} \subseteq SUBSET Writes
    /\ tip \in Commits /\ live \in Commits /\ failed \subseteq Commits
    /\ last \in [Commits -> {"none", "active", "success", "failed", "cancelled"}]
    /\ job \in [Tasks -> [pc : {"idle", "gate", "insert", "backup", "enter", "reset", "build"},
                          target : Commits \cup {NoSha}, built : Commits \cup {NoSha},
                          newer : SUBSET Commits, todo : SUBSET Rows]]
    /\ sort \in [pc : {"idle", "backup", "discard", "mark"}, snap : SUBSET Writes]
    /\ hand \in [pc : {"idle", "find", "commit", "push", "conflict", "backup", "discard",
                       "mark"},
                 op : {"none", "apply", "reject", "redo"}, id : Ids,
                 sha : Commits \cup {NoSha}]
    /\ events \in 0 .. MaxEvents

NoVerify == [pc |-> "idle", id |-> NoRow, ok |-> FALSE, n |-> 0]
NoRun == [pc |-> "idle", own |-> {}, id |-> NoRow]
NoJob == [pc |-> "idle", target |-> NoSha, built |-> NoSha, newer |-> {}, todo |-> {}]
NoSort == [pc |-> "idle", snap |-> {}]
NoHand == [pc |-> "idle", op |-> "none", id |-> NoRow, sha |-> NoSha]

\* A project whose first commit is in production.
Init ==
    /\ rows = [r \in Rows |-> [state |-> "none", kind |-> "repair", fresh |-> FALSE,
                               attempts |-> 0, sha |-> NoSha]]
    /\ retried = [r \in Rows |-> 0]
    /\ verify = [v \in Verifies |-> NoVerify]
    /\ run = [a \in Agents |-> NoRun]
    /\ due = [a \in Agents |-> FALSE]
    /\ writes = 0
    /\ wd = {} /\ ahead = {} /\ saved = {} /\ repo = {} /\ missed = {} /\ traced = {}
    /\ tip = 0 /\ live = 0 /\ failed = {}
    /\ last = [s \in Commits |-> IF s = 0 THEN "success" ELSE "none"]
    /\ job = [t \in Tasks |-> NoJob]
    /\ sort = NoSort
    /\ hand = NoHand
    /\ events = 0

Event == events < MaxEvents /\ events' = events + 1
NoEvent == UNCHANGED events

-----------------------------------------------------------------------------
(***************************************************************************)
(* The table and the checkout.                                             *)
(***************************************************************************)
OpenRows == {r \in Rows : rows[r].state \in OpenStates}
FreeRows == {r \in Rows : rows[r].state = "none"}

\* Mutant: the row updated last, whatever its state.
open_rowAny == LET known == Rows \ FreeRows IN IF known = {} THEN {NoRow} ELSE known

\* open_row: the open row updated last.  Which of several open rows that is
\* is left open.
open_row == IF OpenRows = {} THEN {NoRow} ELSE OpenRows

\* set_state, and every other update of a row's state, by its identifier and
\* whatever the row has become: updated_at only matters to a row being tested.
set_state(r, s) == [rows EXCEPT ![r].state = s, ![r].fresh = (s = "testing")]
SetIfAny(r, s) == rows' = IF r = NoRow THEN rows ELSE set_state(r, s)

Inserted(r, s, k) ==
    [rows EXCEPT ![r] = [state |-> s, kind |-> k, fresh |-> (s = "testing"),
                         attempts |-> 0, sha |-> NoSha]]

\* draft::status: the files that differ from the branch.
Dirty == wd \cup ahead

\* Somebody has looked at the checkout and has yet to erase it.
Erasing ==
    \/ sort.pc \in {"backup", "discard"}
    \/ hand.pc = "discard"
    \/ \E t \in Tasks : job[t].pc \in {"enter", "reset"}

\* reset --hard, and clean.
Erase == wd' = {} /\ ahead' = {}

\* Bound: every actor at work may insert a row, and finds one free.
Room ==
    Cardinality(FreeRows) > Cardinality({a \in Agents : run[a].pc # "idle"})
                            + (IF hand.pc = "idle" THEN 0 ELSE 1)

-----------------------------------------------------------------------------
(***************************************************************************)
(* The turns of the agents.                                                *)
(***************************************************************************)
Wake(a) == due' = [due EXCEPT ![a] = TRUE]

\* A turn that is asked for starts; turns asked for together are one.
StartTurn(a) ==
    /\ run[a].pc = "idle" /\ due[a] /\ Room
    /\ run' = [run EXCEPT ![a] = [NoRun EXCEPT !.pc = "work"]]
    /\ due' = [due EXCEPT ![a] = FALSE]
    /\ UNCHANGED <<rowVars, verify, writes, fileVars, gitVars, job, sort, hand, events>>

\* A tool of the agent changes a file: every turn in progress will find the
\* file newer than its own start.
Write(a) ==
    /\ run[a].pc = "work"
    /\ writes < MaxWrites
    /\ LET w == writes + 1
       IN  /\ writes' = w
           /\ wd' = wd \cup {w}
           /\ missed' = IF Erasing THEN missed \cup {w} ELSE missed
           /\ run' = [b \in Agents |-> IF run[b].pc = "work"
                                       THEN [run[b] EXCEPT !.own = @ \cup {w}]
                                       ELSE run[b]]
    /\ UNCHANGED <<rowVars, verify, due, ahead, saved, repo, traced, gitVars, job, sort,
                   hand, events>>

\* record_run: the files of the draft this turn has touched, and their origin;
\* a turn that has touched none leaves no trace.
record_run(a) ==
    /\ run[a].pc = "work"
    /\ LET touched == run[a].own \cap Dirty
       IN  /\ run' = [run EXCEPT ![a] = IF touched = {} THEN NoRun
                                        ELSE [pc |-> "find", own |-> touched, id |-> NoRow]]
           /\ traced' = IF a = "repair" THEN traced \cup touched ELSE traced \ touched
    /\ UNCHANGED <<rowVars, verify, due, writes, wd, ahead, saved, repo, missed, gitVars, job,
                   sort, hand, events>>

FindOpen(a) ==
    /\ run[a].pc = "find"
    /\ \E r \in open_row :
          run' = [run EXCEPT ![a] = [pc |-> "note", own |-> {}, id |-> r]]
    /\ UNCHANGED <<rowVars, verify, due, writes, fileVars, gitVars, job, sort, hand, events>>

Noted(r, a) ==
    [rows EXCEPT ![r] = [@ EXCEPT !.state = IF a = "repair" THEN "testing" ELSE "proposed",
                                  !.kind = a, !.fresh = (a = "repair")]]

\* note_proposed: the open row is completed (its attempts are kept), or a row
\* inserted; a repair is verified.
note_proposed(a) ==
    /\ run[a].pc = "note"
    /\ run[a].id = NoRow => FreeRows # {}
    /\ LET r == IF run[a].id = NoRow THEN CHOOSE f \in FreeRows : TRUE ELSE run[a].id
       IN  /\ rows' = IF run[a].id = NoRow
                      THEN Inserted(r, IF a = "repair" THEN "testing" ELSE "proposed", a)
                      ELSE Noted(r, a)
           /\ IF a = "repair"
              THEN /\ \E v \in Verifies : verify[v].pc = "idle"
                   /\ LET v == CHOOSE f \in Verifies : verify[f].pc = "idle"
                      IN  verify' = [verify EXCEPT ![v] = [pc |-> "test", id |-> r,
                                                           ok |-> FALSE, n |-> 0]]
              ELSE UNCHANGED verify
    /\ run' = [run EXCEPT ![a] = NoRun]
    /\ UNCHANGED <<retried, due, writes, fileVars, gitVars, job, sort, hand, events>>

-----------------------------------------------------------------------------
(***************************************************************************)
(* verify: the tests and the preview, the attempt, the consequence.        *)
(***************************************************************************)
\* The end of the tests: the attempt is counted (UPDATE ... RETURNING attempts)
\* with its result.
VerifyTest(v) ==
    /\ verify[v].pc = "test"
    /\ LET r == verify[v].id
           n == rows[r].attempts + 1
       IN  /\ rows' = [rows EXCEPT ![r].attempts = n,
                                   ![r].fresh = (rows[r].state = "testing")]
           /\ \E ok \in BOOLEAN :
                 verify' = [verify EXCEPT ![v] = [@ EXCEPT !.pc = "judge", !.ok = ok, !.n = n]]
    /\ UNCHANGED <<retried, agentVars, fileVars, gitVars, job, sort, hand, events>>

\* Proposed; or failed, the attempts being spent or no repair agent known; or
\* another turn of the agent, the row being left as it is.
VerifyJudge(v) ==
    /\ verify[v].pc = "judge"
    /\ LET r == verify[v].id
           again == ~verify[v].ok /\ verify[v].n < MAX_ATTEMPTS /\ traced # {}
       IN  IF again
           THEN /\ Wake("repair")
                /\ retried' = [retried EXCEPT ![r] = @ + 1]
                /\ UNCHANGED rows
           ELSE /\ rows' = set_state(r, IF verify[v].ok THEN "proposed" ELSE "failed")
                /\ UNCHANGED <<due, retried>>
    /\ verify' = [verify EXCEPT ![v] = NoVerify]
    /\ UNCHANGED <<run, writes, fileVars, gitVars, job, sort, hand, events>>

-----------------------------------------------------------------------------
(***************************************************************************)
(* The user: a turn, and the three buttons of a correction.                *)
(***************************************************************************)
Chat ==
    /\ "chat" \in Ops
    /\ Event
    /\ Wake("feature")
    /\ UNCHANGED <<rowVars, verify, run, writes, fileVars, gitVars, job, sort, hand>>

Request(op) ==
    /\ op \in Ops
    /\ hand.pc = "idle" /\ Room
    /\ op = "apply" => tip < MaxTip
    /\ Event
    /\ hand' = [NoHand EXCEPT !.pc = "find", !.op = op]
    /\ UNCHANGED <<rowVars, verify, agentVars, fileVars, gitVars, job, sort>>

HandGoto(pc) == hand' = [hand EXCEPT !.pc = pc]
AfterRow == IF hand.op = "apply" THEN "commit" ELSE "backup"

\* ensure_row (apply, reject): the open row, or a new one of the kind most of
\* the draft comes from; redo takes the open row if there is one.
ensure_row ==
    /\ hand.pc = "find"
    /\ IF hand.op = "redo" \/ OpenRows # {}
       THEN /\ \E r \in open_row : hand' = [hand EXCEPT !.id = r, !.pc = AfterRow]
            /\ UNCHANGED rows
       ELSE FreeRows # {} /\
            LET r == CHOOSE f \in FreeRows : TRUE
            IN  /\ \E k \in {"feature"} \cup (IF traced \cap Dirty # {} THEN {"repair"} ELSE {}) :
                      rows' = Inserted(r, "proposed", k)
                /\ hand' = [hand EXCEPT !.id = r, !.pc = AfterRow]
    /\ UNCHANGED <<retried, verify, agentVars, fileVars, gitVars, job, sort, events>>

\* draft::apply to its commit; nothing to apply is an error.
ApplyCommit ==
    /\ hand.pc = "commit"
    /\ IF Dirty = {}
       THEN hand' = NoHand /\ UNCHANGED <<wd, ahead>>
       ELSE HandGoto("push") /\ ahead' = Dirty /\ wd' = {}
    /\ UNCHANGED <<rowVars, verify, agentVars, saved, repo, missed, traced, gitVars, job, sort,
                   events>>

\* ... the rebase and the push: a conflict and a refused push give the files
\* back; a checkout that was reset meanwhile pushes nothing and has the sha of
\* the branch.
ApplyPush ==
    /\ hand.pc = "push"
    /\ \/ /\ ahead # {}
          /\ wd' = Dirty /\ ahead' = {}
          /\ HandGoto("conflict")
          /\ UNCHANGED <<repo, tip>> /\ NoEvent
       \/ /\ wd' = Dirty /\ ahead' = {}
          /\ hand' = NoHand
          /\ UNCHANGED <<repo, tip>> /\ Event
       \/ /\ tip' = IF ahead = {} THEN tip ELSE tip + 1
          /\ repo' = repo \cup ahead
          /\ ahead' = {}
          /\ hand' = [hand EXCEPT !.pc = "mark", !.sha = tip']
          /\ UNCHANGED wd /\ NoEvent
    /\ UNCHANGED <<rowVars, verify, agentVars, saved, missed, traced, live, failed, last, job,
                   sort>>

ApplyConflict ==
    /\ hand.pc = "conflict"
    /\ rows' = set_state(hand.id, "conflict")
    /\ hand' = NoHand
    /\ UNCHANGED <<retried, verify, agentVars, fileVars, gitVars, job, sort, events>>

\* forget, the sha of the row, and its state: a commit that has already failed
\* is not deployed again; the deployment of any other is a task.
ApplyMark ==
    /\ hand.pc = "mark" /\ hand.op = "apply"
    /\ traced' = {}
    /\ LET marked(st) == [set_state(hand.id, st) EXCEPT ![hand.id].sha = hand.sha]
       IN  IF hand.sha \in failed
           THEN rows' = marked("failed") /\ UNCHANGED job
           ELSE /\ job["apply"].pc = "idle"
                /\ rows' = marked("deploying")
                /\ job' = [job EXCEPT !["apply"] = [NoJob EXCEPT !.pc = "gate",
                                                                 !.target = hand.sha]]
    /\ hand' = NoHand
    /\ UNCHANGED <<retried, verify, agentVars, wd, ahead, saved, repo, missed, gitVars, sort,
                   events>>

\* discard_with_backup: a clean checkout or a failed save ends a rejection,
\* and redo goes on without.
HandBackup ==
    /\ hand.pc = "backup"
    /\ \/ /\ Dirty # {}
          /\ saved' = saved \cup Dirty
          /\ HandGoto("discard")
          /\ NoEvent
       \/ /\ IF Dirty = {} THEN NoEvent ELSE Event
          /\ IF hand.op = "redo" THEN HandGoto("mark") ELSE hand' = NoHand
          /\ UNCHANGED saved
    /\ UNCHANGED <<rowVars, verify, agentVars, wd, ahead, repo, missed, traced, gitVars, job,
                   sort>>

HandDiscard ==
    /\ hand.pc = "discard"
    /\ Erase
    /\ HandGoto("mark")
    /\ UNCHANGED <<rowVars, verify, agentVars, saved, repo, missed, traced, gitVars, job, sort,
                   events>>

\* The end of reject, and of redo, which asks the agent again.
HandMark ==
    /\ hand.pc = "mark" /\ hand.op \in {"reject", "redo"}
    /\ traced' = {}
    /\ SetIfAny(hand.id, IF hand.op = "reject" THEN "rejected" ELSE "archived")
    /\ IF hand.op = "redo" THEN Wake("repair") ELSE UNCHANGED due
    /\ hand' = NoHand
    /\ UNCHANGED <<retried, verify, run, writes, wd, ahead, saved, repo, missed, gitVars, job,
                   sort, events>>

-----------------------------------------------------------------------------
(***************************************************************************)
(* auto_sort and refresh_deploying, of run_loop and of get_corrections.    *)
(***************************************************************************)
\* A clean checkout leaves an open correction without object; a draft it
\* advises to delete (already on GitHub, a repair overtaken by a success,
\* lockfiles) is saved and removed.
SortLook ==
    /\ "sort" \in Ops
    /\ sort.pc = "idle"
    /\ Event
    /\ sort' = IF Dirty = {} THEN [NoSort EXCEPT !.pc = "mark"]
               ELSE [NoSort EXCEPT !.pc = "backup", !.snap = Dirty]
    /\ UNCHANGED <<rowVars, verify, agentVars, fileVars, gitVars, job, hand>>

\* Mutant: only the files of the repairs are saved, all are removed.
SortBackupTraced ==
    /\ sort.pc = "backup"
    /\ \/ /\ saved' = saved \cup (sort.snap \cap Dirty \cap traced)
          /\ sort' = [sort EXCEPT !.pc = "discard"]
          /\ NoEvent
       \/ UNCHANGED saved /\ sort' = NoSort /\ Event
    /\ UNCHANGED <<rowVars, verify, agentVars, wd, ahead, repo, missed, traced, gitVars, job,
                   hand>>

\* draft::backup, of the files of the list it was given.
SortBackup ==
    /\ sort.pc = "backup"
    /\ \/ /\ saved' = saved \cup (sort.snap \cap Dirty)
          /\ sort' = [sort EXCEPT !.pc = "discard"]
          /\ NoEvent
       \/ UNCHANGED saved /\ sort' = NoSort /\ Event
    /\ UNCHANGED <<rowVars, verify, agentVars, wd, ahead, repo, missed, traced, gitVars, job,
                   hand>>

SortDiscard ==
    /\ sort.pc = "discard"
    /\ Erase
    /\ sort' = [sort EXCEPT !.pc = "mark"]
    /\ UNCHANGED <<rowVars, verify, agentVars, saved, repo, missed, traced, gitVars, job, hand,
                   events>>

\* The open row of that moment.  (The row inserted as archived, when there is
\* none, is left out.)
SortMark ==
    /\ sort.pc = "mark"
    /\ traced' = IF sort.snap = {} THEN traced ELSE {}
    /\ \E r \in open_row : SetIfAny(r, "archived")
    /\ sort' = NoSort
    /\ UNCHANGED <<retried, verify, agentVars, wd, ahead, saved, repo, missed, gitVars, job,
                   hand, events>>

\* Mutant: a cancelled deployment is taken for one still to come.
refresh_deployingBlind(r) ==
    /\ rows[r].state = "deploying"
    /\ rows[r].sha \in Commits
    /\ last[rows[r].sha] \in {"success", "failed"}
    /\ rows' = set_state(r, IF last[rows[r].sha] = "success" THEN "live" ELSE "failed")
    /\ UNCHANGED <<retried, verify, agentVars, fileVars, gitVars, job, sort, hand, events>>

\* A correction being deployed follows the newest deployment of its commit.
refresh_deploying(r) ==
    /\ rows[r].state = "deploying"
    /\ rows[r].sha \in Commits
    /\ last[rows[r].sha] \in {"success", "failed", "cancelled"}
    /\ rows' = set_state(r, IF last[rows[r].sha] = "success" THEN "live" ELSE "failed")
    /\ UNCHANGED <<retried, verify, agentVars, fileVars, gitVars, job, sort, hand, events>>

\* The half hour a repair in test holds a deployment back is over.
Age(r) ==
    /\ rows[r].fresh
    /\ rows' = [rows EXCEPT ![r].fresh = FALSE]
    /\ UNCHANGED <<retried, verify, agentVars, fileVars, gitVars, job, sort, hand, events>>

-----------------------------------------------------------------------------
(***************************************************************************)
(* Deployments, reduced to their row, their order and what they do to the  *)
(* checkout.  From DeployQueue: a deployment that starts cancels those in  *)
(* progress, a cancelled one stops, and boot replays what a crash cut.     *)
(***************************************************************************)
ActivePcs == {"backup", "enter", "reset", "build"}
Active(t) == job[t].pc \in ActivePcs

\* The commits whose newest deployment is t's, among S: a deployment is found
\* by the commit it aims at or has built.
Newest(t, S) == (S \cap Commits) \ job[t].newer

\* The commits the row of t names once it has verdict v: a cancelled deployment
\* does not record what it was building.  (A webhook's row that builds a later
\* commit keeps the name of its own here.)
Named(t, v) == {job[t].target} \cup (IF v = "cancelled" THEN {} ELSE {job[t].built})

\* Mutant: the spelling of the forge.
VerdictSpelt(ts, v) ==
    [s \in Commits |-> IF \E t \in ts : s \in Newest(t, Named(t, v))
                       THEN IF v = "cancelled" THEN "canceled" ELSE v ELSE last[s]]

\* The deployments of ts end with verdict v.
Verdict(ts, v) ==
    [s \in Commits |-> IF \E t \in ts : s \in Newest(t, Named(t, v)) THEN v ELSE last[s]]

\* The poller's tick: not while a deployment is active, not without a new
\* commit, and never for a commit that has failed (auto_deploy_guard).
tick ==
    /\ AutoDeploy
    /\ job["poll"].pc = "idle"
    /\ ~\E t \in Tasks : Active(t)
    /\ tip # live /\ tip \notin failed
    /\ job' = [job EXCEPT !["poll"] = [NoJob EXCEPT !.pc = "gate", !.target = tip]]
    /\ UNCHANGED <<rowVars, verify, agentVars, fileVars, gitVars, sort, hand, events>>

\* A push of somebody else.
ForeignPush ==
    /\ tip + (IF hand.op = "apply" THEN 1 ELSE 0) < MaxTip
    /\ "push" \in Ops
    /\ Event
    /\ tip' = tip + 1
    /\ UNCHANGED <<rowVars, verify, agentVars, fileVars, live, failed, last, job, sort, hand>>

\* Mutant: a repair that waits for the user holds deployments back.
repair_gateAnyOpen(r) == rows[r].state \in OpenStates

\* Wait for a repair in test for less than half an hour, supersede any other.
repair_gate(r) == rows[r].state = "testing" /\ rows[r].fresh

\* gate_deploy_on_repair: deploy_project returns, or the open repairs the gate
\* has read are to be archived.
gate_deploy_on_repair(t) ==
    /\ job[t].pc = "gate"
    /\ LET repairs == {r \in OpenRows : rows[r].kind = "repair"}
       IN  job' = [job EXCEPT ![t] =
                     IF \E r \in repairs : repair_gate(r) THEN NoJob
                     ELSE [@ EXCEPT !.pc = "insert", !.todo = repairs]]
    /\ UNCHANGED <<rowVars, verify, agentVars, fileVars, gitVars, sort, hand, events>>

\* A row of `deployments`, newer than those of the other tasks.
Inserts(t, s) ==
    /\ last' = [c \in Commits |-> IF c = s THEN "active" ELSE last[c]]
    /\ job' = [o \in Tasks |->
                 IF o = t THEN [NoJob EXCEPT !.pc = "backup", !.target = s]
                 ELSE IF Active(o) THEN [job[o] EXCEPT !.newer = @ \cup ({s} \cap Commits)]
                 ELSE job[o]]

\* The repairs read by the gate are archived, whatever they have become, and
\* the deployment is inserted.
deploy_project(t) ==
    /\ job[t].pc = "insert"
    /\ rows' = [r \in Rows |-> IF r \in job[t].todo THEN set_state(r, "archived")[r] ELSE rows[r]]
    /\ Inserts(t, job[t].target)
    /\ UNCHANGED <<retried, verify, agentVars, fileVars, tip, live, failed, sort, hand, events>>

\* The user's button, and the push webhook of an automatic project: neither
\* asks the gate or the guard.
Direct ==
    /\ "direct" \in Ops
    /\ job["direct"].pc = "idle"
    /\ Event
    /\ \E s \in {NoSha} \cup (IF AutoDeploy THEN {tip} ELSE {}) : Inserts("direct", s)
    /\ UNCHANGED <<rowVars, verify, agentVars, fileVars, tip, live, failed, sort, hand>>

\* backup_draft_before_reset: its failure is logged.  The deployment then
\* waits for its turn.
backup_draft_before_reset(t) ==
    /\ job[t].pc = "backup"
    /\ \/ saved' = saved \cup Dirty /\ UNCHANGED missed /\ NoEvent
       \/ Dirty # {} /\ missed' = missed \cup Dirty /\ UNCHANGED saved /\ Event
    /\ job' = [job EXCEPT ![t].pc = "enter"]
    /\ UNCHANGED <<rowVars, verify, agentVars, wd, ahead, repo, traced, gitVars, sort, hand>>

\* supersede_in_progress, then the slot of the node.
Enter(t) ==
    /\ job[t].pc = "enter"
    /\ LET others == {o \in Tasks \ {t} : Active(o)}
       IN  /\ last' = Verdict(others, "cancelled")
           /\ job' = [o \in Tasks |-> IF o = t THEN [job[t] EXCEPT !.pc = "reset"]
                                      ELSE IF o \in others THEN NoJob ELSE job[o]]
    /\ UNCHANGED <<rowVars, verify, agentVars, fileVars, tip, live, failed, sort, hand, events>>

\* fetch, reset --hard origin/<branch>.
Reset(t) ==
    /\ job[t].pc = "reset"
    /\ Erase
    /\ job' = [job EXCEPT ![t].pc = "build", ![t].built = tip]
    /\ UNCHANGED <<rowVars, verify, agentVars, saved, repo, missed, traced, gitVars, sort, hand,
                   events>>

Succeed(t) ==
    /\ job[t].pc = "build"
    /\ live' = job[t].built
    /\ last' = Verdict({t}, "success")
    /\ job' = [job EXCEPT ![t] = NoJob]
    /\ UNCHANGED <<rowVars, verify, agentVars, fileVars, tip, failed, sort, hand, events>>

\* The failure is of the commit built, or aimed at when none is; a first
\* failure of its cause wakes the repair agent (handle_deploy_failure).
Fail(t) ==
    /\ job[t].pc \in {"reset", "build"}
    /\ failed' = failed \cup ({IF job[t].built # NoSha THEN job[t].built ELSE job[t].target}
                              \cap Commits)
    /\ last' = Verdict({t}, "failed")
    /\ job' = [job EXCEPT ![t] = NoJob]
    /\ Wake("repair") \/ UNCHANGED due
    /\ UNCHANGED <<rowVars, verify, run, writes, fileVars, tip, live, sort, hand, events>>

\* The process dies and comes back: verifications, requests and the sorter are
\* gone, turns (AgentRuns) and deployments (DeployQueue) are replayed, a turn
\* that had ended is not recorded again.
Crash ==
    /\ Event
    /\ verify' = [v \in Verifies |-> NoVerify]
    /\ run' = [a \in Agents |-> IF run[a].pc = "work" THEN run[a] ELSE NoRun]
    /\ job' = [t \in Tasks |-> IF Active(t) THEN [job[t] EXCEPT !.pc = "backup", !.built = NoSha]
                               ELSE NoJob]
    /\ sort' = NoSort
    /\ hand' = NoHand
    /\ UNCHANGED <<rowVars, due, writes, fileVars, gitVars>>

-----------------------------------------------------------------------------
TurnStep(a) == record_run(a) \/ FindOpen(a) \/ note_proposed(a)
VerifyStep(v) == VerifyTest(v) \/ VerifyJudge(v)
HandStep ==
    \/ ensure_row \/ ApplyCommit \/ ApplyPush \/ ApplyConflict \/ ApplyMark
    \/ HandBackup \/ HandDiscard \/ HandMark
SortStep == SortBackup \/ SortDiscard \/ SortMark
JobStep(t) ==
    \/ gate_deploy_on_repair(t) \/ deploy_project(t)
    \/ backup_draft_before_reset(t) \/ Enter(t) \/ Reset(t) \/ Succeed(t) \/ Fail(t)

Next ==
    \/ \E a \in Agents : StartTurn(a) \/ Write(a) \/ TurnStep(a)
    \/ \E v \in Verifies : VerifyStep(v)
    \/ Chat \/ (\E op \in Requests : Request(op)) \/ HandStep
    \/ SortLook \/ SortStep
    \/ \E r \in Rows : refresh_deploying(r) \/ Age(r)
    \/ tick \/ ForeignPush \/ Direct \/ (\E t \in Tasks : JobStep(t))
    \/ Crash

Spec == Init /\ [][Next]_vars

\* The runtime never lets everything wait: among the tasks of one kind some task
\* that can move moves; the poller and the sorter come back; time passes.
\* Nothing is assumed of agents' writes, users and faults.
Fairness ==
    /\ WF_vars(\E a \in Agents : TurnStep(a))
    /\ WF_vars(\E v \in Verifies : VerifyStep(v))
    /\ WF_vars(HandStep)
    /\ WF_vars(SortStep)
    /\ WF_vars(\E t \in Tasks : JobStep(t))
    /\ WF_vars(\E r \in Rows : refresh_deploying(r))
    /\ WF_vars(\E r \in Rows : Age(r))
    /\ WF_vars(tick)

FairSpec == Spec /\ Fairness
-----------------------------------------------------------------------------
(***************************************************************************)
(* Properties.                                                             *)
(***************************************************************************)

\* No change an agent has made disappears: it is in the checkout, in a backup
\* or on the branch ("le brouillon en cours est d'abord sauvegardé, pour les
\* déploiements manuels comme automatiques", routes.rs:1509; the same of the
\* sorter, correction.rs:788).
DraftIsSaved == 1 .. writes \subseteq Dirty \cup saved \cup repo

\* What the code does: the only changes that disappear were made between a
\* save and the reset it was for, or were there when the save of a deployment
\* failed.
OnlyMissedIsLost == 1 .. writes \subseteq Dirty \cup saved \cup repo \cup missed

\* However its verifications overlap and its row is completed, a correction is
\* tried again MAX_ATTEMPTS - 1 times at most (verify).
RetriesBounded == \A r \in Rows : retried[r] < MAX_ATTEMPTS

\* A closed row no task holds stays as it is and no task takes it up: once those
\* that had read it open are through, what the user has rejected or put online
\* is not offered again.
Held(r) ==
    \/ \E v \in Verifies : verify[v].id = r
    \/ \E a \in Agents : run[a].id = r
    \/ r = hand.id
    \/ \E t \in Tasks : r \in job[t].todo

ClosedIsFinal ==
    [][\A r \in Rows : rows[r].state \in ClosedStates /\ ~Held(r)
                      => rows'[r] = rows[r] /\ ~Held(r)']_vars

\* A repair never holds a commit back for good (the incident the comment of
\* deploy_project tells): again and again production is at the last commit of
\* the branch, or that commit has failed.
CommitPasses == AutoDeploy => []<>(live = tip \/ tip \in failed)

\* "Rien : la mise en ligne est en cours." (todo_for, correction.rs:214): a
\* correction is not deploying for ever, as long as its commit is the last one.
DeployingSettles ==
    \A r \in Rows : []<>(rows[r].state # "deploying" \/ tip # rows[r].sha)
=============================================================================
