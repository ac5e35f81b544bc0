--------------------------- MODULE ClusterFailover ---------------------------
(***************************************************************************)
(* The control plane of a cluster: a preferred leader (node 0, "default")  *)
(* and workers that copy its database, elect one of themselves when it is  *)
(* gone, and give the control plane back when it returns.                  *)
(*                                                                         *)
(* The identity of a node (cluster_local) is a row of the control-plane    *)
(* database itself: whatever replaces the database (a dump, a promoted     *)
(* replica, a clone) replaces the identity too, and files beside it say    *)
(* who the node really is.  A node's database and files outlive its        *)
(* process, its proc record does not.                                      *)
(*                                                                         *)
(* Nodes are numbered in the order of their identifiers.  A file that may  *)
(* be missing is a set of at most one element.                             *)
(***************************************************************************)
EXTENDS Integers, FiniteSets

CONSTANTS
    NumWorkers,
    FAILOVER_FAIL_STREAK,
    Managed,             \* PostgreSQL is DevForge's own container and replicates
    SlowBoot,            \* heartbeats missed while a leader merely restarts count
    MaxWrites,           \* bound: requests that write
    MaxTerm,             \* bound: promotions
    MaxTroubles,         \* bound: crashes, outages, cuts, failed statements, writes
                         \* reopened by hand
    ByHand               \* writes may be reopened by hand

Preferred == 0
Workers == 1..NumWorkers
Nodes   == 0..NumWorkers
Writes  == 1..MaxWrites

ASSUME ConstantsAssumption ==
    /\ NumWorkers \in Nat \ {0} /\ FAILOVER_FAIL_STREAK \in Nat \ {0}
    /\ Managed \in BOOLEAN /\ SlowBoot \in BOOLEAN
    /\ MaxWrites \in Nat /\ MaxTerm \in Nat \ {0} /\ MaxTroubles \in Nat
    /\ ByHand \in BOOLEAN

VARIABLES
    db,        \* [Nodes -> me, data, ro]: identity row, writes, read-only setting
    disk,      \* [Nodes -> files beside the database]
    repl,      \* [Nodes -> standby container: from, db; or {}]
    proc,      \* [Nodes -> the process: pc and what its tasks hold]
    host,      \* [Nodes -> BOOLEAN]: the machine is on
    cut,       \* pairs of nodes that cannot reach each other
    written,   \* writes made so far
    copied,    \* history: the clone a reclaim took: from, reopened since; or {}
    torn,      \* history: a process died between a copy and the flag that explains it
    troubles

vars == <<db, disk, repl, proc, host, cut, written, copied, torn, troubles>>
outside == <<host, cut, troubles>>
ledger  == <<written, copied, torn>>

Ident == [id : Nodes, role : {"leader", "worker"}, acting : BOOLEAN, term : Nat,
          fenced : BOOLEAN, url : Nodes]
Db    == [me : Ident, data : SUBSET Writes, ro : BOOLEAN]
Dump  == [me : Ident, data : SUBSET Writes]
Disk  == [ident : SUBSET Ident, promote : {"none", "standby", "snapshot"},
          pending : SUBSET Dump, armed : SUBSET Db, reclaim : SUBSET Ident,
          snap : SUBSET Dump, hold : BOOLEAN, roster : SUBSET Workers]
Boots == {"takeover", "restore", "promote", "reclaim", "orphan"}
PCs   == {"down", "first", "lead", "leaving", "work"} \cup Boots
Recs  == {"idle", "quiesce", "stage", "resume", "dump", "fence", "flag", "demote"}
Proc  == [pc : PCs, fail : 0..(FAILOVER_FAIL_STREAK - 1), elect : {"no", "pending", "standby", "snapshot"},
          timer : BOOLEAN, carry : SUBSET Dump, flight : Writes \cup {0},
          rec : Recs, with : Nodes, term : Nat]
Off(l) == [pc |-> l, fail |-> 0, elect |-> "no", timer |-> FALSE, carry |-> {},
           flight |-> 0, rec |-> "idle", with |-> 0, term |-> 1]

-----------------------------------------------------------------------------
(* Who reaches, answers, streams.                                          *)

Reach(m, n)   == host[m] /\ host[n] /\ {m, n} \notin cut
Leads(n)      == proc[n].pc \in {"lead", "leaving"}
Serving(n)    == Leads(n) \/ proc[n].pc = "work"
Answers(m, n) == Reach(m, n) /\ Serving(n)
Acting(n)     == db[n].me.acting
Streaming(n)  == \E r \in repl[n] : r.from # n /\ Reach(n, r.from)
dump(n)       == [me |-> db[n].me, data |-> db[n].data]

Larger(a, b) == IF a > b THEN a ELSE b

must_yield_to_interim(my_id, my_term, other) ==
    /\ other.acting /\ other.id # my_id
    /\ other.term >= my_term

\* pick_failover_winner, earlier_candidates: over the stored roster.
i_am_failover_winner(n) ==
    n \in disk[n].roster /\ \A m \in disk[n].roster : n <= m
earlier_candidates(n) == {m \in disk[n].roster : m < n}

SetPc(n, l)   == proc' = [proc EXCEPT ![n].pc = l]
SetMe(n, me)  == db' = [db EXCEPT ![n].me = me]
Trouble       == troubles < MaxTroubles /\ troubles' = troubles + 1

\* What reopens the copied node: the copy no longer has all of its writes.
Reopened(n) == copied' = {IF c.from = n THEN [c EXCEPT !.reopened = TRUE] ELSE c : c \in copied}

-----------------------------------------------------------------------------
(* Boot: AppState::new, then main.                                         *)

\* adopt_staged_clone_if_armed
Adopt(n) ==
    /\ proc[n].pc = "down" /\ host[n]
    /\ \/ /\ disk[n].armed = {} /\ UNCHANGED <<db, disk>>
       \/ \E d \in disk[n].armed : /\ db' = [db EXCEPT ![n] = d]
                                   /\ disk' = [disk EXCEPT ![n].armed = {}]
    /\ SetPc(n, "takeover")
    /\ UNCHANGED <<repl, outside, ledger>>

\* takeover_from_standby; without a standby to promote the boot fails.
Takeover(n) ==
    /\ proc[n].pc = "takeover"
    /\ \/ disk[n].promote # "standby" /\ SetPc(n, "restore") /\ UNCHANGED <<db, repl>>
       \/ /\ disk[n].promote = "standby"
          /\ \E r \in repl[n] : db' = [db EXCEPT ![n] = r.db]
          /\ repl' = [repl EXCEPT ![n] = {}]
          /\ SetPc(n, "restore")
       \/ /\ disk[n].promote = "standby" /\ repl[n] = {}
          /\ SetPc(n, "down") /\ UNCHANGED <<db, repl>>
    /\ UNCHANGED <<disk, outside, ledger>>

\* ensure (configure_primary lifts the read-only setting), then the pending dump.
Restore(n) ==
    /\ proc[n].pc = "restore"
    /\ \/ /\ disk[n].pending = {}
          /\ db' = [db EXCEPT ![n].ro = FALSE] /\ UNCHANGED disk
       \/ \E d \in disk[n].pending :
            /\ db' = [db EXCEPT ![n] = [me |-> d.me, data |-> d.data, ro |-> FALSE]]
            /\ disk' = [disk EXCEPT ![n].pending = {}]
    /\ IF db[n].ro THEN Reopened(n) ELSE UNCHANGED copied
    /\ SetPc(n, "promote")
    /\ UNCHANGED <<repl, written, torn, outside>>

\* Mutant: the flag is applied to the identity found in the database.
PromoteRestored(n) ==
    /\ proc[n].pc = "promote"
    /\ IF disk[n].promote = "none" \/ db[n].me.term = MaxTerm
         THEN UNCHANGED <<db, disk>>
         ELSE /\ SetMe(n, [db[n].me EXCEPT !.role = "leader", !.acting = TRUE,
                                           !.term = @ + 1, !.url = n])
              /\ disk' = [disk EXCEPT ![n].promote = "none"]
    /\ SetPc(n, "reclaim")
    /\ UNCHANGED <<repl, outside, ledger>>

apply_promote_flag(n) ==
    /\ proc[n].pc = "promote"
    /\ \/ /\ disk[n].promote = "none" \/ disk[n].ident = {}
          /\ disk' = [disk EXCEPT ![n].promote = "none"] /\ UNCHANGED db
       \/ /\ disk[n].promote # "none"
          /\ \E i \in disk[n].ident :
               LET me == [i EXCEPT !.role = "leader", !.acting = TRUE, !.fenced = FALSE,
                                   !.term = @ + 1, !.url = n]
               IN  /\ me.term <= MaxTerm
                   /\ SetMe(n, me)
                   /\ disk' = [disk EXCEPT ![n].promote = "none", ![n].ident = {me}]
    /\ SetPc(n, "reclaim")
    /\ UNCHANGED <<repl, outside, ledger>>

apply_reclaim_flag(n) ==
    /\ proc[n].pc = "reclaim"
    /\ \/ disk[n].reclaim = {} /\ UNCHANGED <<db, disk>>
       \/ \E i \in disk[n].reclaim :
            LET me == [i EXCEPT !.role = "leader", !.acting = FALSE, !.fenced = FALSE,
                                !.url = i.id]
            IN  /\ SetMe(n, me)
                /\ disk' = [disk EXCEPT ![n].reclaim = {}, ![n].ident = {me}]
    /\ copied' = IF disk[n].reclaim = {} THEN copied ELSE {}
    /\ SetPc(n, "orphan")
    /\ UNCHANGED <<repl, outside, written, torn>>

\* Mutant: the misspelt state.
RouterMisspelt(me) == IF me.role = "worker" THEN "worker" ELSE "first"

\* main: the worker's router, or one look for an interim leader before serving.
Router(me) == IF me.role = "worker" THEN "work" ELSE "first"

\* Mutant: nobody looks for a fence whose delay died with the process.
NoOrphanFence(n) ==
    /\ proc[n].pc = "orphan"
    /\ SetPc(n, Router(db[n].me))
    /\ UNCHANGED <<db, disk, repl, outside, ledger>>

release_orphan_fence(n) ==
    /\ proc[n].pc = "orphan"
    /\ IF db[n].me.fenced /\ Acting(n)
         THEN SetMe(n, [db[n].me EXCEPT !.fenced = FALSE]) /\ Reopened(n)
         ELSE UNCHANGED <<db, copied>>
    /\ SetPc(n, Router(db[n].me))
    /\ UNCHANGED <<disk, repl, written, torn, outside>>

-----------------------------------------------------------------------------
(* The worker loop.                                                        *)

\* The leader this worker follows answers heartbeats, which it must write down.
LeaderAnswers(n) == LET m == db[n].me.url IN Reach(n, m) /\ Leads(m) /\ ~db[m].ro
\* A leader that only restarts is back before the streak is over, unless SlowBoot.
CountsAsGone(n) ==
    LET m == db[n].me.url IN
    ~LeaderAnswers(n) /\ (SlowBoot \/ ~Reach(n, m) \/ Serving(m))

\* A heartbeat is acknowledged: persist_ack, and a replica that does not stream from
\* this leader is dropped to be built anew (spawn_standby_sync, ensure_standby).
Heartbeat(n) ==
    LET m  == db[n].me.url
        me == [db[n].me EXCEPT !.term = Larger(@, db[m].me.term)]
        ok == Streaming(n) /\ \E r \in repl[n] : r.from = m
    IN  /\ proc[n].pc = "work" /\ proc[n].elect = "no" /\ db[n].me.role = "worker"
        /\ LeaderAnswers(n)
        /\ SetMe(n, me)
        /\ disk' = [disk EXCEPT ![n].roster = Workers, ![n].ident = {me}]
        /\ proc' = [proc EXCEPT ![n].fail = 0]
        /\ repl' = [repl EXCEPT ![n] = IF ~Managed \/ ok THEN @ ELSE {}]
        /\ UNCHANGED <<outside, ledger>>

\* ...by a base backup of the leader it follows; a running replica replays its log.
BaseBackup(n) ==
    /\ Managed /\ proc[n].pc = "work" /\ repl[n] = {} /\ disk[n].roster # {}
    /\ LeaderAnswers(n)
    /\ repl' = [repl EXCEPT ![n] = {[from |-> db[n].me.url, db |-> db[db[n].me.url]]}]
    /\ UNCHANGED <<db, disk, proc, outside, ledger>>

Replay(n) ==
    /\ Streaming(n)
    /\ \E r \in repl[n] : /\ r.db # db[r.from]
                          /\ repl' = [repl EXCEPT ![n] = {[r EXCEPT !.db = db[r.from]]}]
    /\ UNCHANGED <<db, disk, proc, outside, ledger>>

\* Without a streaming replica the leader's dump is fetched, then written.
FetchSnapshot(n) ==
    LET m == db[n].me.url IN
    /\ proc[n].pc = "work" /\ LeaderAnswers(n) /\ ~Streaming(n)
    /\ disk[m].snap # {} /\ disk[m].snap # disk[n].snap /\ proc[n].carry = {}
    /\ proc' = [proc EXCEPT ![n].carry = disk[m].snap]
    /\ UNCHANGED <<db, disk, repl, outside, ledger>>

StoreSnapshot(n) ==
    /\ proc[n].carry # {}
    /\ disk' = [disk EXCEPT ![n].snap = proc[n].carry]
    /\ proc' = [proc EXCEPT ![n].carry = {}]
    /\ UNCHANGED <<db, repl, outside, ledger>>

\* A heartbeat fails and it is counted; the preferred leader is tried first.
PreferredBack(n) == db[n].me.url # Preferred /\ Answers(n, Preferred)
Miss(n) ==
    /\ proc[n].pc = "work" /\ proc[n].elect = "no" /\ CountsAsGone(n)
    /\ \/ /\ PreferredBack(n)
          /\ SetMe(n, [db[n].me EXCEPT !.url = Preferred, !.acting = FALSE])
          /\ proc' = [proc EXCEPT ![n].fail = 0]
       \/ /\ ~PreferredBack(n) /\ proc[n].fail + 1 < FAILOVER_FAIL_STREAK
          /\ proc' = [proc EXCEPT ![n].fail = @ + 1]
          /\ UNCHANGED db
    /\ UNCHANGED <<disk, repl, outside, ledger>>

\* The streak is over.  try_elect: follow an earlier candidate that acts; else, the winner of the stored
\* roster notes its identity and goes on with the best copy it has.
try_elect(n) ==
    LET ahead == {m \in earlier_candidates(n) : Answers(n, m) /\ Acting(m)}
        ready == i_am_failover_winner(n) /\ (Streaming(n) \/ disk[n].snap # {})
    IN  /\ proc[n].pc = "work" /\ proc[n].elect = "no" /\ CountsAsGone(n)
        /\ ~PreferredBack(n) /\ proc[n].fail + 1 >= FAILOVER_FAIL_STREAK
        /\ db[n].me.term < MaxTerm
        /\ \/ /\ \E m \in ahead : /\ \A k \in ahead : m <= k
                                  /\ SetMe(n, [db[n].me EXCEPT !.url = m])
              /\ proc' = [proc EXCEPT ![n].fail = 0]
              /\ UNCHANGED disk
           \/ /\ ahead = {} /\ ~ready
              /\ proc' = [proc EXCEPT ![n].fail = 0]
              /\ UNCHANGED <<db, disk>>
           \/ /\ ahead = {} /\ ready
              /\ disk' = [disk EXCEPT ![n].ident = {db[n].me}]
              /\ proc' = [proc EXCEPT ![n].fail = 0,
                              ![n].elect = IF Streaming(n) THEN "standby" ELSE "pending"]
              /\ UNCHANGED db
        /\ UNCHANGED <<repl, outside, ledger>>

\* The dump to restore is put in place...
ElectPending(n) ==
    /\ proc[n].elect = "pending"
    /\ disk' = [disk EXCEPT ![n].pending = disk[n].snap]
    /\ proc' = [proc EXCEPT ![n].elect = "snapshot"]
    /\ UNCHANGED <<db, repl, outside, ledger>>

\* ...then the flag is written and the process restarts.
ElectFlag(n) ==
    /\ proc[n].elect \in {"standby", "snapshot"}
    /\ disk' = [disk EXCEPT ![n].promote = proc[n].elect]
    /\ proc' = [proc EXCEPT ![n] = Off("down")]
    /\ UNCHANGED <<db, repl, outside, ledger>>

-----------------------------------------------------------------------------
(* maybe_reclaim_preferred: before serving, then every 15 s.               *)

Reclaims(n) == db[n].me.role = "leader" /\ ~Acting(n) /\ db[n].me.id = Preferred
Interims(n) ==
    {m \in Nodes \ {n} : /\ Answers(n, m)
                         /\ must_yield_to_interim(db[n].me.id, db[n].me.term, db[m].me)}

\* The pass is over: writes that are fenced are reopened (reopen_writes).
PassOver(p) == [p EXCEPT !.pc = "lead", !.rec = "idle", !.with = 0, !.term = 1]
PassEnds(n) ==
    /\ SetMe(n, [db[n].me EXCEPT !.fenced = FALSE])
    /\ proc' = [proc EXCEPT ![n] = PassOver(@)]

SkipReclaim(n) ==
    /\ proc[n].pc = "first" /\ proc[n].rec = "idle" /\ ~Reclaims(n)
    /\ SetPc(n, "lead")
    /\ UNCHANGED <<db, disk, repl, outside, ledger>>

Look(n) ==
    /\ proc[n].pc \in {"first", "lead"} /\ proc[n].rec = "idle" /\ Reclaims(n)
    /\ \/ /\ Interims(n) = {}
          /\ proc[n].pc = "first" \/ disk[n].hold \/ db[n].me.fenced
          /\ disk' = [disk EXCEPT ![n].hold = FALSE]
          /\ PassEnds(n)
       \/ /\ Interims(n) # {} /\ disk[n].hold
          /\ proc[n].pc = "first" \/ db[n].me.fenced
          /\ PassEnds(n) /\ UNCHANGED disk
       \/ /\ ~disk[n].hold
          /\ \E m \in Interims(n) :
               proc' = [proc EXCEPT ![n].rec = "quiesce", ![n].with = m,
                                    ![n].term = db[m].me.term]
          /\ UNCHANGED <<db, disk>>
    /\ UNCHANGED <<repl, outside, ledger>>

Rec(n, l) == proc' = [proc EXCEPT ![n].rec = l]

\* Mutant: the database is not made read-only and the writes are not fenced.
QuiesceNothing(n) ==
    LET m == proc[n].with IN
    /\ proc[n].rec = "quiesce"
    /\ Rec(n, IF Managed /\ Answers(n, m) THEN "stage" ELSE "dump")
    /\ copied' = {[from |-> m, reopened |-> FALSE]}
    /\ UNCHANGED <<db, disk, repl, outside, written, torn>>

\* failover_quiesce at the interim leader: its database becomes read-only, then the
\* fence is written into that database: refused, unless the statement comes before the
\* setting is seen.  Only a managed database is made read-only, and offers a copy.
failover_quiesce(n) ==
    LET m    == proc[n].with
        hear == Answers(n, m) /\ db[m].me.role = "leader"
        fenced == [db EXCEPT ![m].ro = Managed, ![m].me.fenced = TRUE]
        next == IF Managed THEN "stage" ELSE "resume"
        quiesced == copied' = {[from |-> m, reopened |-> FALSE]}
    IN  /\ proc[n].rec = "quiesce"
        /\ \/ /\ hear /\ Managed /\ db' = [db EXCEPT ![m].ro = TRUE]
              /\ Rec(n, "dump") /\ UNCHANGED <<troubles, copied>>
           \/ /\ hear /\ ~db[m].ro /\ db' = fenced /\ quiesced
              /\ \/ /\ proc' = [proc EXCEPT ![n].rec = next, ![m].timer = TRUE]
                    /\ UNCHANGED troubles
                 \/ /\ proc' = [proc EXCEPT ![n].rec = "dump", ![m].timer = TRUE]
                    /\ Trouble
           \/ ~hear /\ Rec(n, "dump") /\ UNCHANGED <<db, troubles, copied>>
        /\ UNCHANGED <<disk, repl, host, cut, written, torn>>

\* stage_clone_from, arm_staged_clone.
Stage(n) ==
    LET m == proc[n].with IN
    /\ proc[n].rec = "stage"
    /\ \/ /\ Reach(n, m)
          /\ disk' = [disk EXCEPT ![n].armed = {db[m]}]
          /\ Rec(n, "fence") /\ UNCHANGED troubles
       \/ /\ IF Reach(n, m) THEN Trouble ELSE UNCHANGED troubles
          /\ Rec(n, "resume") /\ UNCHANGED disk
    /\ UNCHANGED <<db, repl, host, cut, ledger>>

\* failover_resume: no copy was made, the interim leader may write again.
failover_resume(n) ==
    LET m == proc[n].with IN
    /\ proc[n].rec = "resume"
    /\ IF Answers(n, m)
         THEN db' = [db EXCEPT ![m].ro = FALSE, ![m].me.fenced = FALSE] /\ Reopened(m)
         ELSE UNCHANGED <<db, copied>>
    /\ Rec(n, "dump")
    /\ UNCHANGED <<disk, repl, outside, written, torn>>

\* fetch_snapshot: the interim's dump file, refreshed only when there is none.
FetchDump(n) ==
    LET m == proc[n].with IN
    /\ proc[n].rec = "dump"
    /\ \/ /\ Answers(n, m)
          /\ disk' = [disk EXCEPT ![n].pending = IF disk[m].snap = {} THEN {dump(m)}
                                                 ELSE disk[m].snap,
                                  ![m].snap = IF @ = {} THEN {dump(m)} ELSE @]
          /\ copied' = {}
          /\ Rec(n, "fence") /\ UNCHANGED db
       \/ ~Answers(n, m) /\ PassEnds(n) /\ UNCHANGED <<disk, copied>>
    /\ UNCHANGED <<repl, outside, written, torn>>

\* Mutant: the leader opens a term of its own while the interim leader still acts.
FenceNewTerm(n) ==
    /\ proc[n].rec = "fence"
    /\ SetMe(n, [db[n].me EXCEPT !.fenced = TRUE, !.role = "leader", !.acting = FALSE,
                                 !.term = Larger(@, proc[n].term) + 1])
    /\ Rec(n, "flag")
    /\ UNCHANGED <<disk, repl, outside, ledger>>

\* The copy is on disk: writes are fenced... or the statement fails, and the interim
\* leader may write again (failover_resume) although the copy stays in place.
FenceWrites(n) ==
    LET m == proc[n].with IN
    /\ proc[n].rec = "fence"
    /\ \/ /\ SetMe(n, [db[n].me EXCEPT !.fenced = TRUE, !.role = "leader", !.acting = FALSE,
                                       !.term = Larger(@, proc[n].term)])
          /\ Rec(n, "flag") /\ UNCHANGED <<troubles, torn, copied>>
       \/ /\ Trouble /\ torn' = TRUE
          /\ LET lifted == [db EXCEPT ![n].me.fenced = FALSE]
             IN  db' = IF Answers(n, m)
                         THEN [lifted EXCEPT ![m].ro = FALSE, ![m].me.fenced = FALSE]
                         ELSE lifted
          /\ proc' = [proc EXCEPT ![n] = PassOver(@)]
          /\ IF Answers(n, m) THEN Reopened(m) ELSE UNCHANGED copied
    /\ UNCHANGED <<disk, repl, host, cut, written>>

\* Mutant: the identity is not written.
NoReclaimFlag(n) ==
    /\ proc[n].rec = "flag"
    /\ Rec(n, "demote")
    /\ UNCHANGED <<db, disk, repl, outside, ledger>>

\* ...the identity to take up again is written...
WriteReclaim(n) ==
    /\ proc[n].rec = "flag"
    /\ disk' = [disk EXCEPT ![n].reclaim = {[db[n].me EXCEPT !.fenced = FALSE]}]
    /\ Rec(n, "demote")
    /\ UNCHANGED <<db, repl, outside, ledger>>

\* ...the interim leader is asked to step down, whatever it answers, and the process
\* restarts.  failover_demote writes its own database, which refuses while read-only.
Demote(n) ==
    LET m == proc[n].with IN
    /\ proc[n].rec = "demote"
    /\ \/ /\ Answers(n, m) /\ Acting(m) /\ ~db[m].ro
          /\ LET me == [db[m].me EXCEPT !.url = n, !.role = "worker", !.acting = FALSE,
                                        !.fenced = FALSE]
             IN  SetMe(m, me) /\ disk' = [disk EXCEPT ![m].ident = {me}]
          /\ proc' = [proc EXCEPT ![n] = Off("down"), ![m].pc = "leaving"]
       \/ /\ ~(Answers(n, m) /\ Acting(m) /\ ~db[m].ro)
          /\ proc' = [proc EXCEPT ![n] = Off("down")]
          /\ UNCHANGED <<db, disk>>
    /\ UNCHANGED <<repl, outside, ledger>>

\* The demoted node restarts once it has given the names back (dns_failover::restore).
Leave(n) ==
    /\ proc[n].pc = "leaving"
    /\ proc' = [proc EXCEPT ![n] = Off("down")]
    /\ UNCHANGED <<db, disk, repl, outside, ledger>>

\* 120 s after the quiesce.
QuiesceExpires(n) ==
    /\ proc[n].timer
    /\ proc' = [proc EXCEPT ![n].timer = FALSE]
    /\ IF db[n].me.fenced /\ Acting(n)
         THEN db' = [db EXCEPT ![n].ro = FALSE, ![n].me.fenced = FALSE] /\ Reopened(n)
         ELSE UNCHANGED <<db, copied>>
    /\ UNCHANGED <<disk, repl, written, torn, outside>>

\* reopen_cluster_writes, by hand on the cluster page.
ReopenWrites(n) ==
    /\ ByHand /\ Leads(n) /\ Trouble
    /\ Acting(n) \/ ~db[n].ro
    /\ db' = [db EXCEPT ![n].ro = FALSE, ![n].me.acting = FALSE, ![n].me.fenced = FALSE]
    /\ disk' = [disk EXCEPT ![n].hold = TRUE]
    /\ Reopened(n)
    /\ UNCHANGED <<repl, proc, host, cut, written, torn>>

-----------------------------------------------------------------------------
(* Writes, their replication, and the snapshot loop.                       *)

\* fence_stale_leader lets the request pass and the database takes the write...
Write(n) ==
    /\ Leads(n) /\ ~db[n].me.fenced /\ ~db[n].ro
    /\ written < MaxWrites /\ proc[n].flight = 0
    /\ written' = written + 1
    /\ db' = [db EXCEPT ![n].data = @ \cup {written'}]
    /\ proc' = [proc EXCEPT ![n].flight = written']
    /\ UNCHANGED <<disk, repl, outside, copied, torn>>

\* ...and replicate_to_one_peer looks for a second copy: a replica that has replayed
\* it, else a dump pushed to one worker.
Confirm(n) ==
    LET replayed == \E m \in Workers : Streaming(m) /\ \E r \in repl[m] :
                        r.from = n /\ r.db.data = db[n].data
        peers == {m \in Workers \ {db[n].me.id} : Answers(n, m) /\ db[m].me.role = "worker"}
    IN  /\ proc[n].flight # 0
        /\ \/ (db[n].me.fenced \/ replayed) /\ UNCHANGED disk
           \/ /\ ~db[n].me.fenced /\ ~replayed
              /\ \E m \in peers :
                   disk' = [disk EXCEPT ![n].snap = {dump(n)}, ![m].snap = {dump(n)}]
           \/ /\ ~db[n].me.fenced /\ ~replayed /\ peers = {}
              /\ disk' = [disk EXCEPT ![n].snap = {dump(n)}]
        /\ proc' = [proc EXCEPT ![n].flight = 0]
        /\ UNCHANGED <<db, repl, outside, ledger>>

\* spawn_snapshot_loop
Snapshot(n) ==
    /\ Leads(n) /\ disk[n].snap # {dump(n)}
    /\ disk' = [disk EXCEPT ![n].snap = {dump(n)}]
    /\ UNCHANGED <<db, repl, proc, outside, ledger>>

-----------------------------------------------------------------------------
(* Faults.                                                                 *)

\* A copy is in place and nothing says yet what it is for.
Unexplained(n) ==
    \/ proc[n].rec \in {"fence", "flag"}
    \/ proc[n].elect = "snapshot"

Dies(n) ==
    /\ proc[n].pc # "down" /\ Trouble
    /\ proc' = [proc EXCEPT ![n] = Off("down")]
    /\ torn' = (torn \/ Unexplained(n))
    /\ UNCHANGED <<db, disk, repl, cut, written, copied>>

\* The process alone, which is restarted; or the machine, with its database.
Crash(n)    == Dies(n) /\ UNCHANGED host
HostDown(n) == Dies(n) /\ host' = [host EXCEPT ![n] = FALSE]

HostUp(n) ==
    /\ ~host[n] /\ host' = [host EXCEPT ![n] = TRUE]
    /\ UNCHANGED <<db, disk, repl, proc, cut, troubles, ledger>>

Cut(m, n) ==
    /\ m < n /\ {m, n} \notin cut /\ Trouble
    /\ cut' = cut \cup {{m, n}}
    /\ UNCHANGED <<db, disk, repl, proc, host, ledger>>

Heal ==
    /\ cut # {} /\ cut' = {}
    /\ UNCHANGED <<db, disk, repl, proc, host, troubles, ledger>>

-----------------------------------------------------------------------------
Init ==
    /\ db = [n \in Nodes |->
               [me |-> [id |-> n, role |-> IF n = Preferred THEN "leader" ELSE "worker",
                        acting |-> FALSE, term |-> 1, fenced |-> FALSE, url |-> Preferred],
                data |-> {}, ro |-> FALSE]]
    /\ disk = [n \in Nodes |->
                 [ident |-> {}, promote |-> "none", pending |-> {}, armed |-> {},
                  reclaim |-> {}, snap |-> {}, hold |-> FALSE, roster |-> {}]]
    /\ repl = [n \in Nodes |-> {}]
    /\ proc = [n \in Nodes |-> Off(IF n = Preferred THEN "lead" ELSE "work")]
    /\ host = [n \in Nodes |-> TRUE]
    /\ cut = {}
    /\ written = 0 /\ copied = {} /\ torn = FALSE
    /\ troubles = 0

BootStep(n) ==
    \/ Adopt(n) \/ Takeover(n) \/ Restore(n) \/ apply_promote_flag(n)
    \/ apply_reclaim_flag(n) \/ release_orphan_fence(n)
LoopStep(n) ==
    \/ Heartbeat(n) \/ Miss(n) \/ try_elect(n) \/ ElectPending(n) \/ ElectFlag(n)
CopyStep(n) == BaseBackup(n) \/ Replay(n) \/ FetchSnapshot(n) \/ StoreSnapshot(n)
ReclaimStep(n) ==
    \/ SkipReclaim(n) \/ Look(n) \/ failover_quiesce(n) \/ Stage(n) \/ failover_resume(n) \/ FetchDump(n)
    \/ FenceWrites(n) \/ WriteReclaim(n) \/ Demote(n)
LeaderStep(n) == Leave(n) \/ QuiesceExpires(n) \/ Confirm(n) \/ Snapshot(n)
Fault(n) == Crash(n) \/ HostDown(n) \/ HostUp(n)

Next ==
    \/ \E n \in Nodes :
         \/ BootStep(n) \/ LoopStep(n) \/ CopyStep(n) \/ ReclaimStep(n) \/ LeaderStep(n)
         \/ Write(n) \/ ReopenWrites(n) \/ Fault(n)
         \/ \E m \in Nodes : Cut(m, n)
    \/ Heal

Spec == Init /\ [][Next]_vars

\* Loops tick, spawned tasks run, a machine comes back, links are repaired.
Fairness ==
    /\ \A n \in Nodes : /\ WF_vars(BootStep(n)) /\ WF_vars(LoopStep(n))
                        /\ WF_vars(ReclaimStep(n)) /\ WF_vars(HostUp(n))
                        /\ WF_vars(Leave(n)) /\ WF_vars(QuiesceExpires(n))
    /\ WF_vars(Heal)

FairSpec == Spec /\ Fairness

-----------------------------------------------------------------------------
TypeOK ==
    /\ db \in [Nodes -> Db]
    /\ disk \in [Nodes -> Disk]
    /\ \A n \in Nodes : \A r \in repl[n] : r.from \in Nodes /\ r.db \in Db
    /\ proc \in [Nodes -> Proc]
    /\ host \in [Nodes -> BOOLEAN]
    /\ cut \subseteq {{m, n} : m \in Nodes, n \in Nodes}
    /\ written \in 0..MaxWrites
    /\ \A c \in copied : c.from \in Nodes /\ c.reopened \in BOOLEAN
    /\ torn \in BOOLEAN /\ troubles \in 0..MaxTroubles

\* A node that serves knows who it is although its database came from another node:
\* only a process that dies between a copy and its flag loses its identity
\* (apply_promote_flag, apply_reclaim_flag).
IdentityIsOwn == ~torn => \A n \in Nodes : Serving(n) => db[n].me.id = n

\* While an interim leader serves, the preferred leader that serves or is about to never
\* outranks it: each of its passes finds an interim leader to yield to, instead of going
\* on beside it (must_yield_to_interim).
InterimOutranks ==
    ~torn => \A n \in Workers :
        Leads(n) /\ Acting(n) /\ proc[Preferred].pc \in {"first", "lead"}
           => db[n].me.term >= db[Preferred].me.term

\* A reclaim that cloned the interim leader's database loses none of its writes, unless
\* the interim leader was reopened before it stepped down (failover_quiesce).
ReclaimKeepsWrites ==
    [][\A n \in Nodes :
         /\ disk[n].reclaim # {} /\ disk'[n].reclaim = {} /\ ~torn
         => \A c \in copied : c.reopened \/ db[c.from].data \subseteq db'[n].data]_vars

\* An interim leader that serves with its writes fenced has a delay running that will
\* reopen them, also after it was restarted (failover_quiesce, release_orphan_fence).
FenceIsTimed ==
    \A n \in Nodes : Leads(n) /\ Acting(n) /\ db[n].me.fenced => proc[n].timer

\* When the faults have ceased the preferred leader is the control plane again, takes
\* writes, and no interim leader is left, unless a node lost its identity (maybe_reclaim_preferred).
LeaderReturns ==
    []<>(torn \/ (/\ proc[Preferred].pc = "lead" /\ ~db[Preferred].me.fenced
                  /\ db[Preferred].me.id = Preferred
                  /\ \A n \in Nodes : ~Acting(n)))
=============================================================================
