------------------------ MODULE ClusterFailoverProofs ------------------------
(***************************************************************************)
(* Proofs about ClusterFailover, for any number of workers, any streak,    *)
(* any bounds, with or without a managed database.                         *)
(***************************************************************************)
EXTENDS ClusterFailover, TLAPS

\* Whoever acts is a leader, wherever its identity is kept.
LeadIdent == {i \in Ident : i.acting => i.role = "leader"}
LeadDb    == [me : LeadIdent, data : SUBSET Writes, ro : BOOLEAN]
LeadDump  == [me : LeadIdent, data : SUBSET Writes]
LeadDisk  == [ident : SUBSET LeadIdent, promote : {"none", "standby", "snapshot"},
              pending : SUBSET LeadDump, armed : SUBSET LeadDb, reclaim : SUBSET LeadIdent,
              snap : SUBSET LeadDump, hold : BOOLEAN, roster : SUBSET Workers]
LeadProc  == [pc : PCs, fail : 0..(FAILOVER_FAIL_STREAK - 1),
              elect : {"no", "pending", "standby", "snapshot"}, timer : BOOLEAN,
              carry : SUBSET LeadDump, flight : Writes \cup {0},
              rec : Recs, with : Nodes, term : Nat]

DbT   == db \in [Nodes -> LeadDb]
DiskT == disk \in [Nodes -> LeadDisk]
ReplT == repl \in [Nodes -> SUBSET [from : Nodes, db : LeadDb]]
ProcT == proc \in [Nodes -> LeadProc]
RestT ==
    /\ host \in [Nodes -> BOOLEAN]
    /\ cut \subseteq {{m, n} : m \in Nodes, n \in Nodes}
    /\ written \in 0..MaxWrites
    /\ copied \subseteq [from : Nodes, reopened : BOOLEAN]
    /\ torn \in BOOLEAN /\ troubles \in 0..MaxTroubles
TInv == DbT /\ DiskT /\ ReplT /\ ProcT /\ RestT

-----------------------------------------------------------------------------
(* The types.                                                              *)

LEMMA Numbers ==
    /\ NumWorkers \in Nat \ {0} /\ FAILOVER_FAIL_STREAK \in Nat \ {0}
    /\ Managed \in BOOLEAN /\ MaxWrites \in Nat /\ MaxTerm \in Nat \ {0}
    /\ MaxTroubles \in Nat
    /\ Preferred \in Nodes /\ Workers \subseteq Nodes /\ Nodes \subseteq Nat
    /\ \A n \in Nodes : n # Preferred => n \in Workers
    /\ \A n \in Workers : n # Preferred
    /\ 0 \in Nodes /\ 0 \in 0..(FAILOVER_FAIL_STREAK - 1)
  BY ConstantsAssumption DEF Preferred, Workers, Nodes

\* The row of an identity, field by field.
LEMMA IdentFields ==
    ASSUME NEW i \in LeadIdent
    PROVE  /\ i = [id |-> i.id, role |-> i.role, acting |-> i.acting, term |-> i.term,
                   fenced |-> i.fenced, url |-> i.url]
           /\ i.id \in Nodes /\ i.role \in {"leader", "worker"} /\ i.acting \in BOOLEAN
           /\ i.term \in Nat /\ i.fenced \in BOOLEAN /\ i.url \in Nodes
           /\ i.acting => i.role = "leader"
           /\ i \in Ident
<1>1. i \in Ident /\ (i.acting => i.role = "leader")  BY DEF LeadIdent
<1> QED BY <1>1 DEF Ident

LEMMA OffTyped == \A l \in PCs : Off(l) \in LeadProc /\ Off(l).pc = l
  BY Numbers DEF Off, LeadProc, Recs

LEMMA TInit == Init => TInv
<1> SUFFICES ASSUME Init PROVE TInv
  OBVIOUS
<1>1. DbT
  <2> DEFINE me(n) == [id |-> n, role |-> IF n = Preferred THEN "leader" ELSE "worker",
                       acting |-> FALSE, term |-> 1, fenced |-> FALSE, url |-> Preferred]
  <2>1. \A n \in Nodes : me(n) \in Ident /\ ~me(n).acting
    BY Numbers DEF Ident
  <2>2. db = [n \in Nodes |-> [me |-> me(n), data |-> {}, ro |-> FALSE]]
    BY DEF Init
  <2> HIDE DEF me
  <2>3. \A n \in Nodes : me(n) \in LeadIdent
    BY <2>1 DEF LeadIdent
  <2> QED BY <2>2, <2>3 DEF DbT, LeadDb
<1>2. DiskT  BY Numbers DEF Init, DiskT, LeadDisk
<1>3. ReplT  BY DEF Init, ReplT
<1>4. ProcT
  <2>1. \A n \in Nodes : Off(IF n = Preferred THEN "lead" ELSE "work") \in LeadProc
    BY OffTyped DEF PCs
  <2> QED BY <2>1 DEF Init, ProcT
<1>5. RestT
  <2>1. host \in [Nodes -> BOOLEAN]  BY DEF Init
  <2>2. written \in 0..MaxWrites /\ troubles \in 0..MaxTroubles  BY Numbers DEF Init
  <2>3. cut = {} /\ copied = {} /\ torn \in BOOLEAN  BY DEF Init
  <2> QED BY <2>1, <2>2, <2>3 DEF RestT
<1> QED BY <1>1, <1>2, <1>3, <1>4, <1>5 DEF TInv

\* One node's database, files or process changes.
LEMMA OneDb ==
    ASSUME DbT, NEW n \in Nodes, NEW x \in LeadDb, db' = [db EXCEPT ![n] = x]
    PROVE  DbT'
  BY DEF DbT
LEMMA OneMe ==
    ASSUME DbT, NEW n \in Nodes, NEW x \in LeadIdent, SetMe(n, x)
    PROVE  DbT' /\ db'[n].me = x
  BY DEF DbT, SetMe, LeadDb
LEMMA OneDisk ==
    ASSUME DiskT, NEW n \in Nodes, NEW x \in LeadDisk, disk' = [disk EXCEPT ![n] = x]
    PROVE  DiskT'
  BY DEF DiskT
LEMMA OneProc ==
    ASSUME ProcT, NEW n \in Nodes, NEW x \in LeadProc, proc' = [proc EXCEPT ![n] = x]
    PROVE  ProcT'
  BY DEF ProcT
LEMMA ProcField ==
    ASSUME NEW p \in LeadProc
    PROVE  /\ \A l \in PCs : [p EXCEPT !.pc = l] \in LeadProc
           /\ \A l \in Recs : [p EXCEPT !.rec = l] \in LeadProc
           /\ \A m \in Nodes : [p EXCEPT !.with = m] \in LeadProc
           /\ \A t \in Nat : [p EXCEPT !.term = t] \in LeadProc
           /\ \A b \in BOOLEAN : [p EXCEPT !.timer = b] \in LeadProc
  BY DEF LeadProc
LEMMA OnePc ==
    ASSUME ProcT, NEW n \in Nodes, NEW l \in PCs, SetPc(n, l)
    PROVE  ProcT'
  BY DEF ProcT, SetPc, LeadProc
LEMMA OneRec ==
    ASSUME ProcT, NEW n \in Nodes, NEW l \in Recs, Rec(n, l)
    PROVE  ProcT'
  BY DEF ProcT, Rec, LeadProc
LEMMA OneOff ==
    ASSUME ProcT, NEW n \in Nodes, proc' = [proc EXCEPT ![n] = Off("down")]
    PROVE  ProcT'
  BY OffTyped, OneProc DEF PCs
LEMMA ReopenedTyped ==
    ASSUME copied \subseteq [from : Nodes, reopened : BOOLEAN], NEW n \in Nodes, Reopened(n)
    PROVE  copied' \subseteq [from : Nodes, reopened : BOOLEAN]
  BY DEF Reopened

LEMMA Quiet ==
    ASSUME RestT, UNCHANGED <<host, cut, troubles, written, torn>>,
           copied' \subseteq [from : Nodes, reopened : BOOLEAN]
    PROVE  RestT'
  BY DEF RestT
LEMMA Unmoved ==
    ASSUME RestT, UNCHANGED <<outside, ledger>>
    PROVE  RestT'
  BY DEF RestT, outside, ledger
LEMMA ArmedTyped ==
    ASSUME DiskT, NEW n \in Nodes, NEW x \in LeadDb, disk' = [disk EXCEPT ![n].armed = {x}]
    PROVE  DiskT'
  BY DEF DiskT, LeadDisk
LEMMA FileIdent ==
    ASSUME DiskT, NEW n \in Nodes, NEW i \in LeadIdent,
           \/ disk' = [disk EXCEPT ![n].promote = "none", ![n].ident = {i}]
           \/ disk' = [disk EXCEPT ![n].reclaim = {}, ![n].ident = {i}]
           \/ disk' = [disk EXCEPT ![n].ident = {i}]
           \/ disk' = [disk EXCEPT ![n].reclaim = {i}]
           \/ disk' = [disk EXCEPT ![n].roster = Workers, ![n].ident = {i}]
    PROVE  DiskT'
  BY DEF DiskT, LeadDisk

\* An identity that is reworded stays one: what changes and what does not.
LEMMA ReFenced ==
    ASSUME NEW i \in LeadIdent, NEW f \in BOOLEAN
    PROVE  LET j == [i EXCEPT !.fenced = f] IN
           /\ j \in LeadIdent
           /\ j.id = i.id /\ j.role = i.role /\ j.acting = i.acting
           /\ j.term = i.term /\ j.fenced = f /\ j.url = i.url
  BY IdentFields DEF LeadIdent, Ident
LEMMA ReTermed ==
    ASSUME NEW i \in LeadIdent, NEW t \in Nat
    PROVE  LET j == [i EXCEPT !.term = t] IN
           /\ j \in LeadIdent
           /\ j.id = i.id /\ j.role = i.role /\ j.acting = i.acting
           /\ j.term = t /\ j.fenced = i.fenced /\ j.url = i.url
  BY IdentFields DEF LeadIdent, Ident
LEMMA ReFollows ==
    ASSUME NEW i \in LeadIdent, NEW u \in Nodes
    PROVE  LET j == [i EXCEPT !.url = u] IN
           /\ j \in LeadIdent
           /\ j.id = i.id /\ j.role = i.role /\ j.acting = i.acting
           /\ j.term = i.term /\ j.fenced = i.fenced /\ j.url = u
  BY IdentFields DEF LeadIdent, Ident
LEMMA Returned ==
    ASSUME NEW i \in LeadIdent, NEW u \in Nodes
    PROVE  LET j == [i EXCEPT !.url = u, !.acting = FALSE] IN
           /\ j \in LeadIdent
           /\ j.id = i.id /\ j.role = i.role /\ j.acting = FALSE
           /\ j.term = i.term /\ j.fenced = i.fenced /\ j.url = u
  BY IdentFields DEF LeadIdent, Ident
LEMMA Reclaimed ==
    ASSUME NEW i \in LeadIdent, NEW u \in Nodes
    PROVE  LET j == [i EXCEPT !.role = "leader", !.acting = FALSE, !.fenced = FALSE, !.url = u] IN
           /\ j \in LeadIdent
           /\ j.id = i.id /\ j.role = "leader" /\ j.acting = FALSE
           /\ j.term = i.term /\ j.fenced = FALSE /\ j.url = u
  BY IdentFields DEF LeadIdent, Ident
LEMMA Demoted ==
    ASSUME NEW i \in LeadIdent, NEW u \in Nodes
    PROVE  LET j == [i EXCEPT !.url = u, !.role = "worker", !.acting = FALSE, !.fenced = FALSE] IN
           /\ j \in LeadIdent
           /\ j.id = i.id /\ j.role = "worker" /\ j.acting = FALSE
           /\ j.term = i.term /\ j.fenced = FALSE /\ j.url = u
  BY IdentFields DEF LeadIdent, Ident
LEMMA FencedOff ==
    ASSUME NEW i \in LeadIdent, NEW t \in Nat
    PROVE  LET j == [i EXCEPT !.fenced = TRUE, !.role = "leader", !.acting = FALSE, !.term = t] IN
           /\ j \in LeadIdent
           /\ j.id = i.id /\ j.role = "leader" /\ j.acting = FALSE
           /\ j.term = t /\ j.fenced = TRUE /\ j.url = i.url
  BY IdentFields DEF LeadIdent, Ident
LEMMA Stopped ==
    ASSUME NEW i \in LeadIdent
    PROVE  LET j == [[i EXCEPT !.acting = FALSE] EXCEPT !.fenced = FALSE] IN
           /\ j \in LeadIdent
           /\ j.id = i.id /\ j.role = i.role /\ j.acting = FALSE
           /\ j.term = i.term /\ j.fenced = FALSE /\ j.url = i.url
  BY IdentFields DEF LeadIdent, Ident
LEMMA Promoted ==
    ASSUME NEW i \in LeadIdent, NEW u \in Nodes
    PROVE  LET j == [i EXCEPT !.role = "leader", !.acting = TRUE, !.fenced = FALSE, !.term = @ + 1,
                            !.url = u] IN
           /\ j \in LeadIdent
           /\ j.id = i.id /\ j.role = "leader" /\ j.acting = TRUE
           /\ j.term = i.term + 1 /\ j.fenced = FALSE /\ j.url = u
<1>1. i.term + 1 \in Nat  BY IdentFields
<1> QED BY <1>1, IdentFields DEF LeadIdent, Ident

LEMMA Parts ==
    ASSUME TInv, NEW n \in Nodes
    PROVE  /\ db[n] \in LeadDb /\ db[n].me \in LeadIdent /\ db[n].me.term \in Nat
           /\ db[n].me.id \in Nodes /\ db[n].me.url \in Nodes /\ dump(n) \in LeadDump
           /\ disk[n] \in LeadDisk
           /\ proc[n] \in LeadProc /\ proc[n].with \in Nodes /\ proc[n].term \in Nat
  BY IdentFields DEF TInv, DbT, DiskT, ProcT, LeadDb, LeadDump, LeadDisk, LeadProc, dump

LEMMA TBoot == ASSUME TInv, NEW n \in Nodes, BootStep(n) PROVE TInv'
<1> USE DEF outside, ledger
<1>0. DbT /\ DiskT /\ ReplT /\ ProcT /\ RestT  BY DEF TInv
<1>p. {"down", "takeover", "restore", "promote", "reclaim", "orphan"} \subseteq PCs
      /\ \A me : Router(me) \in PCs
  BY DEF PCs, Boots, Router
<1>1. CASE Adopt(n)
  <2>1. DbT' /\ DiskT'
    <3>1. CASE UNCHANGED <<db, disk>>  BY <1>0, <3>1 DEF DbT, DiskT
    <3>2. CASE \E d \in disk[n].armed : /\ db' = [db EXCEPT ![n] = d]
                                        /\ disk' = [disk EXCEPT ![n].armed = {}]
      BY <1>0, <3>2 DEF DbT, DiskT, LeadDisk
    <3> QED BY <1>1, <3>1, <3>2 DEF Adopt
  <2>2. ProcT'  BY <1>0, <1>1, <1>p, OnePc DEF Adopt
  <2> QED BY <1>0, <1>1, <2>1, <2>2 DEF Adopt, TInv, ReplT, RestT
<1>2. CASE Takeover(n)
  <2>1. DbT' /\ ReplT'  BY <1>0, <1>2 DEF Takeover, DbT, ReplT
  <2>2. ProcT'  BY <1>0, <1>2, <1>p, OnePc DEF Takeover
  <2> QED BY <1>0, <1>2, <2>1, <2>2 DEF Takeover, TInv, DiskT, RestT
<1>3. CASE Restore(n)
  <2>1. DbT' /\ DiskT'
    <3>1. CASE db' = [db EXCEPT ![n].ro = FALSE] /\ UNCHANGED disk
      BY <1>0, <3>1 DEF DbT, DiskT, LeadDb
    <3>2. CASE \E d \in disk[n].pending :
                 /\ db' = [db EXCEPT ![n] = [me |-> d.me, data |-> d.data, ro |-> FALSE]]
                 /\ disk' = [disk EXCEPT ![n].pending = {}]
      <4>1. PICK d \in disk[n].pending :
                 /\ db' = [db EXCEPT ![n] = [me |-> d.me, data |-> d.data, ro |-> FALSE]]
                 /\ disk' = [disk EXCEPT ![n].pending = {}]
        BY <3>2
      <4>2. d \in LeadDump  BY <1>0 DEF DiskT, LeadDisk
      <4>3. [me |-> d.me, data |-> d.data, ro |-> FALSE] \in LeadDb
        BY <4>2 DEF LeadDump, LeadDb
      <4> QED BY <1>0, <4>1, <4>3 DEF DbT, DiskT, LeadDisk
    <3> QED BY <1>3, <3>1, <3>2 DEF Restore
  <2>2. ProcT'  BY <1>0, <1>3, <1>p, OnePc DEF Restore
  <2>3. RestT'
    <3>1. copied' \subseteq [from : Nodes, reopened : BOOLEAN]
      BY <1>0, <1>3, ReopenedTyped DEF Restore, RestT
    <3> QED BY <1>0, <1>3, <3>1 DEF Restore, RestT
  <2> QED BY <1>0, <1>3, <2>1, <2>2, <2>3 DEF Restore, TInv, ReplT
<1>4. CASE apply_promote_flag(n)
  <2>1. DbT' /\ DiskT'
    <3>1. CASE disk' = [disk EXCEPT ![n].promote = "none"] /\ UNCHANGED db
      BY <1>0, <3>1 DEF DbT, DiskT, LeadDisk
    <3>2. CASE \E i \in disk[n].ident :
               LET me == [i EXCEPT !.role = "leader", !.acting = TRUE, !.fenced = FALSE,
                                   !.term = @ + 1, !.url = n]
               IN  /\ SetMe(n, me)
                   /\ disk' = [disk EXCEPT ![n].promote = "none", ![n].ident = {me}]
      <4>1. PICK i \in disk[n].ident :
               LET me == [i EXCEPT !.role = "leader", !.acting = TRUE, !.fenced = FALSE,
                                   !.term = @ + 1, !.url = n]
               IN  /\ SetMe(n, me)
                   /\ disk' = [disk EXCEPT ![n].promote = "none", ![n].ident = {me}]
        BY <3>2
      <4> DEFINE me == [i EXCEPT !.role = "leader", !.acting = TRUE, !.fenced = FALSE,
                                 !.term = @ + 1, !.url = n]
      <4>2. i \in LeadIdent  BY <1>0 DEF DiskT, LeadDisk
      <4>3. me \in LeadIdent  BY <4>2, Promoted
      <4>4. SetMe(n, me) /\ disk' = [disk EXCEPT ![n].promote = "none", ![n].ident = {me}]
        BY <4>1
      <4> HIDE DEF me
      <4>5. DbT'  BY <1>0, <4>3, <4>4, OneMe
      <4>6. DiskT'  BY <1>0, <4>3, <4>4, FileIdent
      <4> QED BY <4>5, <4>6
    <3> QED BY <1>4, <3>1, <3>2 DEF apply_promote_flag
  <2>2. ProcT'  BY <1>0, <1>4, <1>p, OnePc DEF apply_promote_flag
  <2>3. ReplT' /\ RestT'  BY <1>0, <1>4, Unmoved DEF apply_promote_flag, ReplT
  <2> QED BY <2>1, <2>2, <2>3 DEF TInv
<1>5. CASE apply_reclaim_flag(n)
  <2>1. DbT' /\ DiskT'
    <3>1. CASE UNCHANGED <<db, disk>>  BY <1>0, <3>1 DEF DbT, DiskT
    <3>2. CASE \E i \in disk[n].reclaim :
            LET me == [i EXCEPT !.role = "leader", !.acting = FALSE, !.fenced = FALSE,
                                !.url = i.id]
            IN  /\ SetMe(n, me)
                /\ disk' = [disk EXCEPT ![n].reclaim = {}, ![n].ident = {me}]
      <4>1. PICK i \in disk[n].reclaim :
            LET me == [i EXCEPT !.role = "leader", !.acting = FALSE, !.fenced = FALSE,
                                !.url = i.id]
            IN  /\ SetMe(n, me)
                /\ disk' = [disk EXCEPT ![n].reclaim = {}, ![n].ident = {me}]
        BY <3>2
      <4> DEFINE me == [i EXCEPT !.role = "leader", !.acting = FALSE, !.fenced = FALSE,
                                 !.url = i.id]
      <4>2. i \in LeadIdent  BY <1>0 DEF DiskT, LeadDisk
      <4>3. me \in LeadIdent  BY <4>2, IdentFields, Reclaimed
      <4>4. SetMe(n, me) /\ disk' = [disk EXCEPT ![n].reclaim = {}, ![n].ident = {me}]
        BY <4>1
      <4> HIDE DEF me
      <4>5. DbT'  BY <1>0, <4>3, <4>4, OneMe
      <4>6. DiskT'  BY <1>0, <4>3, <4>4, FileIdent
      <4> QED BY <4>5, <4>6
    <3> QED BY <1>5, <3>1, <3>2 DEF apply_reclaim_flag
  <2>2. ProcT'  BY <1>0, <1>5, <1>p, OnePc DEF apply_reclaim_flag
  <2>3. copied' \subseteq [from : Nodes, reopened : BOOLEAN]
    <3>1. copied \subseteq [from : Nodes, reopened : BOOLEAN]  BY <1>0 DEF RestT
    <3>2. copied' = copied \/ copied' = {}  BY <1>5 DEF apply_reclaim_flag
    <3> QED BY <3>1, <3>2
  <2>4. ReplT' /\ RestT'  BY <1>0, <1>5, <2>3, Quiet DEF apply_reclaim_flag, ReplT
  <2> QED BY <2>1, <2>2, <2>4 DEF TInv
<1>6. CASE release_orphan_fence(n)
  <2>1. DbT'
    <3>1. [db[n].me EXCEPT !.fenced = FALSE] \in LeadIdent
      BY Parts, ReFenced
    <3> QED BY <1>0, <1>6, <3>1, OneMe DEF release_orphan_fence, DbT
  <2>2. ProcT'  BY <1>0, <1>6, <1>p, OnePc DEF release_orphan_fence
  <2>3. RestT'
    <3>1. copied' \subseteq [from : Nodes, reopened : BOOLEAN]
      BY <1>0, <1>6, ReopenedTyped DEF release_orphan_fence, RestT
    <3> QED BY <1>0, <1>6, <3>1 DEF release_orphan_fence, RestT
  <2> QED BY <1>0, <1>6, <2>1, <2>2, <2>3 DEF release_orphan_fence, TInv, ReplT, DiskT
<1> QED BY <1>1, <1>2, <1>3, <1>4, <1>5, <1>6 DEF BootStep

LEMMA TLoop == ASSUME TInv, NEW n \in Nodes, LoopStep(n) PROVE TInv'
<1> USE DEF outside, ledger
<1>0. DbT /\ DiskT /\ ReplT /\ ProcT /\ RestT  BY DEF TInv
<1>r. UNCHANGED <<outside, ledger>> => RestT'  BY <1>0, Unmoved
<1>1. CASE Heartbeat(n)
  <2> DEFINE me == [db[n].me EXCEPT !.term = Larger(@, db[db[n].me.url].me.term)]
  <2>1. me \in LeadIdent
    <3>1. Larger(db[n].me.term, db[db[n].me.url].me.term) \in Nat
      BY Parts DEF Larger
    <3> QED BY <3>1, Parts, ReTermed
  <2>2. SetMe(n, me) /\ disk' = [disk EXCEPT ![n].roster = Workers, ![n].ident = {me}]
    BY <1>1 DEF Heartbeat
  <2>3. ProcT'  BY <1>0, <1>1, Numbers DEF Heartbeat, ProcT, LeadProc
  <2>4. ReplT'
    <3>1. repl' = repl \/ repl' = [repl EXCEPT ![n] = {}] \/ repl' = [repl EXCEPT ![n] = repl[n]]
      BY <1>1 DEF Heartbeat
    <3> QED BY <1>0, <3>1 DEF ReplT
  <2>5. RestT'  BY <1>1, <1>r DEF Heartbeat
  <2> HIDE DEF me
  <2>6. DbT'  BY <1>0, <2>1, <2>2, OneMe
  <2>7. DiskT'  BY <1>0, <2>1, <2>2, FileIdent
  <2> QED BY <2>3, <2>4, <2>5, <2>6, <2>7 DEF TInv
<1>2. CASE Miss(n)
  <2>1. DbT'
    <3>1. [db[n].me EXCEPT !.url = Preferred, !.acting = FALSE] \in LeadIdent
      BY Parts, Numbers, Returned
    <3> QED BY <1>0, <1>2, <3>1, OneMe DEF Miss, DbT
  <2>2. ProcT'
    <3>1. proc' = [proc EXCEPT ![n].fail = 0]
          \/ (proc[n].fail + 1 < FAILOVER_FAIL_STREAK /\ proc' = [proc EXCEPT ![n].fail = @ + 1])
      BY <1>2 DEF Miss
    <3> QED BY <1>0, <3>1, Numbers DEF ProcT, LeadProc
  <2> QED BY <1>0, <1>2, <1>r, <2>1, <2>2 DEF Miss, TInv, DiskT, ReplT
<1>3. CASE try_elect(n)
  <2>1. DbT'
    <3>1. \A m \in earlier_candidates(n) : [db[n].me EXCEPT !.url = m] \in LeadIdent
      BY <1>0, Parts, Numbers, ReFollows DEF earlier_candidates, DiskT, LeadDisk
    <3> QED BY <1>0, <1>3, <3>1, OneMe DEF try_elect, DbT
  <2>2. DiskT'
    <3>1. disk' = disk \/ disk' = [disk EXCEPT ![n].ident = {db[n].me}]
      BY <1>3 DEF try_elect
    <3> QED BY <1>0, <3>1, Parts, FileIdent DEF DiskT
  <2>3. ProcT'
    <3>1. \/ proc' = [proc EXCEPT ![n].fail = 0]
          \/ proc' = [proc EXCEPT ![n].fail = 0, ![n].elect = "standby"]
          \/ proc' = [proc EXCEPT ![n].fail = 0, ![n].elect = "pending"]
      BY <1>3 DEF try_elect
    <3> QED BY <1>0, <3>1, Numbers DEF ProcT, LeadProc
  <2> QED BY <1>0, <1>3, <1>r, <2>1, <2>2, <2>3 DEF try_elect, TInv, ReplT
<1>4. CASE ElectPending(n)
  <2>1. DiskT'  BY <1>0, <1>4 DEF ElectPending, DiskT, LeadDisk
  <2>2. ProcT'  BY <1>0, <1>4 DEF ElectPending, ProcT, LeadProc
  <2> QED BY <1>0, <1>4, <1>r, <2>1, <2>2 DEF ElectPending, TInv, ReplT, DbT
<1>5. CASE ElectFlag(n)
  <2>1. DiskT'  BY <1>0, <1>5 DEF ElectFlag, DiskT, LeadDisk
  <2>2. ProcT'  BY <1>0, <1>5, OneOff DEF ElectFlag
  <2> QED BY <1>0, <1>5, <1>r, <2>1, <2>2 DEF ElectFlag, TInv, ReplT, DbT
<1> QED BY <1>1, <1>2, <1>3, <1>4, <1>5 DEF LoopStep

LEMMA TCopy == ASSUME TInv, NEW n \in Nodes, CopyStep(n) PROVE TInv'
<1> USE DEF outside, ledger
<1>0. DbT /\ DiskT /\ ReplT /\ ProcT /\ RestT  BY DEF TInv
<1>r. UNCHANGED <<outside, ledger>> => RestT'  BY <1>0, Unmoved
<1>1. CASE BaseBackup(n)
  <2>1. [from |-> db[n].me.url, db |-> db[db[n].me.url]] \in [from : Nodes, db : LeadDb]
    BY Parts
  <2>2. ReplT'  BY <1>0, <1>1, <2>1 DEF BaseBackup, ReplT
  <2> QED BY <1>0, <1>1, <1>r, <2>2 DEF BaseBackup, TInv, DbT, DiskT, ProcT
<1>2. CASE Replay(n)
  <2>1. PICK r \in repl[n] : repl' = [repl EXCEPT ![n] = {[r EXCEPT !.db = db[r.from]]}]
    BY <1>2 DEF Replay
  <2>2. r \in [from : Nodes, db : LeadDb]  BY <1>0 DEF ReplT
  <2>3. [r EXCEPT !.db = db[r.from]] \in [from : Nodes, db : LeadDb]
    BY <2>2, Parts
  <2>4. ReplT'  BY <1>0, <2>1, <2>3 DEF ReplT
  <2> QED BY <1>0, <1>2, <1>r, <2>4 DEF Replay, TInv, DbT, DiskT, ProcT
<1>3. CASE FetchSnapshot(n)
  <2>1. disk[db[n].me.url].snap \subseteq LeadDump
    BY <1>0, Parts DEF DiskT, LeadDisk
  <2>2. ProcT'  BY <1>0, <1>3, <2>1 DEF FetchSnapshot, ProcT, LeadProc
  <2> QED BY <1>0, <1>3, <1>r, <2>2 DEF FetchSnapshot, TInv, DbT, DiskT, ReplT
<1>4. CASE StoreSnapshot(n)
  <2>1. proc[n].carry \subseteq LeadDump  BY <1>0 DEF ProcT, LeadProc
  <2>2. DiskT'  BY <1>0, <1>4, <2>1 DEF StoreSnapshot, DiskT, LeadDisk
  <2>3. ProcT'  BY <1>0, <1>4 DEF StoreSnapshot, ProcT, LeadProc
  <2> QED BY <1>0, <1>4, <1>r, <2>2, <2>3 DEF StoreSnapshot, TInv, DbT, ReplT
<1> QED BY <1>1, <1>2, <1>3, <1>4 DEF CopyStep

LEMMA PassTyped ==
    ASSUME ProcT, NEW n \in Nodes, proc' = [proc EXCEPT ![n] = PassOver(@)]
    PROVE  ProcT'
<1>1. proc[n] \in LeadProc  BY DEF ProcT
<1> DEFINE p1 == [proc[n] EXCEPT !.pc = "lead"]
           p2 == [p1 EXCEPT !.rec = "idle"]
           p3 == [p2 EXCEPT !.with = 0]
<1>2. p1 \in LeadProc  BY <1>1, ProcField DEF PCs
<1>3. p2 \in LeadProc  BY <1>2, ProcField DEF Recs
<1>4. p3 \in LeadProc  BY <1>3, ProcField, Numbers
<1>5. [p3 EXCEPT !.term = 1] \in LeadProc  BY <1>4, ProcField
<1>6. PassOver(proc[n]) = [p3 EXCEPT !.term = 1]  BY DEF PassOver
<1> QED BY <1>5, <1>6, OneProc

LEMMA PassEndTyped ==
    ASSUME TInv, NEW n \in Nodes, PassEnds(n)
    PROVE  DbT' /\ ProcT'
<1>1. [db[n].me EXCEPT !.fenced = FALSE] \in LeadIdent
  BY Parts, ReFenced
<1> QED BY <1>1, OneMe, PassTyped DEF PassEnds, TInv

\* The three ways writes are stopped or reopened at another node.
LEMMA WritesTyped ==
    ASSUME DbT, NEW m \in Nodes,
           \/ db' = [db EXCEPT ![m].ro = TRUE]
           \/ db' = [db EXCEPT ![m].ro = Managed, ![m].me.fenced = TRUE]
           \/ db' = [db EXCEPT ![m].ro = FALSE, ![m].me.fenced = FALSE]
           \/ db' = [db EXCEPT ![m].ro = FALSE, ![m].me.acting = FALSE, ![m].me.fenced = FALSE]
    PROVE  DbT'
<1>1. db[m] \in LeadDb /\ db[m].me \in LeadIdent  BY DEF DbT, LeadDb
<1>2. /\ [db[m].me EXCEPT !.fenced = TRUE] \in LeadIdent
      /\ [db[m].me EXCEPT !.fenced = FALSE] \in LeadIdent
      /\ [[db[m].me EXCEPT !.acting = FALSE] EXCEPT !.fenced = FALSE] \in LeadIdent
  BY <1>1, ReFenced, Stopped
<1>3. \A i \in LeadIdent, b \in BOOLEAN :
         [[db[m] EXCEPT !.ro = b] EXCEPT !.me = i] \in LeadDb
  BY <1>1 DEF LeadDb
<1>4. CASE db' = [db EXCEPT ![m].ro = TRUE]
  <2>1. [db[m] EXCEPT !.ro = TRUE] \in LeadDb  BY <1>1 DEF LeadDb
  <2> QED BY <1>4, <2>1, OneDb
<1>5. CASE db' = [db EXCEPT ![m].ro = Managed, ![m].me.fenced = TRUE]
  <2> DEFINE x == [[db[m] EXCEPT !.ro = Managed]
                      EXCEPT !.me = [db[m].me EXCEPT !.fenced = TRUE]]
  <2>1. x \in LeadDb  BY <1>2, <1>3, Numbers
  <2>2. db' = [db EXCEPT ![m] = x]  BY <1>1, <1>5 DEF DbT, LeadDb
  <2> QED BY <2>1, <2>2, OneDb
<1>6. CASE db' = [db EXCEPT ![m].ro = FALSE, ![m].me.fenced = FALSE]
  <2> DEFINE x == [[db[m] EXCEPT !.ro = FALSE]
                      EXCEPT !.me = [db[m].me EXCEPT !.fenced = FALSE]]
  <2>1. x \in LeadDb  BY <1>2, <1>3
  <2>2. db' = [db EXCEPT ![m] = x]  BY <1>1, <1>6 DEF DbT, LeadDb
  <2> QED BY <2>1, <2>2, OneDb
<1>7. CASE db' = [db EXCEPT ![m].ro = FALSE, ![m].me.acting = FALSE, ![m].me.fenced = FALSE]
  <2> DEFINE x == [[db[m] EXCEPT !.ro = FALSE]
                      EXCEPT !.me = [[db[m].me EXCEPT !.acting = FALSE] EXCEPT !.fenced = FALSE]]
  <2>1. x \in LeadDb  BY <1>2, <1>3
  <2>2. db' = [db EXCEPT ![m] = x]  BY <1>1, <1>7 DEF DbT, LeadDb
  <2> QED BY <2>1, <2>2, OneDb
<1> QED BY <1>4, <1>5, <1>6, <1>7

\* The same of a table that has changed already.
LEMMA ReopenTyped ==
    ASSUME NEW f \in [Nodes -> LeadDb], NEW m \in Nodes
    PROVE  [f EXCEPT ![m].ro = FALSE, ![m].me.fenced = FALSE] \in [Nodes -> LeadDb]
<1>1. f[m] \in LeadDb /\ f[m].me \in LeadIdent  BY DEF LeadDb
<1>2. [f[m].me EXCEPT !.fenced = FALSE] \in LeadIdent  BY <1>1, ReFenced
<1> DEFINE x == [[f[m] EXCEPT !.ro = FALSE] EXCEPT !.me = [f[m].me EXCEPT !.fenced = FALSE]]
<1>3. x \in LeadDb  BY <1>1, <1>2 DEF LeadDb
<1>4. [f EXCEPT ![m].ro = FALSE, ![m].me.fenced = FALSE] = [f EXCEPT ![m] = x]
  BY <1>1 DEF LeadDb
<1> HIDE DEF x
<1> QED BY <1>3, <1>4

LEMMA TReclaim == ASSUME TInv, NEW n \in Nodes, ReclaimStep(n) PROVE TInv'
<1> USE DEF outside, ledger
<1>0. DbT /\ DiskT /\ ReplT /\ ProcT /\ RestT /\ proc[n].with \in Nodes
  BY Parts DEF TInv
<1>r. UNCHANGED <<outside, ledger>> => RestT'  BY <1>0, Unmoved
<1>c. copied \subseteq [from : Nodes, reopened : BOOLEAN] /\ troubles \in 0..MaxTroubles
  BY <1>0 DEF RestT
<1>t. Trouble => troubles' \in 0..MaxTroubles
  BY <1>c, Numbers DEF Trouble
<1>1. CASE SkipReclaim(n)
  <2>1. ProcT'  BY <1>0, <1>1, OnePc DEF SkipReclaim, PCs
  <2> QED BY <1>0, <1>1, <1>r, <2>1 DEF SkipReclaim, TInv, DbT, DiskT, ReplT
<1>2. CASE Look(n)
  <2>1. DiskT' /\ ReplT' /\ RestT'
    <3>1. disk' = disk \/ disk' = [disk EXCEPT ![n].hold = FALSE]
      BY <1>2 DEF Look
    <3>2. disk[n] \in LeadDisk  BY Parts
    <3>3. [disk[n] EXCEPT !.hold = FALSE] \in LeadDisk  BY <3>2 DEF LeadDisk
    <3>4. DiskT'  BY <1>0, <3>1, <3>3 DEF DiskT
    <3> QED BY <1>0, <1>2, <1>r, <3>4 DEF Look, ReplT
  <2>2. DbT' /\ ProcT'
    <3>1. CASE PassEnds(n)  BY <3>1, PassEndTyped
    <3>2. CASE /\ \E m \in Interims(n) :
                    proc' = [proc EXCEPT ![n].rec = "quiesce", ![n].with = m,
                                         ![n].term = db[m].me.term]
               /\ UNCHANGED <<db, disk>>
      <4>1. PICK m \in Interims(n) :
               proc' = [proc EXCEPT ![n].rec = "quiesce", ![n].with = m,
                                    ![n].term = db[m].me.term]
        BY <3>2
      <4>2. m \in Nodes /\ db[m].me.term \in Nat  BY Parts DEF Interims
      <4>3. ProcT'
        <5> DEFINE p1 == [proc[n] EXCEPT !.rec = "quiesce"]
                   p2 == [p1 EXCEPT !.with = m]
                   p3 == [p2 EXCEPT !.term = db[m].me.term]
        <5>1. p1 \in LeadProc  BY Parts, ProcField DEF Recs
        <5>2. p2 \in LeadProc  BY <4>2, <5>1, ProcField
        <5>3. p3 \in LeadProc  BY <4>2, <5>2, ProcField
        <5>4. proc' = [proc EXCEPT ![n] = [@ EXCEPT !.rec = "quiesce", !.with = m,
                                                    !.term = db[m].me.term]]
          BY Zenon, <4>1
        <5>5. proc' = [proc EXCEPT ![n] = p3]  BY <5>4
        <5> HIDE DEF p3
        <5> QED BY <1>0, <5>3, <5>5, OneProc
      <4> QED BY <1>0, <3>2, <4>3 DEF DbT
    <3> QED BY <1>2, <3>1, <3>2 DEF Look
  <2> QED BY <2>1, <2>2 DEF TInv
<1>3. CASE failover_quiesce(n)
  <2> DEFINE m == proc[n].with
  <2>1. DbT'
    <3>1. \/ db' = db \/ db' = [db EXCEPT ![m].ro = TRUE]
          \/ db' = [db EXCEPT ![m].ro = Managed, ![m].me.fenced = TRUE]
      BY <1>3 DEF failover_quiesce
    <3> QED BY Zenon, <1>0, <3>1, WritesTyped DEF DbT
  <2>2. ProcT'
    <3>1. \E l \in Recs : \/ proc' = [proc EXCEPT ![n].rec = l]
                          \/ proc' = [proc EXCEPT ![n].rec = l, ![m].timer = TRUE]
      BY Zenon, <1>3 DEF failover_quiesce, Rec, Recs
    <3>2. PICK l \in Recs : \/ proc' = [proc EXCEPT ![n].rec = l]
                             \/ proc' = [[proc EXCEPT ![n].rec = l] EXCEPT ![m].timer = TRUE]
      BY <3>1
    <3>3. [proc EXCEPT ![n].rec = l] \in [Nodes -> LeadProc]
      BY <1>0, ProcField DEF ProcT
    <3> DEFINE half == [proc EXCEPT ![n].rec = l]
    <3>4. [half[m] EXCEPT !.timer = TRUE] \in LeadProc
      BY <1>0, <3>3, ProcField
    <3>5. proc' = half \/ proc' = [half EXCEPT ![m] = [half[m] EXCEPT !.timer = TRUE]]
      BY <3>2
    <3> HIDE DEF half
    <3> QED BY <3>3, <3>4, <3>5 DEF ProcT, half
  <2>3. copied' \subseteq [from : Nodes, reopened : BOOLEAN]
    <3>1. copied' = copied \/ copied' = {[from |-> m, reopened |-> FALSE]}
      BY <1>3 DEF failover_quiesce
    <3>2. [from |-> m, reopened |-> FALSE] \in [from : Nodes, reopened : BOOLEAN]
      BY <1>0
    <3> QED BY <1>c, <3>1, <3>2
  <2>4. troubles' \in 0..MaxTroubles
    <3>1. troubles' = troubles \/ Trouble  BY <1>3 DEF failover_quiesce
    <3> QED BY <1>c, <1>t, <3>1
  <2>5. DiskT' /\ ReplT'  BY <1>0, <1>3 DEF failover_quiesce, DiskT, ReplT
  <2>6. RestT'  BY <1>0, <1>3, <2>3, <2>4 DEF failover_quiesce, RestT
  <2> QED BY <2>1, <2>2, <2>5, <2>6 DEF TInv
<1>4. CASE Stage(n)
  <2>1. DiskT'
    <3>1. disk' = disk \/ disk' = [disk EXCEPT ![n].armed = {db[proc[n].with]}]
      BY <1>4 DEF Stage
    <3> QED BY <1>0, <3>1, Parts, ArmedTyped DEF DiskT
  <2>2. ProcT'  BY <1>0, <1>4, OneRec DEF Stage, Recs
  <2>3. troubles' \in 0..MaxTroubles
    <3>1. troubles' = troubles \/ Trouble  BY <1>4 DEF Stage
    <3> QED BY <1>c, <1>t, <3>1
  <2>4. RestT'  BY <1>0, <1>4, <2>3 DEF Stage, RestT
  <2> QED BY <1>0, <1>4, <2>1, <2>2, <2>4 DEF Stage, TInv, DbT, ReplT
<1>5. CASE failover_resume(n)
  <2>1. DbT'
    <3>1. db' = db \/ db' = [db EXCEPT ![proc[n].with].ro = FALSE,
                                       ![proc[n].with].me.fenced = FALSE]
      BY <1>5 DEF failover_resume
    <3> QED BY Zenon, <1>0, <3>1, WritesTyped DEF DbT
  <2>2. ProcT'  BY <1>0, <1>5, OneRec DEF failover_resume, Recs
  <2>3. copied' \subseteq [from : Nodes, reopened : BOOLEAN]
    <3>1. copied' = copied \/ Reopened(proc[n].with)  BY <1>5 DEF failover_resume
    <3> QED BY <1>0, <1>c, <3>1, ReopenedTyped
  <2>4. RestT'  BY <1>0, <1>5, <2>3, Quiet DEF failover_resume
  <2> QED BY <1>0, <1>5, <2>1, <2>2, <2>4 DEF failover_resume, TInv, DiskT, ReplT
<1>6. CASE FetchDump(n)
  <2> DEFINE m == proc[n].with
  <2>1. DiskT'
    <3>1. \/ disk' = disk
          \/ disk' = [disk EXCEPT ![n].pending = {dump(m)}, ![m].snap = {dump(m)}]
          \/ disk' = [disk EXCEPT ![n].pending = disk[m].snap, ![m].snap = @]
      BY <1>6 DEF FetchDump
    <3>2. dump(m) \in LeadDump /\ disk[m].snap \subseteq LeadDump
      BY <1>0, Parts DEF DiskT, LeadDisk
    <3> QED BY <1>0, <3>1, <3>2 DEF DiskT, LeadDisk
  <2>2. DbT' /\ ProcT'
    <3>1. PassEnds(n) \/ (Rec(n, "fence") /\ UNCHANGED db)
      BY <1>6 DEF FetchDump
    <3> QED BY <1>0, <3>1, PassEndTyped, OneRec DEF Recs, DbT
  <2>3. copied' \subseteq [from : Nodes, reopened : BOOLEAN]
    <3>1. copied' = copied \/ copied' = {}  BY <1>6 DEF FetchDump
    <3> QED BY <1>c, <3>1
  <2>4. RestT'  BY <1>0, <1>6, <2>3, Quiet DEF FetchDump
  <2> QED BY <1>0, <1>6, <2>1, <2>2, <2>4 DEF FetchDump, TInv, ReplT
<1>7. CASE FenceWrites(n)
  <2> DEFINE m == proc[n].with
  <2>1. DbT'
    <3>1. CASE SetMe(n, [db[n].me EXCEPT !.fenced = TRUE, !.role = "leader", !.acting = FALSE,
                                         !.term = Larger(@, proc[n].term)])
      <4>1. Larger(db[n].me.term, proc[n].term) \in Nat
        BY Parts DEF Larger
      <4>2. [db[n].me EXCEPT !.fenced = TRUE, !.role = "leader", !.acting = FALSE,
                             !.term = Larger(@, proc[n].term)] \in LeadIdent
        BY <4>1, Parts, FencedOff
      <4> QED BY <1>0, <3>1, <4>2, OneMe
    <3> DEFINE lifted == [db EXCEPT ![n].me.fenced = FALSE]
    <3>2. CASE db' = lifted \/ db' = [lifted EXCEPT ![m].ro = FALSE, ![m].me.fenced = FALSE]
      <4>1. lifted \in [Nodes -> LeadDb]
        <5>1. [db[n].me EXCEPT !.fenced = FALSE] \in LeadIdent  BY Parts, ReFenced
        <5> QED BY <1>0, <5>1 DEF DbT, LeadDb
      <4> HIDE DEF lifted
      <4> QED BY <1>0, <3>2, <4>1, ReopenTyped DEF DbT
    <3> QED BY <1>7, <3>1, <3>2 DEF FenceWrites
  <2>2. ProcT'
    <3>1. Rec(n, "flag") \/ proc' = [proc EXCEPT ![n] = PassOver(@)]  BY <1>7 DEF FenceWrites
    <3> QED BY <1>0, <3>1, OneRec, PassTyped DEF Recs
  <2>3. copied' \subseteq [from : Nodes, reopened : BOOLEAN]
    <3>1. copied' = copied \/ Reopened(m)  BY <1>7 DEF FenceWrites
    <3> QED BY <1>0, <1>c, <3>1, ReopenedTyped
  <2>4. troubles' \in 0..MaxTroubles /\ torn' \in BOOLEAN
    <3>1. (troubles' = troubles /\ torn' = torn) \/ (Trouble /\ torn' = TRUE)
      BY <1>7 DEF FenceWrites
    <3>2. troubles' \in 0..MaxTroubles  BY <1>c, <1>t, <3>1
    <3>3. torn \in BOOLEAN  BY <1>0 DEF RestT
    <3> QED BY <3>1, <3>2, <3>3
  <2>5. RestT'  BY <1>0, <1>7, <2>3, <2>4 DEF FenceWrites, RestT
  <2> QED BY <1>0, <1>7, <2>1, <2>2, <2>5 DEF FenceWrites, TInv, DiskT, ReplT
<1>8. CASE WriteReclaim(n)
  <2>1. DiskT'
    <3>1. [db[n].me EXCEPT !.fenced = FALSE] \in LeadIdent  BY Parts, ReFenced
    <3> QED BY <1>0, <1>8, <3>1, FileIdent DEF WriteReclaim
  <2>2. ProcT'  BY <1>0, <1>8, OneRec DEF WriteReclaim, Recs
  <2> QED BY <1>0, <1>8, <1>r, <2>1, <2>2 DEF WriteReclaim, TInv, DbT, ReplT
<1>9. CASE Demote(n)
  <2> DEFINE m == proc[n].with
             me == [db[m].me EXCEPT !.url = n, !.role = "worker", !.acting = FALSE,
                                    !.fenced = FALSE]
  <2>1. me \in LeadIdent  BY <1>0, Parts, Demoted
  <2>2. \/ SetMe(m, me) /\ disk' = [disk EXCEPT ![m].ident = {me}]
        \/ UNCHANGED <<db, disk>>
    BY <1>9 DEF Demote
  <2>3. ProcT'
    <3>1. \/ proc' = [proc EXCEPT ![n] = Off("down")]
          \/ proc' = [[proc EXCEPT ![n] = Off("down")] EXCEPT ![m].pc = "leaving"]
      BY <1>9 DEF Demote
    <3>2. [proc EXCEPT ![n] = Off("down")] \in [Nodes -> LeadProc]
      BY <1>0, OffTyped DEF ProcT, PCs
    <3> QED BY <1>0, <3>1, <3>2 DEF ProcT, LeadProc, PCs
  <2> HIDE DEF me
  <2>4. DbT'  BY <1>0, <2>1, <2>2, OneMe DEF DbT
  <2>5. DiskT'  BY <1>0, <2>1, <2>2, FileIdent DEF DiskT
  <2>6. RestT' /\ ReplT'  BY <1>0, <1>9, <1>r DEF Demote, ReplT
  <2> QED BY <2>3, <2>4, <2>5, <2>6 DEF TInv
<1> QED BY <1>1, <1>2, <1>3, <1>4, <1>5, <1>6, <1>7, <1>8, <1>9 DEF ReclaimStep

LEMMA TLeader ==
    ASSUME TInv, NEW n \in Nodes, LeaderStep(n) \/ Write(n) \/ ReopenWrites(n)
    PROVE  TInv'
<1> USE DEF outside, ledger
<1>0. DbT /\ DiskT /\ ReplT /\ ProcT /\ RestT  BY DEF TInv
<1>r. UNCHANGED <<outside, ledger>> => RestT'  BY <1>0, Unmoved
<1>c. /\ copied \subseteq [from : Nodes, reopened : BOOLEAN]
      /\ written \in 0..MaxWrites /\ troubles \in 0..MaxTroubles
  BY <1>0 DEF RestT
<1>1. CASE Leave(n)
  <2>1. ProcT'  BY <1>0, <1>1, OneOff DEF Leave
  <2> QED BY <1>0, <1>1, <1>r, <2>1 DEF Leave, TInv, DbT, DiskT, ReplT
<1>2. CASE QuiesceExpires(n)
  <2>1. DbT'
    <3>1. db' = db \/ db' = [db EXCEPT ![n].ro = FALSE, ![n].me.fenced = FALSE]
      BY <1>2 DEF QuiesceExpires
    <3> QED BY <1>0, <3>1, WritesTyped DEF DbT
  <2>2. ProcT'
    <3>1. [proc[n] EXCEPT !.timer = FALSE] \in LeadProc  BY Parts, ProcField
    <3> QED BY <1>0, <1>2, <3>1, OneProc DEF QuiesceExpires
  <2>3. copied' \subseteq [from : Nodes, reopened : BOOLEAN]
    <3>1. copied' = copied \/ Reopened(n)  BY <1>2 DEF QuiesceExpires
    <3> QED BY <1>c, <3>1, ReopenedTyped
  <2>4. RestT'  BY <1>0, <1>2, <2>3, Quiet DEF QuiesceExpires
  <2> QED BY <1>0, <1>2, <2>1, <2>2, <2>4 DEF QuiesceExpires, TInv, DiskT, ReplT
<1>3. CASE Confirm(n)
  <2>1. DiskT'
    <3>1. \/ disk' = disk \/ disk' = [disk EXCEPT ![n].snap = {dump(n)}]
          \/ \E m \in Nodes : disk' = [disk EXCEPT ![n].snap = {dump(n)}, ![m].snap = {dump(n)}]
      BY <1>3, Numbers DEF Confirm
    <3>2. dump(n) \in LeadDump  BY Parts
    <3> HIDE DEF dump
    <3>3. CASE disk' = disk \/ disk' = [disk EXCEPT ![n].snap = {dump(n)}]
      BY <1>0, <3>2, <3>3 DEF DiskT, LeadDisk
    <3>4. CASE \E m \in Nodes : disk' = [disk EXCEPT ![n].snap = {dump(n)}, ![m].snap = {dump(n)}]
      <4>1. PICK m \in Nodes :
               disk' = [[disk EXCEPT ![n].snap = {dump(n)}] EXCEPT ![m].snap = {dump(n)}]
        BY <3>4
      <4>2. [disk EXCEPT ![n].snap = {dump(n)}] \in [Nodes -> LeadDisk]
        BY <1>0, <3>2 DEF DiskT, LeadDisk
      <4> DEFINE half == [disk EXCEPT ![n].snap = {dump(n)}]
      <4>3. half \in [Nodes -> LeadDisk] /\ disk' = [half EXCEPT ![m].snap = {dump(n)}]
        BY <4>1, <4>2
      <4> HIDE DEF half
      <4> QED BY <3>2, <4>3 DEF DiskT, LeadDisk
    <3> QED BY <3>1, <3>3, <3>4
  <2>2. ProcT'  BY <1>0, <1>3 DEF Confirm, ProcT, LeadProc
  <2> QED BY <1>0, <1>3, <1>r, <2>1, <2>2 DEF Confirm, TInv, DbT, ReplT
<1>4. CASE Snapshot(n)
  <2>1. dump(n) \in LeadDump  BY Parts
  <2>2. DiskT'  BY <1>0, <1>4, <2>1 DEF Snapshot, DiskT, LeadDisk
  <2> QED BY <1>0, <1>4, <1>r, <2>2 DEF Snapshot, TInv, DbT, ProcT, ReplT
<1>5. CASE Write(n)
  <2>1. written' \in Writes /\ written' \in 0..MaxWrites
    BY <1>5, <1>c, Numbers DEF Write, Writes
  <2>2. DbT'
    <3>1. db[n] \in LeadDb  BY Parts
    <3>2. [db[n] EXCEPT !.data = @ \cup {written'}] \in LeadDb  BY <2>1, <3>1 DEF LeadDb
    <3> QED BY <1>0, <1>5, <3>2, OneDb DEF Write
  <2>3. ProcT'  BY <1>0, <1>5, <2>1 DEF Write, ProcT, LeadProc
  <2>4. RestT'  BY <1>0, <1>5, <2>1 DEF Write, RestT
  <2> QED BY <1>0, <1>5, <2>2, <2>3, <2>4 DEF Write, TInv, DiskT, ReplT
<1>6. CASE ReopenWrites(n)
  <2>1. DbT'  BY <1>0, <1>6, WritesTyped DEF ReopenWrites
  <2>2. DiskT'
    <3>1. disk[n] \in LeadDisk  BY Parts
    <3>2. [disk[n] EXCEPT !.hold = TRUE] \in LeadDisk  BY <3>1 DEF LeadDisk
    <3> QED BY <1>0, <1>6, <3>2, OneDisk DEF ReopenWrites
  <2>3. troubles' \in 0..MaxTroubles
    BY <1>6, <1>c, Numbers DEF ReopenWrites, Trouble
  <2>4. copied' \subseteq [from : Nodes, reopened : BOOLEAN]
    BY <1>6, <1>c, ReopenedTyped DEF ReopenWrites
  <2>5. RestT'  BY <1>0, <1>6, <2>3, <2>4 DEF ReopenWrites, RestT
  <2> QED BY <1>0, <1>6, <2>1, <2>2, <2>5 DEF ReopenWrites, TInv, ProcT, ReplT
<1> QED BY <1>1, <1>2, <1>3, <1>4, <1>5, <1>6 DEF LeaderStep

LEMMA TFault ==
    ASSUME TInv, \/ \E n \in Nodes : Fault(n) \/ \E m \in Nodes : Cut(m, n)
                 \/ Heal
    PROVE  TInv'
<1> USE DEF outside, ledger
<1>0. DbT /\ DiskT /\ ReplT /\ ProcT /\ RestT  BY DEF TInv
<1>c. troubles \in 0..MaxTroubles /\ torn \in BOOLEAN
  BY <1>0 DEF RestT
<1>t. Trouble => troubles' \in 0..MaxTroubles
  BY <1>c, Numbers DEF Trouble
<1>1. ASSUME NEW n \in Nodes, Crash(n) \/ HostDown(n)  PROVE TInv'
  <2>0. Dies(n)  BY <1>1 DEF Crash, HostDown
  <2>1. ProcT'  BY <1>0, <2>0, OneOff DEF Dies
  <2>2. host' \in [Nodes -> BOOLEAN]
    <3>1. host \in [Nodes -> BOOLEAN]  BY <1>0 DEF RestT
    <3>2. host' = host \/ host' = [host EXCEPT ![n] = FALSE]  BY <1>1 DEF Crash, HostDown
    <3> QED BY <3>1, <3>2
  <2>3. torn' \in BOOLEAN /\ troubles' \in 0..MaxTroubles
    <3>1. torn' \in BOOLEAN  BY <2>0 DEF Dies
    <3>2. troubles' \in 0..MaxTroubles  BY <1>t, <2>0 DEF Dies
    <3> QED BY <3>1, <3>2
  <2>4. RestT'  BY <1>0, <2>0, <2>2, <2>3 DEF Dies, RestT
  <2> QED BY <1>0, <2>0, <2>1, <2>4 DEF Dies, TInv, DbT, DiskT, ReplT
<1>2. ASSUME NEW n \in Nodes, HostUp(n)  PROVE TInv'
  <2>1. host' \in [Nodes -> BOOLEAN]  BY <1>0, <1>2 DEF HostUp, RestT
  <2>2. RestT'  BY <1>0, <1>2, <2>1 DEF HostUp, RestT
  <2> QED BY <1>0, <1>2, <2>2 DEF HostUp, TInv, DbT, DiskT, ReplT, ProcT
<1>3. ASSUME NEW n \in Nodes, NEW m \in Nodes, Cut(m, n)  PROVE TInv'
  <2>1. cut' \subseteq {{x, y} : x \in Nodes, y \in Nodes}
    <3>1. cut \subseteq {{x, y} : x \in Nodes, y \in Nodes}  BY <1>0 DEF RestT
    <3>2. cut' = cut \cup {{m, n}}  BY <1>3 DEF Cut
    <3> QED BY <3>1, <3>2
  <2>2. troubles' \in 0..MaxTroubles  BY <1>t, <1>3 DEF Cut
  <2>3. RestT'  BY <1>0, <1>3, <2>1, <2>2 DEF Cut, RestT
  <2> QED BY <1>0, <1>3, <2>3 DEF Cut, TInv, DbT, DiskT, ReplT, ProcT
<1>4. CASE Heal
  <2>1. RestT'  BY <1>0, <1>4 DEF Heal, RestT
  <2> QED BY <1>0, <1>4, <2>1 DEF Heal, TInv, DbT, DiskT, ReplT, ProcT
<1> QED BY <1>1, <1>2, <1>3, <1>4 DEF Fault

LEMMA TNext == TInv /\ [Next]_vars => TInv'
<1> SUFFICES ASSUME TInv, [Next]_vars PROVE TInv'
  OBVIOUS
<1>1. CASE Next  BY <1>1, TBoot, TLoop, TCopy, TReclaim, TLeader, TFault DEF Next
<1>2. CASE UNCHANGED vars
  BY <1>2 DEF vars, outside, ledger, TInv, DbT, DiskT, ReplT, ProcT, RestT
<1> QED BY <1>1, <1>2

LEMMA Typed == Spec => []TInv
  BY TInit, TNext, PTL DEF Spec

LEMMA TTypes == TInv => TypeOK
<1> SUFFICES ASSUME TInv PROVE TypeOK
  OBVIOUS
<1>0. DbT /\ DiskT /\ ReplT /\ ProcT /\ RestT  BY DEF TInv
<1>1. LeadIdent \subseteq Ident  BY DEF LeadIdent
<1>2. LeadDb \subseteq Db /\ LeadDump \subseteq Dump  BY <1>1 DEF LeadDb, LeadDump, Db, Dump
<1>3. LeadDisk \subseteq Disk  BY <1>1, <1>2 DEF LeadDisk, Disk
<1>4. LeadProc \subseteq Proc  BY <1>2 DEF LeadProc, Proc
<1>5. db \in [Nodes -> Db]  BY <1>0, <1>2 DEF DbT
<1>6. disk \in [Nodes -> Disk]  BY <1>0, <1>3 DEF DiskT
<1>7. proc \in [Nodes -> Proc]  BY <1>0, <1>4 DEF ProcT
<1>8. \A n \in Nodes : \A r \in repl[n] : r.from \in Nodes /\ r.db \in Db
  BY <1>0, <1>2 DEF ReplT
<1>9. \A c \in copied : c.from \in Nodes /\ c.reopened \in BOOLEAN
  BY <1>0 DEF RestT
<1>10. /\ host \in [Nodes -> BOOLEAN] /\ cut \subseteq {{m, n} : m \in Nodes, n \in Nodes}
       /\ written \in 0..MaxWrites /\ torn \in BOOLEAN /\ troubles \in 0..MaxTroubles
  BY <1>0 DEF RestT
<1> QED BY <1>5, <1>6, <1>7, <1>8, <1>9, <1>10 DEF TypeOK

\* The identities, the copies of databases, the files beside them and what the processes
\* hold keep their shape, whatever replaces a database (ClusterIdentity, failover_flag_path).
THEOREM TypeCorrect == Spec => []TypeOK
  BY Typed, TTypes, PTL

-----------------------------------------------------------------------------
(* A fence is timed.                                                       *)

\* Whoever routes requests as the acting leader with its writes fenced has the delay
\* running; before that, the boot lifts a fence it finds.
Timed(n) ==
    proc[n].pc \in {"first", "lead", "leaving"} /\ Acting(n) /\ db[n].me.fenced
        => proc[n].timer
TimedInv == \A n \in Nodes : Timed(n)

LEMMA TimedInit == Init => TimedInv
  BY DEF Init, TimedInv, Timed, Acting

\* A node of which nothing that Timed speaks of changes.
LEMMA TimedKept ==
    ASSUME NEW n \in Nodes, Timed(n), UNCHANGED <<proc[n], db[n]>>
    PROVE  Timed(n)'
  BY DEF Timed, Acting

LEMMA TimedBoot == ASSUME TInv, TimedInv, NEW n \in Nodes, BootStep(n) PROVE TimedInv'
<1>0. DbT /\ ProcT  BY DEF TInv
<1>1. \A k \in Nodes \ {n} : proc'[k] = proc[k] /\ db'[k] = db[k]
  BY <1>0 DEF BootStep, Adopt, Takeover, Restore, apply_promote_flag, apply_reclaim_flag,
              release_orphan_fence, SetPc, SetMe, DbT, ProcT
<1>2. Timed(n)'
  <2>1. CASE proc'[n].pc \notin {"first", "lead", "leaving"}  BY <2>1 DEF Timed
  <2>2. CASE release_orphan_fence(n)
    <3>1. CASE db[n].me.fenced /\ Acting(n)
      <4>1. SetMe(n, [db[n].me EXCEPT !.fenced = FALSE])  BY <2>2, <3>1 DEF release_orphan_fence
      <4>2. db'[n].me.fenced = FALSE
        <5>1. /\ [db[n].me EXCEPT !.fenced = FALSE].fenced = FALSE
              /\ [db[n].me EXCEPT !.fenced = FALSE] \in LeadIdent
          BY Parts, ReFenced
        <5> QED BY <1>0, <4>1, <5>1, OneMe
      <4> QED BY <4>2 DEF Timed
    <3>2. CASE ~(db[n].me.fenced /\ Acting(n))
      BY <2>2, <3>2 DEF release_orphan_fence, Timed, Acting
    <3> QED BY <3>1, <3>2
  <2>3. CASE Adopt(n) \/ Takeover(n) \/ Restore(n) \/ apply_promote_flag(n) \/ apply_reclaim_flag(n)
    <3>1. proc'[n].pc \in {"takeover", "restore", "down", "promote", "reclaim", "orphan"}
      <4>1. \E l \in {"takeover", "restore", "down", "promote", "reclaim", "orphan"} : SetPc(n, l)
        BY <2>3 DEF Adopt, Takeover, Restore, apply_promote_flag, apply_reclaim_flag
      <4> QED BY <1>0, <4>1 DEF SetPc, ProcT, LeadProc
    <3> QED BY <2>1, <3>1
  <2> QED BY <2>2, <2>3 DEF BootStep
<1> QED BY <1>1, <1>2, TimedKept DEF TimedInv

\* What keeps Timed at a node: it does not come to route requests, and its identity keeps
\* both flags; or it is not fenced any more, or does not act; or the delay starts.
LEMMA TimedStays ==
    ASSUME NEW n \in Nodes, Timed(n),
           proc'[n].pc \in {"first", "lead", "leaving"} => proc[n].pc \in {"first", "lead", "leaving"},
           proc'[n].timer = proc[n].timer,
           db'[n].me.acting = db[n].me.acting, db'[n].me.fenced = db[n].me.fenced
    PROVE  Timed(n)'
  BY DEF Timed, Acting

LEMMA TimedOff ==
    ASSUME NEW n \in Nodes,
           \/ proc'[n].pc \notin {"first", "lead", "leaving"} \/ proc'[n].timer = TRUE
           \/ db'[n].me.acting = FALSE \/ db'[n].me.fenced = FALSE
    PROVE  Timed(n)'
  BY DEF Timed, Acting

\* What one node's new process or identity leaves of the others.
LEMMA MeAt ==
    ASSUME DbT, NEW n \in Nodes, NEW x, SetMe(n, x)
    PROVE  /\ db'[n].me = x /\ db'[n].data = db[n].data /\ db'[n].ro = db[n].ro
           /\ \A k \in Nodes \ {n} : db'[k] = db[k]
  BY DEF SetMe, DbT, LeadDb
LEMMA PcAt ==
    ASSUME ProcT, NEW n \in Nodes, NEW l, SetPc(n, l)
    PROVE  /\ proc'[n].pc = l /\ proc'[n].timer = proc[n].timer /\ proc'[n].rec = proc[n].rec
           /\ proc'[n].elect = proc[n].elect /\ proc'[n].with = proc[n].with
           /\ proc'[n].term = proc[n].term
           /\ \A k \in Nodes \ {n} : proc'[k] = proc[k]
  BY DEF SetPc, ProcT, LeadProc
LEMMA RecAt ==
    ASSUME ProcT, NEW n \in Nodes, NEW l, Rec(n, l)
    PROVE  /\ proc'[n].rec = l /\ proc'[n].timer = proc[n].timer /\ proc'[n].pc = proc[n].pc
           /\ proc'[n].elect = proc[n].elect /\ proc'[n].with = proc[n].with
           /\ proc'[n].term = proc[n].term
           /\ \A k \in Nodes \ {n} : proc'[k] = proc[k]
  BY DEF Rec, ProcT, LeadProc
LEMMA OffAt ==
    ASSUME ProcT, NEW n \in Nodes, proc' = [proc EXCEPT ![n] = Off("down")]
    PROVE  /\ proc'[n] = Off("down") /\ proc'[n].pc = "down" /\ proc'[n].rec = "idle"
           /\ proc'[n].elect = "no"
           /\ \A k \in Nodes \ {n} : proc'[k] = proc[k]
  BY DEF ProcT, Off
LEMMA PassAt ==
    ASSUME ProcT, NEW n \in Nodes, proc' = [proc EXCEPT ![n] = PassOver(@)]
    PROVE  /\ proc'[n].pc = "lead" /\ proc'[n].rec = "idle" /\ proc'[n].timer = proc[n].timer
           /\ proc'[n].elect = proc[n].elect
           /\ \A k \in Nodes \ {n} : proc'[k] = proc[k]
  BY DEF ProcT, LeadProc, PassOver
LEMMA PassEndAt ==
    ASSUME TInv, NEW n \in Nodes, PassEnds(n)
    PROVE  /\ proc'[n].pc = "lead" /\ proc'[n].rec = "idle"
           /\ proc'[n].elect = proc[n].elect
           /\ db'[n].me = [db[n].me EXCEPT !.fenced = FALSE] /\ db'[n].me.fenced = FALSE
           /\ db'[n].data = db[n].data /\ db'[n].ro = db[n].ro
           /\ \A k \in Nodes \ {n} : proc'[k] = proc[k] /\ db'[k] = db[k]
<1>1. SetMe(n, [db[n].me EXCEPT !.fenced = FALSE]) /\ DbT /\ ProcT
  BY DEF PassEnds, TInv
<1>2. [db[n].me EXCEPT !.fenced = FALSE].fenced = FALSE  BY Parts, ReFenced
<1> QED BY <1>1, <1>2, MeAt, PassAt DEF PassEnds
\* Writes are stopped or reopened at m: its identity keeps the rest, the others all.
LEMMA WritesAt ==
    ASSUME DbT, NEW m \in Nodes, NEW r \in BOOLEAN, NEW f \in BOOLEAN,
           db' = [db EXCEPT ![m].ro = r, ![m].me.fenced = f]
    PROVE  /\ db'[m].me = [db[m].me EXCEPT !.fenced = f] /\ db'[m].me.fenced = f
           /\ db'[m].data = db[m].data /\ db'[m].ro = r
           /\ \A k \in Nodes \ {m} : db'[k] = db[k]
<1>1. db[m].me \in LeadIdent  BY DEF DbT, LeadDb
<1>2. [db[m].me EXCEPT !.fenced = f].fenced = f  BY <1>1, ReFenced
<1> QED BY <1>2 DEF DbT, LeadDb

LEMMA StopAt ==
    ASSUME DbT, NEW m \in Nodes,
           db' = [db EXCEPT ![m].ro = FALSE, ![m].me.acting = FALSE, ![m].me.fenced = FALSE]
    PROVE  /\ db'[m].me = [[db[m].me EXCEPT !.acting = FALSE] EXCEPT !.fenced = FALSE]
           /\ db'[m].me.fenced = FALSE
           /\ db'[m].data = db[m].data /\ db'[m].ro = FALSE
           /\ \A k \in Nodes \ {m} : db'[k] = db[k]
<1>1. db[m].me \in LeadIdent  BY DEF DbT, LeadDb
<1>2. [[db[m].me EXCEPT !.acting = FALSE] EXCEPT !.fenced = FALSE].fenced = FALSE
  BY <1>1, Stopped
<1> QED BY <1>2 DEF DbT, LeadDb
LEMMA LiftAt ==
    ASSUME NEW f \in [Nodes -> LeadDb], NEW m \in Nodes,
           db' = f \/ db' = [f EXCEPT ![m].ro = FALSE, ![m].me.fenced = FALSE]
    PROVE  /\ \A k \in Nodes \ {m} : db'[k] = f[k]
           /\ \A k \in Nodes : db'[k].me = f[k].me \/ db'[k].me = [f[k].me EXCEPT !.fenced = FALSE]
           /\ \A k \in Nodes : db'[k].data = f[k].data
           /\ \A k \in Nodes : db'[k].me.fenced = FALSE \/ db'[k].me = f[k].me
           /\ \A k \in Nodes : f[k].me.fenced = FALSE => db'[k].me.fenced = FALSE
<1>1. \A k \in Nodes : f[k] \in LeadDb /\ f[k].me \in LeadIdent  BY DEF LeadDb
<1>2. \A k \in Nodes : [f[k].me EXCEPT !.fenced = FALSE].fenced = FALSE  BY <1>1, ReFenced
<1> QED BY <1>1, <1>2 DEF LeadDb

LEMMA TimedLoop == ASSUME TInv, TimedInv, NEW n \in Nodes, LoopStep(n) PROVE TimedInv'
<1>0. DbT /\ ProcT  BY DEF TInv
<1>1. CASE Heartbeat(n)
  <2> DEFINE t == Larger(db[n].me.term, db[db[n].me.url].me.term)
  <2>1. t \in Nat  BY Parts DEF Larger
  <2>2. SetMe(n, [db[n].me EXCEPT !.term = t]) /\ proc' = [proc EXCEPT ![n].fail = 0]
    BY <1>1 DEF Heartbeat
  <2> HIDE DEF t
  <2>3. /\ db'[n].me.acting = db[n].me.acting /\ db'[n].me.fenced = db[n].me.fenced
        /\ \A k \in Nodes \ {n} : db'[k] = db[k]
    <3>1. /\ [db[n].me EXCEPT !.term = t].acting = db[n].me.acting
          /\ [db[n].me EXCEPT !.term = t].fenced = db[n].me.fenced
      BY <2>1, Parts, ReTermed
    <3> QED BY <1>0, <2>2, <3>1, MeAt
  <2>4. /\ \A k \in Nodes \ {n} : proc'[k] = proc[k]
        /\ proc'[n].pc = proc[n].pc /\ proc'[n].timer = proc[n].timer
    BY <1>0, <2>2 DEF ProcT, LeadProc
  <2>5. Timed(n)'  BY <2>3, <2>4, TimedStays DEF TimedInv
  <2> QED BY <2>3, <2>4, <2>5, TimedKept DEF TimedInv
<1>2. CASE Miss(n)
  <2>1. /\ \A k \in Nodes \ {n} : proc'[k] = proc[k]
        /\ proc'[n].pc = "work"
    BY <1>0, <1>2 DEF Miss, ProcT, LeadProc
  <2>2. \A k \in Nodes \ {n} : db'[k] = db[k]
    BY <1>0, <1>2, MeAt DEF Miss
  <2>3. Timed(n)'  BY <2>1, TimedOff
  <2> QED BY <2>1, <2>2, <2>3, TimedKept DEF TimedInv
<1>3. CASE try_elect(n)
  <2>0. /\ proc[n].pc = "work"
        /\ \/ proc' = [proc EXCEPT ![n].fail = 0]
           \/ \E l \in {"standby", "pending"} : proc' = [proc EXCEPT ![n].fail = 0, ![n].elect = l]
    BY <1>3 DEF try_elect
  <2>1. /\ \A k \in Nodes \ {n} : proc'[k] = proc[k]
        /\ proc'[n].pc = "work"
    BY <1>0, <2>0 DEF ProcT, LeadProc
  <2>2. \A k \in Nodes \ {n} : db'[k] = db[k]
    BY <1>0, <1>3, MeAt DEF try_elect
  <2>3. Timed(n)'  BY <2>1, TimedOff
  <2> QED BY <2>1, <2>2, <2>3, TimedKept DEF TimedInv
<1>4. CASE ElectPending(n)
  <2>1. /\ \A k \in Nodes \ {n} : proc'[k] = proc[k]
        /\ proc'[n].pc = proc[n].pc /\ proc'[n].timer = proc[n].timer
        /\ db' = db
    BY <1>0, <1>4 DEF ElectPending, ProcT, LeadProc
  <2>2. Timed(n)'  BY <2>1, TimedStays DEF TimedInv
  <2> QED BY <2>1, <2>2, TimedKept DEF TimedInv
<1>5. CASE ElectFlag(n)
  <2>1. /\ \A k \in Nodes \ {n} : proc'[k] = proc[k]
        /\ proc'[n].pc = "down" /\ db' = db
    BY <1>0, <1>5, OffAt DEF ElectFlag
  <2>2. Timed(n)'  BY <2>1, TimedOff
  <2> QED BY <2>1, <2>2, TimedKept DEF TimedInv
<1> QED BY <1>1, <1>2, <1>3, <1>4, <1>5 DEF LoopStep

LEMMA TimedCopy == ASSUME TInv, TimedInv, NEW n \in Nodes, CopyStep(n) PROVE TimedInv'
<1>0. ProcT  BY DEF TInv
<1>1. \A k \in Nodes : /\ proc'[k].pc = proc[k].pc /\ proc'[k].timer = proc[k].timer
                       /\ db'[k] = db[k]
  BY <1>0 DEF CopyStep, BaseBackup, Replay, FetchSnapshot, StoreSnapshot, ProcT, LeadProc
<1>2. \A k \in Nodes : Timed(k)'  BY <1>1, TimedStays DEF TimedInv
<1> QED BY <1>2 DEF TimedInv

LEMMA TimedReclaim == ASSUME TInv, TimedInv, NEW n \in Nodes, ReclaimStep(n) PROVE TimedInv'
<1>0. DbT /\ ProcT /\ proc[n].with \in Nodes  BY Parts DEF TInv
<1>1. CASE SkipReclaim(n)
  <2>1. db' = db /\ proc[n].pc = "first" /\ SetPc(n, "lead")  BY <1>1 DEF SkipReclaim
  <2>2. Timed(n)'  BY <1>0, <2>1, PcAt, TimedStays DEF TimedInv
  <2> QED BY <1>0, <2>1, <2>2, PcAt, TimedKept DEF TimedInv
<1>2. ASSUME PassEnds(n)  PROVE TimedInv'
  <2>1. /\ db'[n].me.fenced = FALSE
        /\ \A k \in Nodes \ {n} : proc'[k] = proc[k] /\ db'[k] = db[k]
    BY <1>2, PassEndAt
  <2>2. Timed(n)'  BY <2>1, TimedOff
  <2> QED BY <2>1, <2>2, TimedKept DEF TimedInv
<1>3. ASSUME NEW l \in Recs, Rec(n, l), db' = db  PROVE TimedInv'
  <2>1. Timed(n)'  BY <1>0, <1>3, RecAt, TimedStays DEF TimedInv
  <2> QED BY <1>0, <1>3, <2>1, RecAt, TimedKept DEF TimedInv
<1>4. CASE Look(n)
  <2>1. CASE ~PassEnds(n)
    <3>1. db' = db /\ \E m \in Interims(n) :
             proc' = [proc EXCEPT ![n].rec = "quiesce", ![n].with = m, ![n].term = db[m].me.term]
      BY <1>4, <2>1 DEF Look
    <3>2. /\ proc'[n].pc = proc[n].pc /\ proc'[n].timer = proc[n].timer
          /\ \A k \in Nodes \ {n} : proc'[k] = proc[k]
      BY <1>0, <3>1 DEF ProcT, LeadProc
    <3>3. Timed(n)'  BY <3>1, <3>2, TimedStays DEF TimedInv
    <3> QED BY <3>1, <3>2, <3>3, TimedKept DEF TimedInv
  <2> QED BY <1>2, <2>1
<1>5. CASE failover_quiesce(n)
  <2>0. PICK m \in Nodes : m = proc[n].with  BY <1>0
  <2>1. CASE db' = [db EXCEPT ![m].ro = TRUE] /\ Rec(n, "dump")
    <3>1. \A k \in Nodes : db'[k].me = db[k].me  BY <1>0, <2>1 DEF DbT, LeadDb
    <3>2. \A k \in Nodes : proc'[k].pc = proc[k].pc /\ proc'[k].timer = proc[k].timer
      BY <1>0, <2>1, RecAt
    <3>3. \A k \in Nodes : Timed(k)'  BY <3>1, <3>2, TimedStays DEF TimedInv
    <3> QED BY <3>3 DEF TimedInv
  <2>2. CASE /\ db' = [db EXCEPT ![m].ro = Managed, ![m].me.fenced = TRUE]
             /\ \E l \in Recs : proc' = [proc EXCEPT ![n].rec = l, ![m].timer = TRUE]
    <3>1. \A k \in Nodes \ {m} : db'[k] = db[k]
      BY <1>0, <2>2, WritesAt, Numbers
    <3>2. PICK l \in Recs : proc' = [[proc EXCEPT ![n].rec = l] EXCEPT ![m].timer = TRUE]
      BY <2>2
    <3>3. /\ proc'[m].timer = TRUE
          /\ \A k \in Nodes \ {m} : proc'[k].pc = proc[k].pc /\ proc'[k].timer = proc[k].timer
      BY <1>0, <3>2 DEF ProcT, LeadProc
    <3>4. Timed(m)'  BY <1>0, <3>3, TimedOff
    <3>5. \A k \in Nodes \ {m} : Timed(k)'  BY <3>1, <3>3, TimedStays DEF TimedInv
    <3> QED BY <3>4, <3>5 DEF TimedInv
  <2> QED BY Zenon, <1>3, <1>5, <2>0, <2>1, <2>2 DEF failover_quiesce, Recs
<1>6. CASE Stage(n)  BY <1>3, <1>6 DEF Stage, Recs
<1>7. CASE failover_resume(n)
  <2>0. PICK m \in Nodes : m = proc[n].with  BY <1>0
  <2>1. CASE db' = [db EXCEPT ![m].ro = FALSE, ![m].me.fenced = FALSE] /\ Rec(n, "dump")
    <3>1. db'[m].me.fenced = FALSE /\ \A k \in Nodes \ {m} : db'[k] = db[k]
      BY <1>0, <2>1, WritesAt
    <3>2. \A k \in Nodes : proc'[k].pc = proc[k].pc /\ proc'[k].timer = proc[k].timer
      BY <1>0, <2>1, RecAt
    <3>3. \A k \in Nodes \ {m} : Timed(k)'  BY <3>1, <3>2, TimedStays DEF TimedInv
    <3>4. Timed(m)'  BY <1>0, <3>1, TimedOff
    <3> QED BY <3>3, <3>4 DEF TimedInv
  <2> QED BY <1>3, <1>7, <2>0, <2>1 DEF failover_resume, Recs
<1>8. CASE FetchDump(n)  BY <1>2, <1>3, <1>8 DEF FetchDump, Recs
<1>9. CASE FenceWrites(n)
  <2>0. PICK m \in Nodes : m = proc[n].with  BY <1>0
  <2> DEFINE t == Larger(db[n].me.term, proc[n].term)
             lifted == [db EXCEPT ![n].me.fenced = FALSE]
  <2>1. CASE /\ SetMe(n, [db[n].me EXCEPT !.fenced = TRUE, !.role = "leader", !.acting = FALSE,
                                          !.term = t])
             /\ Rec(n, "flag")
    <3>1. t \in Nat  BY Parts DEF Larger
    <3> HIDE DEF t
    <3>2. db'[n].me.acting = FALSE /\ \A k \in Nodes \ {n} : db'[k] = db[k]
      <4>1. [db[n].me EXCEPT !.fenced = TRUE, !.role = "leader", !.acting = FALSE,
                             !.term = t].acting = FALSE
        BY <3>1, Parts, FencedOff
      <4> QED BY <1>0, <2>1, <4>1, MeAt
    <3>3. \A k \in Nodes \ {n} : proc'[k] = proc[k]  BY <1>0, <2>1, RecAt
    <3>4. Timed(n)'  BY <3>2, TimedOff
    <3> QED BY <3>2, <3>3, <3>4, TimedKept DEF TimedInv
  <2>2. CASE /\ db' = lifted \/ db' = [lifted EXCEPT ![m].ro = FALSE, ![m].me.fenced = FALSE]
             /\ proc' = [proc EXCEPT ![n] = PassOver(@)]
    <3>2. /\ lifted \in [Nodes -> LeadDb] /\ lifted[n].me.fenced = FALSE
          /\ \A k \in Nodes \ {n} : lifted[k] = db[k]
      <4>1. /\ [db[n].me EXCEPT !.fenced = FALSE] \in LeadIdent
            /\ [db[n].me EXCEPT !.fenced = FALSE].fenced = FALSE
        BY Parts, ReFenced
      <4> QED BY <1>0, <4>1 DEF DbT, LeadDb
    <3> HIDE DEF lifted
    <3>3. /\ \A k \in Nodes : db'[k].me.fenced = FALSE \/ db'[k].me = lifted[k].me
          /\ \A k \in Nodes : lifted[k].me.fenced = FALSE => db'[k].me.fenced = FALSE
      BY <2>2, <3>2, LiftAt
    <3>4. db'[n].me.fenced = FALSE
      BY <3>2, <3>3
    <3>5. Timed(n)'  BY <3>4, TimedOff
    <3>6. \A k \in Nodes \ {n} : proc'[k] = proc[k]  BY <1>0, <2>2, PassAt
    <3>7. \A k \in Nodes \ {n} : Timed(k)'  BY <3>2, <3>3, <3>6, TimedOff, TimedStays DEF TimedInv
    <3> QED BY <3>5, <3>7 DEF TimedInv
  <2> QED BY <1>9, <2>0, <2>1, <2>2 DEF FenceWrites
<1>10. CASE WriteReclaim(n)  BY <1>3, <1>10 DEF WriteReclaim, Recs
<1>11. CASE Demote(n)
  <2>0. PICK m \in Nodes : m = proc[n].with  BY <1>0
  <2> DEFINE me == [db[m].me EXCEPT !.url = n, !.role = "worker", !.acting = FALSE, !.fenced = FALSE]
  <2>1. me.fenced = FALSE
    <3>1. db[m].me \in LeadIdent  BY Parts
    <3> QED BY Zenon, <3>1, Demoted
  <2>2. CASE SetMe(m, me) /\ proc' = [proc EXCEPT ![n] = Off("down"), ![m].pc = "leaving"]
    <3>1. db'[m].me.fenced = FALSE /\ \A k \in Nodes \ {m} : db'[k] = db[k]
      BY <1>0, <2>1, <2>2, MeAt
    <3> DEFINE half == [proc EXCEPT ![n] = Off("down")]
    <3>2. \A k \in Nodes \ {n} : half[k] = proc[k]  BY <1>0 DEF ProcT
    <3>3. half \in [Nodes -> LeadProc] /\ half[n].pc = "down"
      BY <1>0, OffTyped, OneOff DEF ProcT, PCs
    <3>4. proc' = [half EXCEPT ![m].pc = "leaving"]  BY <2>2
    <3> HIDE DEF half
    <3>5. \A k \in Nodes \ {m} : proc'[k] = half[k]  BY <3>3, <3>4
    <3>6. Timed(m)'  BY <1>0, <3>1, TimedOff
    <3>7. \A k \in Nodes \ {m, n} : Timed(k)'  BY <3>1, <3>2, <3>5, TimedKept DEF TimedInv
    <3>8. n # m => Timed(n)'  BY <3>3, <3>5, TimedOff
    <3> QED BY <3>6, <3>7, <3>8 DEF TimedInv
  <2>3. CASE proc' = [proc EXCEPT ![n] = Off("down")] /\ UNCHANGED <<db, disk>>
    <3>1. Timed(n)'  BY <1>0, <2>3, OffAt, TimedOff
    <3> QED BY <1>0, <2>3, <3>1, OffAt, TimedKept DEF TimedInv
  <2> QED BY <1>11, <2>0, <2>2, <2>3 DEF Demote
<1> QED BY <1>1, <1>4, <1>5, <1>6, <1>7, <1>8, <1>9, <1>10, <1>11 DEF ReclaimStep

LEMMA TimedLeader ==
    ASSUME TInv, TimedInv, NEW n \in Nodes, LeaderStep(n) \/ Write(n) \/ ReopenWrites(n)
    PROVE  TimedInv'
<1>0. DbT /\ ProcT  BY DEF TInv
<1>1. CASE Leave(n)
  <2>1. Timed(n)'  BY <1>0, <1>1, OffAt, TimedOff DEF Leave
  <2> QED BY <1>0, <1>1, <2>1, OffAt, TimedKept DEF Leave, TimedInv
<1>2. CASE QuiesceExpires(n)
  <2>1. /\ \A k \in Nodes \ {n} : proc'[k] = proc[k]
        /\ proc'[n].pc = proc[n].pc
    BY <1>0, <1>2 DEF QuiesceExpires, ProcT, LeadProc
  <2>2. CASE db[n].me.fenced /\ Acting(n)
    <3>1. db'[n].me.fenced = FALSE /\ \A k \in Nodes \ {n} : db'[k] = db[k]
      BY <1>0, <1>2, <2>2, WritesAt DEF QuiesceExpires
    <3>2. Timed(n)'  BY <3>1, TimedOff
    <3> QED BY <2>1, <3>1, <3>2, TimedKept DEF TimedInv
  <2>3. CASE ~(db[n].me.fenced /\ Acting(n))
    <3>1. db' = db  BY <1>2, <2>3 DEF QuiesceExpires
    <3>2. Timed(n)'  BY <2>3, <3>1 DEF Timed, Acting
    <3> QED BY <2>1, <3>1, <3>2, TimedKept DEF TimedInv
  <2> QED BY <2>2, <2>3
<1>3. CASE Confirm(n) \/ Snapshot(n)
  <2>1. \A k \in Nodes : /\ proc'[k].pc = proc[k].pc /\ proc'[k].timer = proc[k].timer
                         /\ db'[k] = db[k]
    BY <1>0, <1>3 DEF Confirm, Snapshot, ProcT, LeadProc
  <2>2. \A k \in Nodes : Timed(k)'  BY <2>1, TimedStays DEF TimedInv
  <2> QED BY <2>2 DEF TimedInv
<1>4. CASE Write(n)
  <2>1. \A k \in Nodes : /\ proc'[k].pc = proc[k].pc /\ proc'[k].timer = proc[k].timer
                         /\ db'[k].me = db[k].me
    BY <1>0, <1>4 DEF Write, ProcT, LeadProc, DbT, LeadDb
  <2>2. \A k \in Nodes : Timed(k)'  BY <2>1, TimedStays DEF TimedInv
  <2> QED BY <2>2 DEF TimedInv
<1>5. CASE ReopenWrites(n)
  <2>1. db'[n].me.fenced = FALSE /\ proc' = proc /\ \A k \in Nodes \ {n} : db'[k] = db[k]
    BY <1>0, <1>5, StopAt DEF ReopenWrites
  <2>2. Timed(n)'  BY <2>1, TimedOff
  <2> QED BY <2>1, <2>2, TimedKept DEF TimedInv
<1> QED BY <1>1, <1>2, <1>3, <1>4, <1>5 DEF LeaderStep

LEMMA TimedFault ==
    ASSUME TInv, TimedInv, \/ \E n \in Nodes : Fault(n) \/ \E m \in Nodes : Cut(m, n)
                           \/ Heal
    PROVE  TimedInv'
<1>0. ProcT  BY DEF TInv
<1>1. ASSUME NEW n \in Nodes, Dies(n)  PROVE TimedInv'
  <2>1. Timed(n)'  BY <1>0, <1>1, OffAt, TimedOff DEF Dies
  <2> QED BY <1>0, <1>1, <2>1, OffAt, TimedKept DEF Dies, TimedInv
<1>2. ASSUME UNCHANGED <<db, proc>>  PROVE TimedInv'
  BY <1>2 DEF TimedInv, Timed, Acting
<1> QED BY <1>1, <1>2 DEF Fault, Crash, HostDown, HostUp, Cut, Heal

LEMMA TimedNext == TInv /\ TimedInv /\ [Next]_vars => TimedInv'
<1> SUFFICES ASSUME TInv, TimedInv, [Next]_vars PROVE TimedInv'
  OBVIOUS
<1>1. CASE Next
  BY <1>1, TimedBoot, TimedLoop, TimedCopy, TimedReclaim, TimedLeader, TimedFault DEF Next
<1>2. CASE UNCHANGED vars  BY <1>2 DEF vars, TimedInv, Timed, Acting
<1> QED BY <1>1, <1>2

LEMMA TimedHolds == TimedInv => FenceIsTimed
  BY DEF TimedInv, Timed, FenceIsTimed, Leads

\* An interim leader whose writes are fenced while it routes requests has the delay
\* running that reopens them: the delay is started with the fence, and a boot lifts the
\* fence of a delay that died (failover_quiesce, release_orphan_fence).
THEOREM FenceIsTimedHolds == Spec => []FenceIsTimed
<1>1. TInv /\ [Next]_vars => TInv'  BY TNext
<1>2. Init => TInv /\ TimedInv  BY TInit, TimedInit
<1>3. (TInv /\ TimedInv) /\ [Next]_vars => (TInv /\ TimedInv)'  BY <1>1, TimedNext
<1> QED BY <1>2, <1>3, TimedHolds, PTL DEF Spec

-----------------------------------------------------------------------------
(* A node that serves is itself.                                           *)

\* A database that came from elsewhere is explained by a flag on disk.
Flagged(n) == disk[n].reclaim # {} \/ disk[n].promote # "none"
\* The pass of the preferred leader that holds a copy.
Copying == {"fence", "flag", "demote"}

\* Who elects itself follows as a worker; only the preferred leader reclaims, from
\* another node; the role is the one the process was routed by.
Placed(n) ==
    /\ proc[n].elect # "no" => proc[n].pc = "work"
    /\ proc[n].rec # "idle" => /\ proc[n].pc \in {"first", "lead"}
                               /\ n = Preferred /\ proc[n].with # Preferred
    /\ proc[n].pc = "work" => db[n].me.role = "worker"
    /\ proc[n].pc \in {"first", "lead"} => db[n].me.role = "leader"

\* The files name the node itself, and what waits to replace the database is explained
\* by a flag, or by a task that has yet to write the flag.
Filed(n) ==
    /\ \A i \in disk[n].ident \cup disk[n].reclaim : i.id = n
    /\ disk[n].promote # "none" \/ proc[n].elect # "no" => disk[n].ident # {}
    /\ disk[n].promote # "none" => proc[n].pc \in {"down", "takeover", "restore", "promote"}
    /\ disk[n].reclaim # {} =>
         /\ n = Preferred
         /\ \/ proc[n].pc \in {"down", "takeover", "restore", "promote", "reclaim"}
            \/ proc[n].rec = "demote"
    /\ disk[n].armed # {} =>
         /\ n = Preferred
         /\ (proc[n].pc = "down" /\ disk[n].reclaim # {}) \/ proc[n].rec \in Copying
    /\ proc[n].rec = "demote" => disk[n].reclaim # {}
    /\ disk[n].pending # {} =>
         \/ proc[n].pc \in {"down", "takeover", "restore"} /\ Flagged(n)
         \/ proc[n].rec \in Copying
         \/ proc[n].elect = "snapshot"

\* The database says who the node is, except while a flag is still to be applied.
Known(n) ==
    \/ db[n].me.id = n
    \/ proc[n].pc \in {"down", "takeover", "restore", "promote"} /\ Flagged(n)
    \/ proc[n].pc = "reclaim" /\ disk[n].reclaim # {}

Sound(n)  == Placed(n) /\ Filed(n) /\ Known(n)
OwnInv    == ~torn => \A n \in Nodes : Sound(n)

LEMMA OwnInit == Init => OwnInv
<1> SUFFICES ASSUME Init, NEW n \in Nodes PROVE Sound(n)
  BY DEF OwnInv
<1>1. /\ db[n].me.id = n /\ db[n].me.role = IF n = Preferred THEN "leader" ELSE "worker"
      /\ disk[n].ident = {} /\ disk[n].promote = "none" /\ disk[n].pending = {}
      /\ disk[n].armed = {} /\ disk[n].reclaim = {}
      /\ proc[n].pc = IF n = Preferred THEN "lead" ELSE "work"
      /\ proc[n].elect = "no" /\ proc[n].rec = "idle"
  BY DEF Init, Off
<1> QED BY <1>1 DEF Sound, Placed, Filed, Known, Copying

\* Nothing that Sound speaks of changes at the node.
Same(n) ==
    /\ db'[n].me.id = db[n].me.id /\ db'[n].me.role = db[n].me.role
    /\ disk'[n].ident = disk[n].ident /\ disk'[n].promote = disk[n].promote
    /\ disk'[n].pending = disk[n].pending /\ disk'[n].armed = disk[n].armed
    /\ disk'[n].reclaim = disk[n].reclaim
    /\ proc'[n].pc = proc[n].pc /\ proc'[n].elect = proc[n].elect
    /\ proc'[n].rec = proc[n].rec /\ proc'[n].with = proc[n].with

LEMMA SoundKept ==
    ASSUME NEW n \in Nodes, Sound(n), Same(n)
    PROVE  Sound(n)'
  BY DEF Sound, Placed, Filed, Known, Flagged, Same

LEMMA Untouched ==
    ASSUME NEW n \in Nodes, db'[n] = db[n], disk'[n] = disk[n], proc'[n] = proc[n]
    PROVE  Same(n)
  BY DEF Same

\* The files of one node change, field by field.
LEMMA ArmedAt ==
    ASSUME DiskT, NEW n \in Nodes, NEW v, disk' = [disk EXCEPT ![n].armed = v]
    PROVE  /\ disk'[n].ident = disk[n].ident /\ disk'[n].promote = disk[n].promote
           /\ disk'[n].pending = disk[n].pending /\ disk'[n].armed = v
           /\ disk'[n].reclaim = disk[n].reclaim
           /\ \A k \in Nodes \ {n} : disk'[k] = disk[k]
  BY DEF DiskT, LeadDisk
LEMMA PendingAt ==
    ASSUME DiskT, NEW n \in Nodes, NEW v, disk' = [disk EXCEPT ![n].pending = v]
    PROVE  /\ disk'[n].ident = disk[n].ident /\ disk'[n].promote = disk[n].promote
           /\ disk'[n].pending = v /\ disk'[n].armed = disk[n].armed
           /\ disk'[n].reclaim = disk[n].reclaim
           /\ \A k \in Nodes \ {n} : disk'[k] = disk[k]
  BY DEF DiskT, LeadDisk
LEMMA PromoteAt ==
    ASSUME DiskT, NEW n \in Nodes, NEW v, disk' = [disk EXCEPT ![n].promote = v]
    PROVE  /\ disk'[n].ident = disk[n].ident /\ disk'[n].promote = v
           /\ disk'[n].pending = disk[n].pending /\ disk'[n].armed = disk[n].armed
           /\ disk'[n].reclaim = disk[n].reclaim
           /\ \A k \in Nodes \ {n} : disk'[k] = disk[k]
  BY DEF DiskT, LeadDisk
LEMMA ReclaimAt ==
    ASSUME DiskT, NEW n \in Nodes, NEW v, disk' = [disk EXCEPT ![n].reclaim = v]
    PROVE  /\ disk'[n].ident = disk[n].ident /\ disk'[n].promote = disk[n].promote
           /\ disk'[n].pending = disk[n].pending /\ disk'[n].armed = disk[n].armed
           /\ disk'[n].reclaim = v
           /\ \A k \in Nodes \ {n} : disk'[k] = disk[k]
  BY DEF DiskT, LeadDisk
LEMMA IdentAt ==
    ASSUME DiskT, NEW n \in Nodes, NEW v, disk' = [disk EXCEPT ![n].ident = v]
    PROVE  /\ disk'[n].ident = v /\ disk'[n].promote = disk[n].promote
           /\ disk'[n].pending = disk[n].pending /\ disk'[n].armed = disk[n].armed
           /\ disk'[n].reclaim = disk[n].reclaim
           /\ \A k \in Nodes \ {n} : disk'[k] = disk[k]
  BY DEF DiskT, LeadDisk
LEMMA PromotedAt ==
    ASSUME DiskT, NEW n \in Nodes, NEW v, disk' = [disk EXCEPT ![n].promote = "none", ![n].ident = v]
    PROVE  /\ disk'[n].ident = v /\ disk'[n].promote = "none"
           /\ disk'[n].pending = disk[n].pending /\ disk'[n].armed = disk[n].armed
           /\ disk'[n].reclaim = disk[n].reclaim
           /\ \A k \in Nodes \ {n} : disk'[k] = disk[k]
  BY DEF DiskT, LeadDisk
LEMMA ReclaimedAt ==
    ASSUME DiskT, NEW n \in Nodes, NEW v, disk' = [disk EXCEPT ![n].reclaim = {}, ![n].ident = v]
    PROVE  /\ disk'[n].ident = v /\ disk'[n].promote = disk[n].promote
           /\ disk'[n].pending = disk[n].pending /\ disk'[n].armed = disk[n].armed
           /\ disk'[n].reclaim = {}
           /\ \A k \in Nodes \ {n} : disk'[k] = disk[k]
  BY DEF DiskT, LeadDisk
LEMMA AckedAt ==
    ASSUME DiskT, NEW n \in Nodes, NEW v, disk' = [disk EXCEPT ![n].roster = Workers, ![n].ident = v]
    PROVE  /\ disk'[n].ident = v /\ disk'[n].promote = disk[n].promote
           /\ disk'[n].pending = disk[n].pending /\ disk'[n].armed = disk[n].armed
           /\ disk'[n].reclaim = disk[n].reclaim
           /\ \A k \in Nodes \ {n} : disk'[k] = disk[k]
  BY DEF DiskT, LeadDisk

LEMMA OwnBoot ==
    ASSUME TInv, \A k \in Nodes : Sound(k), NEW n \in Nodes, BootStep(n)
    PROVE  \A k \in Nodes : Sound(k)'
<1> USE DEF Copying
<1>0. DbT /\ DiskT /\ ProcT /\ Placed(n) /\ Filed(n) /\ Known(n)
  BY DEF TInv, Sound
<1>1. \A k \in Nodes \ {n} : db'[k] = db[k] /\ disk'[k] = disk[k] /\ proc'[k] = proc[k]
  BY <1>0 DEF BootStep, Adopt, Takeover, Restore, apply_promote_flag, apply_reclaim_flag,
              release_orphan_fence, SetPc, SetMe, DbT, DiskT, ProcT
<1>2. \A k \in Nodes \ {n} : Sound(k)'  BY <1>1, Untouched, SoundKept
<1>3. Sound(n)'
  <2>1. CASE Adopt(n)
    <3>1. SetPc(n, "takeover") /\ proc[n].pc = "down" /\ disk[n].armed = disk[n].armed
      BY <2>1 DEF Adopt
    <3>2. \/ UNCHANGED <<db, disk>> /\ disk[n].armed = {}
          \/ disk' = [disk EXCEPT ![n].armed = {}] /\ disk[n].armed # {}
      BY <2>1 DEF Adopt
    <3>3. CASE UNCHANGED <<db, disk>> /\ disk[n].armed = {}
      BY <1>0, <3>1, <3>3, PcAt DEF Sound, Placed, Filed, Known, Flagged
    <3>4. CASE disk' = [disk EXCEPT ![n].armed = {}] /\ disk[n].armed # {}
      <4>1. /\ disk'[n].ident = disk[n].ident /\ disk'[n].promote = disk[n].promote
            /\ disk'[n].pending = disk[n].pending /\ disk'[n].armed = {}
            /\ disk'[n].reclaim = disk[n].reclaim
        BY <1>0, <3>4, ArmedAt
      <4>2. /\ proc'[n].pc = "takeover" /\ proc'[n].rec = proc[n].rec
            /\ proc'[n].elect = proc[n].elect /\ proc'[n].with = proc[n].with
        BY <1>0, <3>1, PcAt
      <4> QED BY <1>0, <3>1, <3>4, <4>1, <4>2 DEF Sound, Placed, Filed, Known, Flagged
    <3> QED BY <3>2, <3>3, <3>4
  <2>2. CASE Takeover(n)
    <3>1. disk' = disk /\ proc[n].pc = "takeover"  BY <2>2 DEF Takeover
    <3>2. \/ disk[n].promote # "standby" /\ db' = db /\ SetPc(n, "restore")
          \/ disk[n].promote = "standby" /\ SetPc(n, "restore")
          \/ db' = db /\ SetPc(n, "down")
      BY <2>2 DEF Takeover
    <3> QED BY <1>0, <3>1, <3>2, PcAt DEF Sound, Placed, Filed, Known, Flagged
  <2>3. CASE Restore(n)
    <3>1. SetPc(n, "promote") /\ proc[n].pc = "restore"  BY <2>3 DEF Restore
    <3>2. CASE disk[n].pending = {} /\ db' = [db EXCEPT ![n].ro = FALSE] /\ UNCHANGED disk
      <4>1. db'[n].me = db[n].me  BY <1>0, <3>2 DEF DbT, LeadDb
      <4> QED BY <1>0, <3>1, <3>2, <4>1, PcAt DEF Sound, Placed, Filed, Known, Flagged
    <3>3. CASE disk[n].pending # {} /\ disk' = [disk EXCEPT ![n].pending = {}]
      <4>1. /\ disk'[n].ident = disk[n].ident /\ disk'[n].promote = disk[n].promote
            /\ disk'[n].pending = {} /\ disk'[n].armed = disk[n].armed
            /\ disk'[n].reclaim = disk[n].reclaim
        BY <1>0, <3>3, PendingAt
      <4>2. /\ proc'[n].pc = "promote" /\ proc'[n].rec = proc[n].rec
            /\ proc'[n].elect = proc[n].elect /\ proc'[n].with = proc[n].with
        BY <1>0, <3>1, PcAt
      <4> QED BY <1>0, <3>1, <3>3, <4>1, <4>2 DEF Sound, Placed, Filed, Known, Flagged
    <3> QED BY <2>3, <3>2, <3>3 DEF Restore
  <2>4. CASE apply_promote_flag(n)
    <3>1. SetPc(n, "reclaim") /\ proc[n].pc = "promote"  BY <2>4 DEF apply_promote_flag
    <3>2. CASE disk[n].promote = "none"
      <4>1. db' = db /\ disk' = [disk EXCEPT ![n].promote = "none"]
        BY <2>4, <3>2 DEF apply_promote_flag
      <4> QED BY <1>0, <3>1, <3>2, <4>1, PcAt, PromoteAt DEF Sound, Placed, Filed, Known, Flagged
    <3>3. CASE disk[n].promote # "none"
      <4>0. disk[n].ident # {}  BY <1>0, <3>3 DEF Filed
      <4>1. PICK i \in disk[n].ident :
               LET me == [i EXCEPT !.role = "leader", !.acting = TRUE, !.fenced = FALSE,
                                   !.term = @ + 1, !.url = n]
               IN  SetMe(n, me) /\ disk' = [disk EXCEPT ![n].promote = "none", ![n].ident = {me}]
        BY <2>4, <3>3, <4>0 DEF apply_promote_flag
      <4> DEFINE me == [i EXCEPT !.role = "leader", !.acting = TRUE, !.fenced = FALSE,
                                 !.term = @ + 1, !.url = n]
      <4>2. i \in LeadIdent /\ i.id = n  BY <1>0 DEF DiskT, LeadDisk, Filed
      <4>3. me.id = n  BY <4>2, Promoted
      <4>4. SetMe(n, me) /\ disk' = [disk EXCEPT ![n].promote = "none", ![n].ident = {me}]
        BY <4>1
      <4> HIDE DEF me
      <4>5. db'[n].me.id = n  BY <1>0, <4>3, <4>4, MeAt
      <4>6. /\ disk'[n].ident = {me} /\ disk'[n].promote = "none"
            /\ disk'[n].pending = disk[n].pending /\ disk'[n].armed = disk[n].armed
            /\ disk'[n].reclaim = disk[n].reclaim
        BY <1>0, <4>4, PromotedAt
      <4>7. /\ proc'[n].pc = "reclaim" /\ proc'[n].rec = proc[n].rec
            /\ proc'[n].elect = proc[n].elect /\ proc'[n].with = proc[n].with
        BY <1>0, <3>1, PcAt
      <4> QED BY <1>0, <3>1, <4>3, <4>5, <4>6, <4>7 DEF Sound, Placed, Filed, Known, Flagged
    <3> QED BY <3>2, <3>3
  <2>5. CASE apply_reclaim_flag(n)
    <3>1. SetPc(n, "orphan") /\ proc[n].pc = "reclaim"  BY <2>5 DEF apply_reclaim_flag
    <3>2. CASE disk[n].reclaim = {}
      <4>1. UNCHANGED <<db, disk>>  BY <2>5, <3>2 DEF apply_reclaim_flag
      <4> QED BY <1>0, <3>1, <3>2, <4>1, PcAt DEF Sound, Placed, Filed, Known, Flagged
    <3>3. CASE disk[n].reclaim # {}
      <4>1. PICK i \in disk[n].reclaim :
              LET me == [i EXCEPT !.role = "leader", !.acting = FALSE, !.fenced = FALSE,
                                  !.url = i.id]
              IN  SetMe(n, me) /\ disk' = [disk EXCEPT ![n].reclaim = {}, ![n].ident = {me}]
        BY <2>5, <3>3 DEF apply_reclaim_flag
      <4> DEFINE me == [i EXCEPT !.role = "leader", !.acting = FALSE, !.fenced = FALSE,
                                 !.url = i.id]
      <4>2. i \in LeadIdent /\ i.id = n  BY <1>0 DEF DiskT, LeadDisk, Filed
      <4>3. me.id = n  BY <4>2, Reclaimed
      <4>4. SetMe(n, me) /\ disk' = [disk EXCEPT ![n].reclaim = {}, ![n].ident = {me}]
        BY <4>1
      <4> HIDE DEF me
      <4>5. db'[n].me.id = n  BY <1>0, <4>3, <4>4, MeAt
      <4>6. /\ disk'[n].ident = {me} /\ disk'[n].promote = disk[n].promote
            /\ disk'[n].pending = disk[n].pending /\ disk'[n].armed = disk[n].armed
            /\ disk'[n].reclaim = {}
        BY <1>0, <4>4, ReclaimedAt
      <4>7. /\ proc'[n].pc = "orphan" /\ proc'[n].rec = proc[n].rec
            /\ proc'[n].elect = proc[n].elect /\ proc'[n].with = proc[n].with
        BY <1>0, <3>1, PcAt
      <4> QED BY <1>0, <3>1, <4>3, <4>5, <4>6, <4>7 DEF Sound, Placed, Filed, Known, Flagged
    <3> QED BY <3>2, <3>3
  <2>6. CASE release_orphan_fence(n)
    <3>1. /\ SetPc(n, Router(db[n].me)) /\ proc[n].pc = "orphan" /\ disk' = disk
          /\ Router(db[n].me) \in {"first", "work"}
      BY <2>6 DEF release_orphan_fence, Router
    <3>2. db[n].me.role \in {"leader", "worker"}  BY Parts, IdentFields
    <3>3. db'[n].me.id = db[n].me.id /\ db'[n].me.role = db[n].me.role
      <4>1. db' = db \/ SetMe(n, [db[n].me EXCEPT !.fenced = FALSE])
        BY <2>6 DEF release_orphan_fence
      <4>2. /\ [db[n].me EXCEPT !.fenced = FALSE].id = db[n].me.id
            /\ [db[n].me EXCEPT !.fenced = FALSE].role = db[n].me.role
        BY Parts, ReFenced
      <4> QED BY <1>0, <4>1, <4>2, MeAt
    <3> QED BY <1>0, <3>1, <3>2, <3>3, PcAt
        DEF Sound, Placed, Filed, Known, Flagged, Router
  <2> QED BY <2>1, <2>2, <2>3, <2>4, <2>5, <2>6 DEF BootStep
<1> QED BY <1>2, <1>3

LEMMA OwnLoop ==
    ASSUME TInv, \A k \in Nodes : Sound(k), NEW n \in Nodes, LoopStep(n)
    PROVE  \A k \in Nodes : Sound(k)'
<1> USE DEF Copying
<1>0. DbT /\ DiskT /\ ProcT /\ Placed(n) /\ Filed(n) /\ Known(n)
  BY DEF TInv, Sound
<1>w. proc[n].pc = "work" =>
         /\ db[n].me.id = n /\ db[n].me.role = "worker" /\ proc[n].rec = "idle"
         /\ disk[n].promote = "none" /\ disk[n].reclaim = {} /\ disk[n].armed = {}
         /\ disk[n].pending # {} => proc[n].elect = "snapshot"
  BY <1>0 DEF Sound, Placed, Filed, Known, Flagged
<1>1. \A k \in Nodes \ {n} : db'[k] = db[k] /\ disk'[k] = disk[k] /\ proc'[k] = proc[k]
  BY <1>0 DEF LoopStep, Heartbeat, Miss, try_elect, ElectPending, ElectFlag, SetMe,
              DbT, DiskT, ProcT
<1>2. \A k \in Nodes \ {n} : Sound(k)'  BY <1>1, Untouched, SoundKept
<1>3. Sound(n)'
  <2>1. CASE Heartbeat(n)
    <3> DEFINE t == Larger(db[n].me.term, db[db[n].me.url].me.term)
               me == [db[n].me EXCEPT !.term = t]
    <3>1. t \in Nat  BY Parts DEF Larger
    <3>2. me.id = db[n].me.id /\ me.role = db[n].me.role
      <4> HIDE DEF t
      <4> QED BY <3>1, Parts, ReTermed
    <3>3. /\ SetMe(n, me) /\ disk' = [disk EXCEPT ![n].roster = Workers, ![n].ident = {me}]
          /\ proc' = [proc EXCEPT ![n].fail = 0] /\ proc[n].pc = "work" /\ proc[n].elect = "no"
      BY <2>1 DEF Heartbeat
    <3> HIDE DEF me
    <3>4. db'[n].me = me  BY <1>0, <3>3, MeAt
    <3>5. /\ disk'[n].ident = {me} /\ disk'[n].promote = disk[n].promote
          /\ disk'[n].pending = disk[n].pending /\ disk'[n].armed = disk[n].armed
          /\ disk'[n].reclaim = disk[n].reclaim
      BY <1>0, <3>3, AckedAt
    <3>6. /\ proc'[n].pc = "work" /\ proc'[n].elect = "no" /\ proc'[n].rec = proc[n].rec
          /\ proc'[n].with = proc[n].with
      BY <1>0, <3>3 DEF ProcT, LeadProc
    <3> QED BY <1>0, <1>w, <3>2, <3>3, <3>4, <3>5, <3>6
        DEF Sound, Placed, Filed, Known, Flagged
  <2>2. CASE Miss(n)
    <3>1. disk' = disk  BY <2>2 DEF Miss
    <3>2. db'[n].me.id = db[n].me.id /\ db'[n].me.role = db[n].me.role
      <4>1. db' = db \/ SetMe(n, [db[n].me EXCEPT !.url = Preferred, !.acting = FALSE])
        BY <2>2 DEF Miss
      <4>2. /\ [db[n].me EXCEPT !.url = Preferred, !.acting = FALSE].id = db[n].me.id
            /\ [db[n].me EXCEPT !.url = Preferred, !.acting = FALSE].role = db[n].me.role
        BY Parts, Numbers, Returned
      <4> QED BY <1>0, <4>1, <4>2, MeAt
    <3>3. /\ proc'[n].pc = proc[n].pc /\ proc'[n].elect = proc[n].elect
          /\ proc'[n].rec = proc[n].rec /\ proc'[n].with = proc[n].with
      BY <1>0, <2>2 DEF Miss, ProcT, LeadProc
    <3> QED BY <3>1, <3>2, <3>3, SoundKept DEF Same
  <2>3. CASE try_elect(n)
    <3>0. proc[n].pc = "work" /\ proc[n].elect = "no"  BY <2>3 DEF try_elect
    <3>1. db'[n].me.id = n /\ db'[n].me.role = "worker"
      <4>1. db' = db \/ \E m \in earlier_candidates(n) : SetMe(n, [db[n].me EXCEPT !.url = m])
        BY <2>3 DEF try_elect
      <4>2. \A m \in earlier_candidates(n) : m \in Nodes
        BY <1>0, Numbers DEF earlier_candidates, DiskT, LeadDisk
      <4>3. \A m \in Nodes : /\ [db[n].me EXCEPT !.url = m].id = db[n].me.id
                             /\ [db[n].me EXCEPT !.url = m].role = db[n].me.role
        BY Parts, ReFollows
      <4>4. ASSUME NEW m \in Nodes, SetMe(n, [db[n].me EXCEPT !.url = m])
            PROVE  db'[n].me.id = n /\ db'[n].me.role = "worker"
        <5>1. db'[n].me = [db[n].me EXCEPT !.url = m]  BY <1>0, <4>4, MeAt
        <5> QED BY <1>w, <3>0, <4>3, <5>1
      <4> QED BY <1>w, <3>0, <4>1, <4>2, <4>4
    <3>2. CASE proc' = [proc EXCEPT ![n].fail = 0] /\ disk' = disk
      <4>1. /\ proc'[n].pc = proc[n].pc /\ proc'[n].elect = proc[n].elect
            /\ proc'[n].rec = proc[n].rec /\ proc'[n].with = proc[n].with
        BY <1>0, <3>2 DEF ProcT, LeadProc
      <4> QED BY <1>w, <3>0, <3>1, <3>2, <4>1, SoundKept DEF Same
    <3>3. CASE /\ disk' = [disk EXCEPT ![n].ident = {db[n].me}] /\ db' = db
               /\ \E l \in {"standby", "pending"} :
                     proc' = [proc EXCEPT ![n].fail = 0, ![n].elect = l]
      <4>1. /\ disk'[n].ident = {db[n].me} /\ disk'[n].promote = disk[n].promote
            /\ disk'[n].pending = disk[n].pending /\ disk'[n].armed = disk[n].armed
            /\ disk'[n].reclaim = disk[n].reclaim
        BY <1>0, <3>3, IdentAt
      <4>2. /\ proc'[n].pc = proc[n].pc /\ proc'[n].elect \in {"standby", "pending"}
            /\ proc'[n].rec = proc[n].rec /\ proc'[n].with = proc[n].with
        BY <1>0, <3>3 DEF ProcT, LeadProc
      <4> QED BY <1>0, <1>w, <3>0, <3>1, <4>1, <4>2
          DEF Sound, Placed, Filed, Known, Flagged
    <3> QED BY <2>3, <3>2, <3>3 DEF try_elect
  <2>4. CASE ElectPending(n)
    <3>1. /\ proc[n].elect = "pending" /\ db' = db
          /\ disk' = [disk EXCEPT ![n].pending = disk[n].snap]
      BY <2>4 DEF ElectPending
    <3>2. /\ disk'[n].ident = disk[n].ident /\ disk'[n].promote = disk[n].promote
          /\ disk'[n].armed = disk[n].armed /\ disk'[n].reclaim = disk[n].reclaim
      BY <1>0, <3>1, PendingAt
    <3>3. /\ proc'[n].pc = proc[n].pc /\ proc'[n].elect = "snapshot"
          /\ proc'[n].rec = proc[n].rec /\ proc'[n].with = proc[n].with
      BY <1>0, <2>4 DEF ElectPending, ProcT, LeadProc
    <3> QED BY <1>0, <1>w, <3>1, <3>2, <3>3 DEF Sound, Placed, Filed, Known, Flagged
  <2>5. CASE ElectFlag(n)
    <3>1. /\ proc[n].elect \in {"standby", "snapshot"} /\ db' = db
          /\ disk' = [disk EXCEPT ![n].promote = proc[n].elect]
          /\ proc' = [proc EXCEPT ![n] = Off("down")]
      BY <2>5 DEF ElectFlag
    <3>2. /\ disk'[n].ident = disk[n].ident /\ disk'[n].promote = proc[n].elect
          /\ disk'[n].pending = disk[n].pending /\ disk'[n].armed = disk[n].armed
          /\ disk'[n].reclaim = disk[n].reclaim
      BY <1>0, <3>1, PromoteAt
    <3>3. /\ proc'[n].pc = "down" /\ proc'[n].elect = "no" /\ proc'[n].rec = "idle"
      BY <1>0, <3>1, OffAt
    <3> QED BY <1>0, <1>w, <3>1, <3>2, <3>3 DEF Sound, Placed, Filed, Known, Flagged
  <2> QED BY <2>1, <2>2, <2>3, <2>4, <2>5 DEF LoopStep
<1> QED BY <1>2, <1>3

\* Nothing that the ranks speak of changes at the node.
SameRank(n) ==
    /\ db'[n].me.role = db[n].me.role /\ db'[n].me.term = db[n].me.term
    /\ disk'[n].ident = disk[n].ident /\ disk'[n].promote = disk[n].promote
    /\ disk'[n].reclaim = disk[n].reclaim /\ disk'[n].roster = disk[n].roster
    /\ proc'[n].pc = proc[n].pc /\ proc'[n].elect = proc[n].elect
    /\ proc'[n].rec = proc[n].rec /\ proc'[n].term = proc[n].term

\* Copies, writes and snapshots move data only.
LEMMA DataOnly ==
    ASSUME TInv, NEW n \in Nodes,
           CopyStep(n) \/ Confirm(n) \/ Snapshot(n) \/ Write(n)
    PROVE  \A k \in Nodes : Same(k) /\ SameRank(k)
<1>0. DbT /\ DiskT /\ ProcT  BY DEF TInv
<1> USE DEF Same, SameRank
<1>1. CASE BaseBackup(n) \/ Replay(n)
  BY <1>1 DEF BaseBackup, Replay
<1>2. CASE FetchSnapshot(n)
  BY <1>0, <1>2 DEF FetchSnapshot, ProcT, LeadProc
<1>3. CASE StoreSnapshot(n)
  BY <1>0, <1>3 DEF StoreSnapshot, ProcT, LeadProc, DiskT, LeadDisk
<1>4. CASE Confirm(n)
  <2>1. \E m \in Nodes : \E v : \/ disk' = disk \/ disk' = [disk EXCEPT ![n].snap = v]
                                 \/ disk' = [disk EXCEPT ![n].snap = v, ![m].snap = v]
    BY <1>4, Numbers DEF Confirm
  <2>2. \A k \in Nodes : /\ disk'[k].ident = disk[k].ident
                         /\ disk'[k].promote = disk[k].promote
                         /\ disk'[k].pending = disk[k].pending
                         /\ disk'[k].armed = disk[k].armed
                         /\ disk'[k].reclaim = disk[k].reclaim
                         /\ disk'[k].roster = disk[k].roster
    <3>1. PICK m \in Nodes : \E v : \/ disk' = disk \/ disk' = [disk EXCEPT ![n].snap = v]
                                     \/ disk' = [[disk EXCEPT ![n].snap = v] EXCEPT ![m].snap = v]
      BY <2>1
    <3> QED BY <1>0, <3>1 DEF DiskT, LeadDisk
  <2>3. db' = db /\ proc' = [proc EXCEPT ![n].flight = 0]  BY <1>4 DEF Confirm
  <2> QED BY <1>0, <2>2, <2>3 DEF ProcT, LeadProc
<1>5. CASE Snapshot(n)
  BY <1>0, <1>5 DEF Snapshot, DiskT, LeadDisk
<1>6. CASE Write(n)
  BY <1>0, <1>6 DEF Write, DbT, LeadDb, ProcT, LeadProc
<1> QED BY <1>1, <1>2, <1>3, <1>4, <1>5, <1>6 DEF CopyStep


LEMMA OwnCopy ==
    ASSUME TInv, \A k \in Nodes : Sound(k), NEW n \in Nodes,
           CopyStep(n) \/ Confirm(n) \/ Snapshot(n) \/ Write(n)
    PROVE  \A k \in Nodes : Sound(k)'
  BY DataOnly, SoundKept

\* What a pass changes at the preferred leader itself, or at the other node.
LEMMA OwnReclaim ==
    ASSUME TInv, \A k \in Nodes : Sound(k), NEW n \in Nodes, ReclaimStep(n), ~torn'
    PROVE  \A k \in Nodes : Sound(k)'
<1> USE DEF Copying
<1>0. DbT /\ DiskT /\ ProcT /\ proc[n].with \in Nodes /\ Placed(n) /\ Filed(n) /\ Known(n)
  BY Parts DEF TInv, Sound
<1>w. proc[n].pc \in {"first", "lead"} =>
         /\ db[n].me.id = n /\ db[n].me.role = "leader" /\ proc[n].elect = "no"
         /\ disk[n].promote = "none"
         /\ disk[n].reclaim # {} => n = Preferred /\ proc[n].rec = "demote"
         /\ disk[n].armed # {} \/ disk[n].pending # {} => proc[n].rec \in Copying
  BY <1>0 DEF Sound, Placed, Filed, Known, Flagged
<1>r. proc[n].rec # "idle" =>
         /\ proc[n].pc \in {"first", "lead"} /\ n = Preferred
         /\ proc[n].with # n /\ proc[n].with # Preferred
  BY <1>0 DEF Placed
<1>1. ASSUME PassEnds(n), UNCHANGED <<disk>> \/ disk' = [disk EXCEPT ![n].hold = FALSE],
             proc[n].pc \in {"first", "lead"}, proc[n].rec \notin Copying
      PROVE  \A k \in Nodes : Sound(k)'
  <2>1. /\ [db[n].me EXCEPT !.fenced = FALSE].id = db[n].me.id
        /\ [db[n].me EXCEPT !.fenced = FALSE].role = db[n].me.role
    BY Parts, ReFenced
  <2>2. /\ disk'[n].ident = disk[n].ident /\ disk'[n].promote = disk[n].promote
        /\ disk'[n].pending = disk[n].pending /\ disk'[n].armed = disk[n].armed
        /\ disk'[n].reclaim = disk[n].reclaim
        /\ \A k \in Nodes \ {n} : disk'[k] = disk[k]
    BY <1>0, <1>1 DEF DiskT, LeadDisk
  <2>3. Sound(n)'
    <3>1. /\ proc'[n].pc = "lead" /\ proc'[n].rec = "idle" /\ proc'[n].elect = proc[n].elect
          /\ db'[n].me.id = db[n].me.id /\ db'[n].me.role = db[n].me.role
      BY <1>1, <2>1, PassEndAt
    <3> QED BY <1>0, <1>1, <1>w, <2>2, <3>1 DEF Sound, Placed, Filed, Known, Flagged
  <2>4. \A k \in Nodes \ {n} : Sound(k)'
    BY <1>1, <2>2, PassEndAt, Untouched, SoundKept
  <2> QED BY <2>3, <2>4
<1>2. ASSUME NEW l \in Recs \ {"demote"}, Rec(n, l),
             disk' = disk \/ l \in Copying, l \in Copying \/ proc[n].rec \notin Copying,
             proc[n].rec \notin {"idle", "demote"},
             db'[n].me.id = db[n].me.id /\ db'[n].me.role \in {db[n].me.role, "leader"},
             /\ disk'[n].ident = disk[n].ident /\ disk'[n].promote = disk[n].promote
             /\ disk'[n].reclaim = disk[n].reclaim
      PROVE  Sound(n)'
  <2>1. /\ proc'[n].rec = l /\ proc'[n].pc = proc[n].pc
        /\ proc'[n].elect = proc[n].elect /\ proc'[n].with = proc[n].with
    BY <1>0, <1>2, RecAt
  <2>2. CASE disk' = disk
    BY <1>0, <1>2, <1>w, <1>r, <2>1, <2>2 DEF Sound, Placed, Filed, Known, Flagged, Recs
  <2>3. CASE l \in Copying
    BY <1>0, <1>2, <1>w, <1>r, <2>1, <2>3 DEF Sound, Placed, Filed, Known, Flagged, Recs
  <2> QED BY <1>2, <2>2, <2>3
<1>3. CASE SkipReclaim(n)
  <2>1. /\ db' = db /\ disk' = disk /\ proc[n].pc = "first" /\ proc[n].rec = "idle"
        /\ SetPc(n, "lead")
    BY <1>3 DEF SkipReclaim
  <2>2. /\ proc'[n].pc = "lead" /\ proc'[n].rec = "idle" /\ proc'[n].elect = proc[n].elect
        /\ \A k \in Nodes \ {n} : proc'[k] = proc[k]
    BY <1>0, <2>1, PcAt
  <2>3. Sound(n)'  BY <1>0, <1>w, <2>1, <2>2 DEF Sound, Placed, Filed, Known, Flagged
  <2> QED BY <2>1, <2>2, <2>3, Untouched, SoundKept
<1>4. CASE Look(n)
  <2>0. proc[n].pc \in {"first", "lead"} /\ proc[n].rec = "idle" /\ Reclaims(n)
    BY <1>4 DEF Look
  <2>1. CASE PassEnds(n)
    <3>1. disk' = disk \/ disk' = [disk EXCEPT ![n].hold = FALSE]  BY <1>4, <2>1 DEF Look
    <3> QED BY <1>1, <2>0, <2>1, <3>1
  <2>2. CASE ~PassEnds(n)
    <3>1. /\ UNCHANGED <<db, disk>>
          /\ \E m \in Interims(n) : proc' = [proc EXCEPT ![n].rec = "quiesce", ![n].with = m,
                                                         ![n].term = db[m].me.term]
      BY <1>4, <2>2 DEF Look
    <3>2. PICK m \in Nodes \ {n} : proc' = [proc EXCEPT ![n].rec = "quiesce", ![n].with = m,
                                                        ![n].term = db[m].me.term]
      BY <3>1 DEF Interims
    <3>3. /\ proc'[n].pc = proc[n].pc /\ proc'[n].rec = "quiesce" /\ proc'[n].with = m
          /\ proc'[n].elect = proc[n].elect
          /\ \A k \in Nodes \ {n} : proc'[k] = proc[k]
      BY <1>0, <3>2 DEF ProcT, LeadProc
    <3>4. n = Preferred  BY <1>w, <2>0 DEF Reclaims
    <3>5. Sound(n)'
      BY <1>0, <1>w, <2>0, <3>1, <3>3, <3>4 DEF Sound, Placed, Filed, Known, Flagged
    <3> QED BY <3>1, <3>3, <3>5, Untouched, SoundKept
  <2> QED BY <2>1, <2>2
<1>5. CASE failover_quiesce(n)
  <2>0. PICK m \in Nodes : m = proc[n].with  BY <1>0
  <2>1. disk' = disk /\ proc[n].rec = "quiesce" /\ m # n
    BY <1>5, <1>r, <2>0 DEF failover_quiesce
  <2>2. /\ db'[m].me.id = db[m].me.id /\ db'[m].me.role = db[m].me.role
        /\ \A k \in Nodes \ {m} : db'[k] = db[k]
    <3>1. \/ db' = db \/ db' = [db EXCEPT ![m].ro = TRUE]
          \/ db' = [db EXCEPT ![m].ro = Managed, ![m].me.fenced = TRUE]
      BY <1>5, <2>0 DEF failover_quiesce
    <3>2. CASE db' = db  BY <3>2
    <3>3. CASE db' = [db EXCEPT ![m].ro = TRUE]  BY <1>0, <3>3 DEF DbT, LeadDb
    <3>4. CASE db' = [db EXCEPT ![m].ro = Managed, ![m].me.fenced = TRUE]
      <4>1. /\ db'[m].me = [db[m].me EXCEPT !.fenced = TRUE]
            /\ \A k \in Nodes \ {m} : db'[k] = db[k]
        BY <1>0, <3>4, WritesAt, Numbers
      <4>2. /\ [db[m].me EXCEPT !.fenced = TRUE].id = db[m].me.id
            /\ [db[m].me EXCEPT !.fenced = TRUE].role = db[m].me.role
        BY Parts, ReFenced
      <4> QED BY <4>1, <4>2
    <3> QED BY <3>1, <3>2, <3>3, <3>4
  <2>3. PICK l \in {"stage", "resume", "dump"} :
           proc' = [proc EXCEPT ![n].rec = l] \/ proc' = [proc EXCEPT ![n].rec = l, ![m].timer = TRUE]
    BY <1>5, <2>0 DEF failover_quiesce, Rec
  <2>4. /\ proc'[n].pc = proc[n].pc /\ proc'[n].rec = l
        /\ proc'[n].elect = proc[n].elect /\ proc'[n].with = proc[n].with
        /\ \A k \in Nodes \ {n} : /\ proc'[k].pc = proc[k].pc /\ proc'[k].rec = proc[k].rec
                                  /\ proc'[k].elect = proc[k].elect
                                  /\ proc'[k].with = proc[k].with
    BY <1>0, <2>1, <2>3 DEF ProcT, LeadProc
  <2>5. Sound(n)'
    BY <1>0, <1>w, <1>r, <2>1, <2>2, <2>4 DEF Sound, Placed, Filed, Known, Flagged
  <2>6. \A k \in Nodes \ {n} : Same(k)  BY <2>1, <2>2, <2>4 DEF Same
  <2> QED BY <2>5, <2>6, SoundKept
<1>6. CASE Stage(n)
  <2>1. proc[n].rec = "stage" /\ db' = db  BY <1>6 DEF Stage
  <2>2. CASE disk' = [disk EXCEPT ![n].armed = {db[proc[n].with]}] /\ Rec(n, "fence")
    <3>1. /\ disk'[n].ident = disk[n].ident /\ disk'[n].promote = disk[n].promote
          /\ disk'[n].reclaim = disk[n].reclaim
          /\ \A k \in Nodes \ {n} : disk'[k] = disk[k]
      BY <1>0, <2>2, ArmedAt
    <3>2. Sound(n)'  BY <1>2, <2>1, <2>2, <3>1 DEF Recs
    <3>3. \A k \in Nodes \ {n} : proc'[k] = proc[k]  BY <1>0, <2>2, RecAt
    <3> QED BY <2>1, <3>1, <3>2, <3>3, Untouched, SoundKept
  <2>3. CASE disk' = disk /\ Rec(n, "resume")
    <3>1. Sound(n)'  BY <1>2, <2>1, <2>3 DEF Recs
    <3>2. \A k \in Nodes \ {n} : proc'[k] = proc[k]  BY <1>0, <2>3, RecAt
    <3> QED BY <2>1, <2>3, <3>1, <3>2, Untouched, SoundKept
  <2> QED BY <1>6, <2>2, <2>3 DEF Stage
<1>7. CASE failover_resume(n)
  <2>0. PICK m \in Nodes : m = proc[n].with  BY <1>0
  <2>1. disk' = disk /\ proc[n].rec = "resume" /\ m # n /\ Rec(n, "dump")
    BY <1>7, <1>r, <2>0 DEF failover_resume
  <2>2. /\ db'[m].me.id = db[m].me.id /\ db'[m].me.role = db[m].me.role
        /\ \A k \in Nodes \ {m} : db'[k] = db[k]
    <3>1. db' = db \/ db' = [db EXCEPT ![m].ro = FALSE, ![m].me.fenced = FALSE]
      BY <1>7, <2>0 DEF failover_resume
    <3>2. /\ [db[m].me EXCEPT !.fenced = FALSE].id = db[m].me.id
          /\ [db[m].me EXCEPT !.fenced = FALSE].role = db[m].me.role
      BY Parts, ReFenced
    <3> QED BY <1>0, <3>1, <3>2, WritesAt
  <2>3. Sound(n)'  BY <1>2, <2>1, <2>2 DEF Recs
  <2>4. \A k \in Nodes \ {n} : proc'[k] = proc[k]  BY <1>0, <2>1, RecAt
  <2>5. \A k \in Nodes \ {n} : Same(k)  BY <2>1, <2>2, <2>4 DEF Same
  <2> QED BY <2>3, <2>5, SoundKept
<1>8. CASE FetchDump(n)
  <2>1. proc[n].rec = "dump"  BY <1>8 DEF FetchDump
  <2>2. CASE Rec(n, "fence") /\ db' = db
    <3>1. \E m \in Nodes : \E v, w : disk' = [disk EXCEPT ![n].pending = v, ![m].snap = w]
      <4>1. ~PassEnds(n)
        <5>1. proc'[n].rec = "fence"  BY <1>0, <2>2, RecAt
        <5>2. PassEnds(n) => proc'[n].rec = "idle"  BY PassEndAt
        <5> QED BY <5>1, <5>2
      <4>2. PICK m \in Nodes : m = proc[n].with  BY <1>0
      <4>3. \E v, w : disk' = [disk EXCEPT ![n].pending = v, ![m].snap = w]
        BY <1>8, <4>1, <4>2 DEF FetchDump
      <4> QED BY <4>3
    <3>2. /\ disk'[n].ident = disk[n].ident /\ disk'[n].promote = disk[n].promote
          /\ disk'[n].reclaim = disk[n].reclaim
          /\ \A k \in Nodes \ {n} : /\ disk'[k].ident = disk[k].ident
                                    /\ disk'[k].promote = disk[k].promote
                                    /\ disk'[k].pending = disk[k].pending
                                    /\ disk'[k].armed = disk[k].armed
                                    /\ disk'[k].reclaim = disk[k].reclaim
      <4>1. PICK m \in Nodes : \E v, w : disk' = [[disk EXCEPT ![n].pending = v] EXCEPT ![m].snap = w]
        BY <3>1
      <4> QED BY <1>0, <4>1 DEF DiskT, LeadDisk
    <3>3. Sound(n)'  BY <1>2, <2>1, <2>2, <3>2 DEF Recs
    <3>4. \A k \in Nodes \ {n} : proc'[k] = proc[k]  BY <1>0, <2>2, RecAt
    <3>5. \A k \in Nodes \ {n} : Same(k)  BY <2>2, <3>2, <3>4 DEF Same
    <3> QED BY <3>3, <3>5, SoundKept
  <2>3. CASE PassEnds(n) /\ disk' = disk
    BY <1>1, <1>r, <2>1, <2>3
  <2> QED BY <1>8, <2>2, <2>3 DEF FetchDump
<1>9. CASE FenceWrites(n)
  <2> DEFINE t == Larger(db[n].me.term, proc[n].term)
             me == [db[n].me EXCEPT !.fenced = TRUE, !.role = "leader", !.acting = FALSE,
                                    !.term = t]
  <2>1. /\ SetMe(n, me) /\ Rec(n, "flag") /\ disk' = disk /\ proc[n].rec = "fence"
    BY <1>9 DEF FenceWrites
  <2>2. me.id = db[n].me.id /\ me.role = "leader"
    <3>1. t \in Nat  BY Parts DEF Larger
    <3> HIDE DEF t
    <3> QED BY <3>1, Parts, FencedOff
  <2> HIDE DEF me
  <2>3. db'[n].me = me /\ \A k \in Nodes \ {n} : db'[k] = db[k]  BY <1>0, <2>1, MeAt
  <2>4. Sound(n)'  BY <1>2, <2>1, <2>2, <2>3 DEF Recs
  <2>5. \A k \in Nodes \ {n} : proc'[k] = proc[k]  BY <1>0, <2>1, RecAt
  <2> QED BY <2>1, <2>3, <2>4, <2>5, Untouched, SoundKept
<1>10. CASE WriteReclaim(n)
  <2> DEFINE me == [db[n].me EXCEPT !.fenced = FALSE]
  <2>1. /\ db' = db /\ proc[n].rec = "flag" /\ Rec(n, "demote")
        /\ disk' = [disk EXCEPT ![n].reclaim = {me}]
    BY <1>10 DEF WriteReclaim
  <2>2. me.id = db[n].me.id  BY Parts, ReFenced
  <2> HIDE DEF me
  <2>3. /\ disk'[n].ident = disk[n].ident /\ disk'[n].promote = disk[n].promote
        /\ disk'[n].pending = disk[n].pending /\ disk'[n].armed = disk[n].armed
        /\ disk'[n].reclaim = {me}
        /\ \A k \in Nodes \ {n} : disk'[k] = disk[k]
    BY <1>0, <2>1, ReclaimAt
  <2>4. /\ proc'[n].rec = "demote" /\ proc'[n].pc = proc[n].pc
        /\ proc'[n].elect = proc[n].elect /\ proc'[n].with = proc[n].with
        /\ \A k \in Nodes \ {n} : proc'[k] = proc[k]
    BY <1>0, <2>1, RecAt
  <2>5. Sound(n)'
    BY <1>0, <1>w, <1>r, <2>1, <2>2, <2>3, <2>4 DEF Sound, Placed, Filed, Known, Flagged
  <2> QED BY <2>1, <2>3, <2>4, <2>5, Untouched, SoundKept
<1>11. CASE Demote(n)
  <2>0. PICK m \in Nodes : m = proc[n].with  BY <1>0
  <2>1. proc[n].rec = "demote" /\ m # n  BY <1>11, <1>r, <2>0 DEF Demote
  <2>2. ASSUME proc'[n].pc = "down", proc'[n].rec = "idle", proc'[n].elect = "no",
               db'[n] = db[n], disk'[n] = disk[n]
        PROVE  Sound(n)'
    BY <1>0, <1>w, <1>r, <2>1, <2>2 DEF Sound, Placed, Filed, Known, Flagged
  <2>3. CASE UNCHANGED <<db, disk>> /\ proc' = [proc EXCEPT ![n] = Off("down")]
    <3>1. /\ proc'[n].pc = "down" /\ proc'[n].rec = "idle" /\ proc'[n].elect = "no"
          /\ \A k \in Nodes \ {n} : proc'[k] = proc[k]
      BY <1>0, <2>3, OffAt
    <3>2. Sound(n)'  BY <2>2, <2>3, <3>1
    <3> QED BY <2>3, <3>1, <3>2, Untouched, SoundKept
  <2>4. CASE ~(UNCHANGED <<db, disk>> /\ proc' = [proc EXCEPT ![n] = Off("down")])
    <3> DEFINE me == [db[m].me EXCEPT !.url = n, !.role = "worker", !.acting = FALSE,
                                      !.fenced = FALSE]
    <3>1. /\ Answers(n, m) /\ Acting(m)
          /\ SetMe(m, me) /\ disk' = [disk EXCEPT ![m].ident = {me}]
          /\ proc' = [proc EXCEPT ![n] = Off("down"), ![m].pc = "leaving"]
      BY <1>11, <2>0, <2>4 DEF Demote
    <3>2. me.id = db[m].me.id  BY Parts, Demoted
    <3> HIDE DEF me
    <3>3. db'[m].me = me /\ \A k \in Nodes \ {m} : db'[k] = db[k]  BY <1>0, <3>1, MeAt
    <3>4. /\ disk'[m].ident = {me} /\ disk'[m].promote = disk[m].promote
          /\ disk'[m].pending = disk[m].pending /\ disk'[m].armed = disk[m].armed
          /\ disk'[m].reclaim = disk[m].reclaim
          /\ \A k \in Nodes \ {m} : disk'[k] = disk[k]
      BY <1>0, <3>1, IdentAt
    <3>5. /\ proc'[m].pc = "leaving" /\ proc'[m].rec = proc[m].rec
          /\ proc'[m].elect = proc[m].elect /\ proc'[m].with = proc[m].with
          /\ proc'[n] = Off("down")
          /\ \A k \in Nodes \ {m, n} : proc'[k] = proc[k]
      <4> DEFINE half == [proc EXCEPT ![n] = Off("down")]
      <4>1. proc' = [half EXCEPT ![m].pc = "leaving"]  BY <3>1
      <4>2. /\ half \in [Nodes -> LeadProc] /\ half[n] = Off("down")
            /\ \A k \in Nodes \ {n} : half[k] = proc[k]
        BY <1>0, OffTyped DEF ProcT, PCs
      <4> HIDE DEF half
      <4> QED BY <2>1, <4>1, <4>2 DEF LeadProc
    <3>6. Sound(n)'
      <4>1. proc'[n].pc = "down" /\ proc'[n].rec = "idle" /\ proc'[n].elect = "no"
        BY <3>5 DEF Off
      <4> QED BY <2>1, <2>2, <3>3, <3>4, <4>1
    <3>7. Sound(m)'
      <4>1. Placed(m) /\ Filed(m) /\ Known(m)  BY DEF Sound
      <4>2. proc[m].pc \in {"lead", "leaving"}
        <5>1. db[m].me.acting => db[m].me.role = "leader"  BY Parts, IdentFields
        <5> QED BY <3>1, <4>1, <5>1 DEF Answers, Serving, Leads, Placed, Acting
      <4>3. proc[m].rec = "idle" /\ proc[m].elect = "no" /\ db[m].me.id = m
        BY <1>r, <2>1, <4>1, <4>2 DEF Placed, Known
      <4> QED BY <3>2, <3>3, <3>4, <3>5, <4>1, <4>2, <4>3
          DEF Sound, Placed, Filed, Known, Flagged
    <3>8. \A k \in Nodes \ {m, n} : Sound(k)'
      BY <3>3, <3>4, <3>5, Untouched, SoundKept
    <3> QED BY <3>6, <3>7, <3>8
  <2> QED BY <2>3, <2>4
<1> QED BY <1>3, <1>4, <1>5, <1>6, <1>7, <1>8, <1>9, <1>10, <1>11 DEF ReclaimStep

LEMMA OwnLeader ==
    ASSUME TInv, \A k \in Nodes : Sound(k), NEW n \in Nodes,
           Leave(n) \/ QuiesceExpires(n) \/ ReopenWrites(n)
    PROVE  \A k \in Nodes : Sound(k)'
<1>0. DbT /\ DiskT /\ ProcT /\ Placed(n) /\ Filed(n) /\ Known(n)
  BY DEF TInv, Sound
<1>1. CASE Leave(n)
  <2>1. /\ proc[n].pc = "leaving" /\ db' = db /\ disk' = disk
        /\ proc' = [proc EXCEPT ![n] = Off("down")]
    BY <1>1 DEF Leave
  <2>2. /\ proc'[n].pc = "down" /\ proc'[n].rec = "idle" /\ proc'[n].elect = "no"
        /\ \A k \in Nodes \ {n} : proc'[k] = proc[k]
    BY <1>0, <2>1, OffAt
  <2>3. Sound(n)'
    BY <1>0, <2>1, <2>2 DEF Sound, Placed, Filed, Known, Flagged, Copying
  <2> QED BY <2>1, <2>2, <2>3, Untouched, SoundKept
<1>2. CASE QuiesceExpires(n)
  <2>1. /\ db'[n].me.id = db[n].me.id /\ db'[n].me.role = db[n].me.role
        /\ \A k \in Nodes \ {n} : db'[k] = db[k]
    <3>1. db' = db \/ db' = [db EXCEPT ![n].ro = FALSE, ![n].me.fenced = FALSE]
      BY <1>2 DEF QuiesceExpires
    <3>2. /\ [db[n].me EXCEPT !.fenced = FALSE].id = db[n].me.id
          /\ [db[n].me EXCEPT !.fenced = FALSE].role = db[n].me.role
      BY Parts, ReFenced
    <3> QED BY <1>0, <3>1, <3>2, WritesAt
  <2>2. \A k \in Nodes : Same(k)
    BY <1>0, <1>2, <2>1 DEF QuiesceExpires, Same, ProcT, LeadProc
  <2> QED BY <2>2, SoundKept
<1>3. CASE ReopenWrites(n)
  <2>1. /\ db'[n].me.id = db[n].me.id /\ db'[n].me.role = db[n].me.role
        /\ \A k \in Nodes \ {n} : db'[k] = db[k]
    <3>1. /\ [[db[n].me EXCEPT !.acting = FALSE] EXCEPT !.fenced = FALSE].id = db[n].me.id
          /\ [[db[n].me EXCEPT !.acting = FALSE] EXCEPT !.fenced = FALSE].role = db[n].me.role
      BY Parts, Stopped
    <3> QED BY <1>0, <1>3, <3>1, StopAt DEF ReopenWrites
  <2>2. disk' = [disk EXCEPT ![n].hold = TRUE] /\ proc' = proc  BY <1>3 DEF ReopenWrites
  <2>3. \A k \in Nodes : Same(k)
    BY <1>0, <2>1, <2>2 DEF Same, DiskT, LeadDisk
  <2> QED BY <2>3, SoundKept
<1> QED BY <1>1, <1>2, <1>3

LEMMA OwnFault ==
    ASSUME TInv, \A k \in Nodes : Sound(k), ~torn',
           \/ \E n \in Nodes : Fault(n) \/ \E m \in Nodes : Cut(m, n)
           \/ Heal
    PROVE  \A k \in Nodes : Sound(k)'
<1>0. ProcT  BY DEF TInv
<1>1. ASSUME NEW n \in Nodes, Dies(n)  PROVE \A k \in Nodes : Sound(k)'
  <2>1. /\ db' = db /\ disk' = disk /\ proc' = [proc EXCEPT ![n] = Off("down")]
        /\ ~Unexplained(n)
    BY <1>1 DEF Dies
  <2>2. /\ proc'[n].pc = "down" /\ proc'[n].rec = "idle" /\ proc'[n].elect = "no"
        /\ \A k \in Nodes \ {n} : proc'[k] = proc[k]
    BY <1>0, <2>1, OffAt
  <2>3. Sound(n)'
    BY <2>1, <2>2 DEF Sound, Placed, Filed, Known, Flagged, Copying, Unexplained
  <2> QED BY <2>1, <2>2, <2>3, Untouched, SoundKept
<1>2. ASSUME UNCHANGED <<db, disk, proc>>  PROVE \A k \in Nodes : Sound(k)'
  BY <1>2, Untouched, SoundKept
<1> QED BY <1>1, <1>2 DEF Fault, Crash, HostDown, HostUp, Cut, Heal

\* What is torn once stays torn.
LEMMA TornStays == ASSUME [Next]_vars, ~torn' PROVE ~torn
<1> USE DEF ledger
<1>1. ASSUME NEW n \in Nodes, BootStep(n)  PROVE torn' = torn
  BY Zenon, <1>1 DEF BootStep, Adopt, Takeover, Restore, apply_promote_flag, apply_reclaim_flag,
              release_orphan_fence
<1>2. ASSUME NEW n \in Nodes, LoopStep(n) \/ CopyStep(n)  PROVE torn' = torn
  BY Zenon, <1>2 DEF LoopStep, CopyStep, Heartbeat, Miss, try_elect, ElectPending, ElectFlag,
              BaseBackup, Replay, FetchSnapshot, StoreSnapshot
<1>3. ASSUME NEW n \in Nodes, ReclaimStep(n)  PROVE ~torn
  <2>1. CASE FenceWrites(n)  BY <2>1 DEF FenceWrites
  <2>2. CASE ~FenceWrites(n)
    <3>1. torn' = torn
      BY Zenon, <1>3, <2>2 DEF ReclaimStep, SkipReclaim, Look, failover_quiesce, Stage,
                        failover_resume, FetchDump, WriteReclaim, Demote
    <3> QED BY <3>1
  <2> QED BY <2>1, <2>2
<1>4. ASSUME NEW n \in Nodes, LeaderStep(n) \/ Write(n) \/ ReopenWrites(n)  PROVE torn' = torn
  BY <1>4 DEF LeaderStep, Leave, QuiesceExpires, Confirm, Snapshot, Write, ReopenWrites
<1>5. ASSUME NEW n \in Nodes, Fault(n)  PROVE ~torn
  BY <1>5 DEF Fault, Crash, HostDown, HostUp, Dies
<1>6. ASSUME Heal \/ \E m, n \in Nodes : Cut(m, n)  PROVE torn' = torn
  BY <1>6 DEF Cut, Heal
<1>7. ASSUME UNCHANGED vars  PROVE torn' = torn
  BY <1>7 DEF vars
<1> QED BY <1>1, <1>2, <1>3, <1>4, <1>5, <1>6, <1>7 DEF Next

LEMMA OwnNext == TInv /\ OwnInv /\ [Next]_vars => OwnInv'
<1> SUFFICES ASSUME TInv, OwnInv, [Next]_vars, ~torn' PROVE \A k \in Nodes : Sound(k)'
  BY DEF OwnInv
<1>0. \A k \in Nodes : Sound(k)  BY TornStays DEF OwnInv
<1>1. CASE Next
  BY <1>0, <1>1, OwnBoot, OwnLoop, OwnCopy, OwnReclaim, OwnLeader, OwnFault
  DEF Next, LeaderStep
<1>2. CASE UNCHANGED vars  BY <1>0, <1>2, Untouched, SoundKept DEF vars
<1> QED BY <1>1, <1>2

LEMMA OwnHolds == OwnInv => IdentityIsOwn
  BY DEF OwnInv, Sound, Known, IdentityIsOwn, Serving, Leads

\* Nothing that replaces the database of a node (a promoted replica, a restored dump, an
\* armed clone) leaves it serving under another node's identity, unless a process died
\* between the copy and its flag (apply_promote_flag, apply_reclaim_flag).
THEOREM IdentityIsOwnHolds == Spec => []IdentityIsOwn
<1>1. Init => TInv /\ OwnInv  BY TInit, OwnInit
<1>2. (TInv /\ OwnInv) /\ [Next]_vars => (TInv /\ OwnInv)'  BY TNext, OwnNext
<1> QED BY <1>1, <1>2, OwnHolds, PTL DEF Spec

-----------------------------------------------------------------------------
(* The interim leader outranks the preferred one.                          *)

\* A roster names every worker: only the first of them is ever elected.
First == 1

\* A term the first worker has reached, or takes up again when its flag is applied.
Within(t) ==
    IF disk[First].promote = "none" THEN t <= db[First].me.term
                                    ELSE \A i \in disk[First].ident : t <= i.term

\* Only the first worker is elected, and only it and the preferred leader ever lead.
Elected(n) ==
    /\ disk[n].roster \in {{}, Workers}
    /\ disk[n].promote # "none" \/ proc[n].elect # "no" => n = First
    /\ n \notin {Preferred, First} => db[n].me.role = "worker"
    /\ proc[n].elect # "no" => \A i \in disk[n].ident : db[n].me.term <= i.term

\* The preferred leader leads, with its identity or with the one it is to take up again.
Home(z) ==
    /\ proc[z].pc # "work"
    /\ \A i \in disk[z].reclaim : i.role = "leader"
    /\ disk[z].reclaim = {} => db[z].me.role = "leader"

\* The terms it has seen are the first worker's.
Seen(z) ==
    /\ \A i \in disk[z].reclaim : Within(i.term)
    /\ disk[z].reclaim = {} \/ proc[z].pc \in {"first", "lead"} => Within(db[z].me.term)
    /\ proc[z].rec # "idle" => Within(proc[z].term)

RankInv == ~torn => (\A n \in Nodes : Elected(n)) /\ Home(Preferred) /\ Seen(Preferred)
AllSound == \A n \in Nodes : Sound(n)
Ranked  == (\A n \in Nodes : Elected(n)) /\ Home(Preferred)

LEMMA FirstNode == First \in Workers /\ First \in Nodes /\ First # Preferred
                   /\ \A n \in Workers : First <= n
  BY ConstantsAssumption, Numbers DEF First, Workers, Nodes, Preferred

LEMMA RankInit == Init => RankInv
<1> SUFFICES ASSUME Init
             PROVE  (\A n \in Nodes : Elected(n)) /\ Home(Preferred) /\ Seen(Preferred)
  BY DEF RankInv
<1>1. \A n \in Nodes :
        /\ db[n].me.role = IF n = Preferred THEN "leader" ELSE "worker"
        /\ db[n].me.term = 1
        /\ disk[n].promote = "none" /\ disk[n].roster = {} /\ disk[n].reclaim = {}
        /\ proc[n].pc = IF n = Preferred THEN "lead" ELSE "work"
        /\ proc[n].elect = "no" /\ proc[n].rec = "idle"
  BY DEF Init, Off
<1>2. Within(1)  BY <1>1, FirstNode DEF Within
<1> QED BY <1>1, <1>2, Numbers DEF Elected, Home, Seen

LEMMA ElectedKept == ASSUME NEW n \in Nodes, Elected(n), SameRank(n) PROVE Elected(n)'
  BY DEF Elected, SameRank
LEMMA HomeKept == ASSUME NEW n \in Nodes, Home(n), SameRank(n) PROVE Home(n)'
  BY DEF Home, SameRank
LEMMA RankUntouched ==
    ASSUME NEW n \in Nodes, db'[n] = db[n], disk'[n] = disk[n], proc'[n] = proc[n]
    PROVE  SameRank(n)
  BY DEF SameRank
\* Terms the first worker has reached stay reached.
Grows == \A t \in Nat : Within(t) => Within(t)'
LEMMA GrowsSame == ASSUME SameRank(First) PROVE Grows
  BY DEF Grows, Within, SameRank
\* A pass that learns no term, and a boot that takes up the identity it wrote.
LEMMA SeenKept ==
    ASSUME TInv, Seen(Preferred), Grows, SameRank(Preferred)
    PROVE  Seen(Preferred)'
<1>1. /\ \A i \in disk[Preferred].reclaim : i.term \in Nat
      /\ db[Preferred].me.term \in Nat /\ proc[Preferred].term \in Nat
  BY Parts, Numbers, IdentFields DEF LeadDisk
<1>2. \A t \in Nat : Within(t) => Within(t)'  BY DEF Grows
<1> DEFINE b == db[Preferred].me.term
           p == proc[Preferred].term
<1>3. PICK x \in Nat, y \in Nat : x = b /\ y = p  BY <1>1
<1>4. x = b' /\ y = p'  BY <1>3 DEF SameRank
<1>5. (\A i \in disk[Preferred].reclaim : Within(i.term))'
  BY <1>1, <1>2 DEF SameRank, Seen
<1>6. Within(b) => Within(b)'
  <2>1. Within(x) => Within(x)'  BY <1>2
  <2> QED BY <1>3, <1>4, <2>1 DEF Within
<1>7. Within(p) => Within(p)'
  <2>1. Within(y) => Within(y)'  BY <1>2
  <2> QED BY <1>3, <1>4, <2>1 DEF Within
<1> QED BY <1>5, <1>6, <1>7 DEF SameRank, Seen

\* The parts of the preferred leader, when another node moves.
LEMMA RankElsewhere ==
    ASSUME TInv, Ranked, Seen(Preferred), NEW n \in Nodes \ {Preferred}, Elected(n)', Grows,
           \A k \in Nodes \ {n} : SameRank(k)
    PROVE  Ranked' /\ Seen(Preferred)'
<1>1. \A k \in Nodes : Elected(k)'  BY ElectedKept DEF Ranked
<1>2. Home(Preferred)'  BY Numbers, HomeKept DEF Ranked
<1>3. Seen(Preferred)'  BY Numbers, SeenKept
<1> QED BY <1>1, <1>2, <1>3 DEF Ranked

\* The preferred leader moves, and the first worker does not.
LEMMA RankAtHome ==
    ASSUME TInv, Ranked, Home(Preferred)', Elected(Preferred)',
           \A k \in Nodes \ {Preferred} : SameRank(k)
    PROVE  Ranked' /\ Grows
<1>1. \A k \in Nodes : Elected(k)'  BY ElectedKept DEF Ranked
<1>2. Grows  BY FirstNode, GrowsSame
<1> QED BY <1>1, <1>2 DEF Ranked

\* A boot replaces a database only where a flag explains it.
LEMMA RankReplaced ==
    ASSUME TInv, AllSound, Ranked, Seen(Preferred), NEW n \in Nodes,
           \A k \in Nodes \ {n} : SameRank(k),
           disk'[n].ident = disk[n].ident, disk'[n].promote = disk[n].promote,
           disk'[n].reclaim = disk[n].reclaim, disk'[n].roster = disk[n].roster,
           proc'[n].elect = proc[n].elect, proc'[n].rec = proc[n].rec,
           proc'[n].term = proc[n].term,
           proc[n].pc \notin {"first", "lead", "work"},
           proc'[n].pc \notin {"first", "lead", "work"},
           \/ db'[n].me.role = db[n].me.role /\ db'[n].me.term = db[n].me.term
           \/ Flagged(n)
    PROVE  Ranked' /\ Seen(Preferred)'
<1>1. Placed(n) /\ Filed(n) /\ Elected(n)  BY DEF AllSound, Sound, Ranked
<1>2. proc[n].elect = "no" /\ proc[n].rec = "idle"  BY <1>1 DEF Placed
<1>3. /\ disk[n].reclaim # {} => n = Preferred
      /\ disk[n].promote # "none" => n = First
  BY <1>1 DEF Filed, Elected
<1>4. Elected(n)'  BY <1>1, <1>2, <1>3 DEF Elected, Flagged
<1>5. CASE n # Preferred
  <2>1. Grows
    <3>1. CASE n = First
      BY <1>3, <3>1, FirstNode, <1>5 DEF Grows, Within, Flagged
    <3>2. CASE n # First  BY <3>2, FirstNode, GrowsSame
    <3> QED BY <3>1, <3>2
  <2> QED BY <1>4, <1>5, <2>1, RankElsewhere
<1>6. CASE n = Preferred
  <2>1. Home(Preferred)'
    BY <1>2, <1>3, <1>6, FirstNode DEF Home, Ranked, Flagged
  <2>2. Ranked' /\ Grows  BY <1>4, <1>6, <2>1, RankAtHome
  <2>3. CASE db'[n].me.role = db[n].me.role /\ db'[n].me.term = db[n].me.term
    <3>1. /\ \A i \in disk[Preferred].reclaim : i.term \in Nat
          /\ db[Preferred].me.term \in Nat
      BY Parts, Numbers, IdentFields DEF LeadDisk
    <3> DEFINE b == db[Preferred].me.term
    <3>2. PICK x \in Nat : x = b  BY <3>1
    <3>3. x = b'  BY <1>6, <2>3, <3>2
    <3>4. Within(b) => Within(b)'
      <4>1. Within(x) => Within(x)'  BY <2>2 DEF Grows
      <4> QED BY <3>2, <3>3, <4>1 DEF Within
    <3>5. (\A i \in disk[Preferred].reclaim : Within(i.term))'
      BY <1>6, <2>2, <3>1 DEF Grows, Seen
    <3> QED BY <1>2, <1>6, <2>2, <3>4, <3>5 DEF Seen
  <2>4. CASE Flagged(n)
    <3>1. \A i \in disk[Preferred].reclaim : i.term \in Nat
      BY Parts, Numbers, IdentFields DEF LeadDisk
    <3>2. (\A i \in disk[Preferred].reclaim : Within(i.term))'
      BY <1>6, <2>2, <3>1 DEF Grows, Seen
    <3>3. disk[Preferred].reclaim # {}  BY <1>3, <1>6, <2>4, FirstNode DEF Flagged
    <3> QED BY <1>2, <1>6, <2>2, <3>2, <3>3 DEF Seen
  <2> QED BY <2>3, <2>4
<1> QED BY <1>5, <1>6

LEMMA RankBoot ==
    ASSUME TInv, AllSound, Ranked, Seen(Preferred), NEW n \in Nodes, BootStep(n)
    PROVE  Ranked' /\ Seen(Preferred)'
<1>0. DbT /\ DiskT /\ ProcT /\ Placed(n) /\ Filed(n) /\ Known(n)
  BY DEF TInv, AllSound, Sound
<1>1. \A k \in Nodes \ {n} : db'[k] = db[k] /\ disk'[k] = disk[k] /\ proc'[k] = proc[k]
  BY <1>0 DEF BootStep, Adopt, Takeover, Restore, apply_promote_flag, apply_reclaim_flag,
              release_orphan_fence, SetPc, SetMe, DbT, DiskT, ProcT
<1>2. \A k \in Nodes \ {n} : SameRank(k)  BY <1>1, RankUntouched
<1>3. ASSUME NEW l \in {"takeover", "restore", "down", "promote", "reclaim", "orphan"},
             SetPc(n, l), proc[n].pc \notin {"first", "lead", "work"},
             disk'[n].ident = disk[n].ident, disk'[n].promote = disk[n].promote,
             disk'[n].reclaim = disk[n].reclaim, disk'[n].roster = disk[n].roster,
             db'[n].me = db[n].me \/ Flagged(n)
      PROVE  Ranked' /\ Seen(Preferred)'
  <2>1. /\ proc'[n].elect = proc[n].elect /\ proc'[n].rec = proc[n].rec
        /\ proc'[n].term = proc[n].term /\ proc'[n].pc = l
    BY <1>0, <1>3, PcAt
  <2> QED BY <1>2, <1>3, <2>1, RankReplaced
<1>4. CASE Adopt(n)
  <2>1. SetPc(n, "takeover") /\ proc[n].pc = "down"  BY <1>4 DEF Adopt
  <2>2. CASE UNCHANGED <<db, disk>>  BY <1>3, <2>1, <2>2
  <2>3. CASE disk' = [disk EXCEPT ![n].armed = {}] /\ disk[n].armed # {}
    <3>1. Flagged(n)  BY <1>0, <2>1, <2>3 DEF Placed, Filed, Flagged, Copying
    <3>2. /\ disk'[n].ident = disk[n].ident /\ disk'[n].promote = disk[n].promote
          /\ disk'[n].reclaim = disk[n].reclaim /\ disk'[n].roster = disk[n].roster
      BY <1>0, <2>3 DEF DiskT, LeadDisk
    <3> QED BY <1>3, <2>1, <3>1, <3>2
  <2> QED BY <1>4, <2>2, <2>3 DEF Adopt
<1>5. CASE Takeover(n)
  <2>1. disk' = disk /\ proc[n].pc = "takeover"  BY <1>5 DEF Takeover
  <2>2. \/ db' = db /\ SetPc(n, "restore")
        \/ disk[n].promote = "standby" /\ SetPc(n, "restore")
        \/ db' = db /\ SetPc(n, "down")
    BY <1>5 DEF Takeover
  <2>3. disk[n].promote = "standby" => Flagged(n)  BY DEF Flagged
  <2> QED BY <1>3, <2>1, <2>2, <2>3
<1>6. CASE Restore(n)
  <2>1. SetPc(n, "promote") /\ proc[n].pc = "restore"  BY <1>6 DEF Restore
  <2>2. CASE db' = [db EXCEPT ![n].ro = FALSE] /\ disk' = disk
    <3>1. db'[n].me = db[n].me  BY <1>0, <2>2 DEF DbT, LeadDb
    <3> QED BY <1>3, <2>1, <2>2, <3>1
  <2>3. CASE disk' = [disk EXCEPT ![n].pending = {}] /\ disk[n].pending # {}
    <3>1. Flagged(n)  BY <1>0, <2>1, <2>3 DEF Placed, Filed, Copying
    <3>2. /\ disk'[n].ident = disk[n].ident /\ disk'[n].promote = disk[n].promote
          /\ disk'[n].reclaim = disk[n].reclaim /\ disk'[n].roster = disk[n].roster
      BY <1>0, <2>3 DEF DiskT, LeadDisk
    <3> QED BY <1>3, <2>1, <3>1, <3>2
  <2> QED BY <1>6, <2>2, <2>3 DEF Restore
<1>7. CASE apply_promote_flag(n)
  <2>1. SetPc(n, "reclaim") /\ proc[n].pc = "promote"  BY <1>7 DEF apply_promote_flag
  <2>2. CASE disk[n].promote = "none"
    <3>1. db' = db /\ disk' = [disk EXCEPT ![n].promote = "none"]
      BY <1>7, <2>2 DEF apply_promote_flag
    <3>2. /\ disk'[n].ident = disk[n].ident /\ disk'[n].promote = disk[n].promote
          /\ disk'[n].reclaim = disk[n].reclaim /\ disk'[n].roster = disk[n].roster
      BY <1>0, <2>2, <3>1 DEF DiskT, LeadDisk
    <3> QED BY <1>3, <2>1, <3>1, <3>2
  <2>3. CASE disk[n].promote # "none"
    <3>0. disk[n].ident # {} /\ n = First /\ n # Preferred
      BY <1>0, <2>3, FirstNode DEF Filed, Ranked, Elected
    <3>1. PICK i \in disk[n].ident :
             LET me == [i EXCEPT !.role = "leader", !.acting = TRUE, !.fenced = FALSE,
                                 !.term = @ + 1, !.url = n]
             IN  SetMe(n, me) /\ disk' = [disk EXCEPT ![n].promote = "none", ![n].ident = {me}]
      BY <1>7, <2>3, <3>0 DEF apply_promote_flag
    <3> DEFINE me == [i EXCEPT !.role = "leader", !.acting = TRUE, !.fenced = FALSE,
                               !.term = @ + 1, !.url = n]
    <3>2. i \in LeadIdent /\ i.term \in Nat  BY <1>0, IdentFields DEF DiskT, LeadDisk
    <3>3. me.term = i.term + 1  BY <3>2, Promoted
    <3>4. SetMe(n, me) /\ disk' = [disk EXCEPT ![n].promote = "none", ![n].ident = {me}]
      BY <3>1
    <3> HIDE DEF me
    <3>5. db'[n].me.term = i.term + 1  BY <1>0, <3>3, <3>4, MeAt
    <3>6. disk'[n].promote = "none" /\ disk'[n].roster = disk[n].roster
      BY <1>0, <3>4 DEF DiskT, LeadDisk
    <3>7. proc'[n].elect = "no"
      <4>1. proc[n].elect = "no"  BY <1>0, <2>1 DEF Placed
      <4> QED BY <1>0, <2>1, <4>1, PcAt
    <3>8. Elected(n)'  BY <3>0, <3>6, <3>7 DEF Elected, Ranked
    <3>9. Grows  BY <2>3, <3>0, <3>2, <3>5, <3>6 DEF Grows, Within
    <3> QED BY <1>2, <3>0, <3>8, <3>9, RankElsewhere
  <2> QED BY <2>2, <2>3
<1>8. CASE apply_reclaim_flag(n)
  <2>1. SetPc(n, "orphan") /\ proc[n].pc = "reclaim"  BY <1>8 DEF apply_reclaim_flag
  <2>2. CASE disk[n].reclaim = {}
    <3>1. UNCHANGED <<db, disk>>  BY <1>8, <2>2 DEF apply_reclaim_flag
    <3> QED BY <1>3, <2>1, <3>1
  <2>3. CASE disk[n].reclaim # {}
    <3>0. n = Preferred  BY <1>0, <2>3 DEF Filed
    <3>1. PICK i \in disk[n].reclaim :
            LET me == [i EXCEPT !.role = "leader", !.acting = FALSE, !.fenced = FALSE,
                                !.url = i.id]
            IN  SetMe(n, me) /\ disk' = [disk EXCEPT ![n].reclaim = {}, ![n].ident = {me}]
      BY <1>8, <2>3 DEF apply_reclaim_flag
    <3> DEFINE me == [i EXCEPT !.role = "leader", !.acting = FALSE, !.fenced = FALSE,
                               !.url = i.id]
    <3>2. i \in LeadIdent /\ i.id \in Nodes /\ i.term \in Nat
      BY <1>0, IdentFields DEF DiskT, LeadDisk
    <3>3. me.term = i.term /\ me.role = "leader"  BY <3>2, Reclaimed
    <3>4. SetMe(n, me) /\ disk' = [disk EXCEPT ![n].reclaim = {}, ![n].ident = {me}]
      BY <3>1
    <3> HIDE DEF me
    <3>5. db'[n].me.term = i.term /\ db'[n].me.role = "leader"  BY <1>0, <3>3, <3>4, MeAt
    <3>6. /\ disk'[n].promote = disk[n].promote /\ disk'[n].roster = disk[n].roster
          /\ disk'[n].reclaim = {}
      BY <1>0, <3>4 DEF DiskT, LeadDisk
    <3>7. proc'[n].elect = "no" /\ proc'[n].rec = "idle" /\ proc'[n].pc = "orphan"
      <4>1. proc[n].elect = "no" /\ proc[n].rec = "idle"  BY <1>0, <2>1 DEF Placed
      <4> QED BY <1>0, <2>1, <4>1, PcAt
    <3>8. Elected(n)' /\ Home(n)'
      BY <3>0, <3>5, <3>6, <3>7 DEF Elected, Home, Ranked
    <3>9. Ranked' /\ Grows  BY <1>2, <3>0, <3>8, RankAtHome
    <3>10. Within(i.term)'  BY <3>0, <3>2, <3>9 DEF Seen, Grows
    <3> DEFINE t == i.term
    <3>11. Within(t)' /\ db'[Preferred].me.term = t  BY <3>0, <3>5, <3>10
    <3> HIDE DEF t
    <3>12. Within(db[Preferred].me.term)'  BY <3>11 DEF Within
    <3> QED BY <3>0, <3>6, <3>7, <3>9, <3>12 DEF Seen
  <2> QED BY <2>2, <2>3
<1>9. CASE release_orphan_fence(n)
  <2>1. /\ SetPc(n, Router(db[n].me)) /\ proc[n].pc = "orphan" /\ disk' = disk
        /\ Router(db[n].me) \in {"first", "work"}
    BY <1>9 DEF release_orphan_fence, Router
  <2>3. db'[n].me.term = db[n].me.term /\ db'[n].me.role = db[n].me.role
    <3>1. db' = db \/ SetMe(n, [db[n].me EXCEPT !.fenced = FALSE])
      BY <1>9 DEF release_orphan_fence
    <3>2. /\ [db[n].me EXCEPT !.fenced = FALSE].term = db[n].me.term
          /\ [db[n].me EXCEPT !.fenced = FALSE].role = db[n].me.role
      BY Parts, ReFenced
    <3> QED BY <1>0, <3>1, <3>2, MeAt
  <2>4. /\ proc'[n].pc = Router(db[n].me) /\ proc'[n].elect = proc[n].elect
        /\ proc'[n].rec = proc[n].rec /\ proc'[n].term = proc[n].term
    BY <1>0, <2>1, PcAt
  <2>5. Elected(n)'  BY <2>1, <2>3, <2>4 DEF Elected, Ranked
  <2>6. CASE n # Preferred
    <3>1. Grows
      <4>1. CASE n = First  BY <2>1, <2>3, <4>1 DEF Grows, Within
      <4>2. CASE n # First  BY <1>2, <4>2, FirstNode, GrowsSame
      <4> QED BY <4>1, <4>2
    <3> QED BY <1>2, <2>5, <2>6, <3>1, RankElsewhere
  <2>7. CASE n = Preferred
    <3>1. disk[n].reclaim = {} /\ proc[n].rec = "idle"
      BY <1>0, <2>1 DEF Placed, Filed
    <3>2. db[n].me.role = "leader"  BY <2>7, <3>1 DEF Ranked, Home
    <3>3. proc'[n].pc = "first"  BY <2>4, <3>2 DEF Router
    <3>4. Home(n)'  BY <2>1, <2>3, <2>7, <3>1, <3>2, <3>3 DEF Home
    <3>5. Ranked' /\ Grows  BY <1>2, <2>5, <2>7, <3>4, RankAtHome
    <3>6. PICK x \in Nat : x = db[n].me.term  BY Parts
    <3>7. Within(x)'
      <4>1. Within(x)  BY <2>7, <3>1, <3>6 DEF Seen
      <4> QED BY <3>5, <4>1 DEF Grows
    <3>8. Within(db[n].me.term)'  BY <2>3, <3>6, <3>7 DEF Within
    <3> QED BY <2>1, <2>4, <2>7, <3>1, <3>5, <3>8 DEF Seen
  <2> QED BY <2>6, <2>7
<1> QED BY <1>4, <1>5, <1>6, <1>7, <1>8, <1>9 DEF BootStep

\* What the first worker does while no flag is waiting for its next boot.
LEMMA GrowsAt ==
    ASSUME TInv, NEW n \in Nodes, \A k \in Nodes \ {n} : SameRank(k),
           disk[n].promote = "none",
           \/ disk'[n].promote = "none" /\ db'[n].me.term \in Nat /\ db[n].me.term <= db'[n].me.term
           \/ /\ disk'[n].promote # "none"
              /\ \A i \in disk'[n].ident : i.term \in Nat /\ db[n].me.term <= i.term
    PROVE  Grows
<1>1. CASE n # First  BY <1>1, FirstNode, GrowsSame
<1>2. CASE n = First
  <2>1. db[n].me.term \in Nat  BY Parts
  <2> QED BY <1>2, <2>1 DEF Grows, Within
<1> QED BY <1>1, <1>2

LEMMA RankLoop ==
    ASSUME TInv, AllSound, Ranked, Seen(Preferred), NEW n \in Nodes, LoopStep(n)
    PROVE  Ranked' /\ Seen(Preferred)'
<1>0. DbT /\ DiskT /\ ProcT /\ Placed(n) /\ Filed(n) /\ Elected(n)
  BY DEF TInv, AllSound, Sound, Ranked
<1>1. \A k \in Nodes \ {n} : db'[k] = db[k] /\ disk'[k] = disk[k] /\ proc'[k] = proc[k]
  BY <1>0 DEF LoopStep, Heartbeat, Miss, try_elect, ElectPending, ElectFlag, SetMe,
              DbT, DiskT, ProcT
<1>2. \A k \in Nodes \ {n} : SameRank(k)  BY <1>1, RankUntouched
<1>3. proc[n].pc = "work" /\ db[n].me.role = "worker" /\ disk[n].promote = "none"
  <2>1. proc[n].pc = "work"
    BY <1>0 DEF LoopStep, Heartbeat, Miss, try_elect, ElectPending, ElectFlag, Placed
  <2> QED BY <1>0, <2>1 DEF Placed, Filed
<1>4. n # Preferred  BY <1>3 DEF Ranked, Home
<1>5. Elected(n)' /\ Grows
  <2>1. CASE Heartbeat(n)
    <3> DEFINE t == Larger(db[n].me.term, db[db[n].me.url].me.term)
               me == [db[n].me EXCEPT !.term = t]
    <3>1. t \in Nat /\ db[n].me.term <= t  BY Parts DEF Larger
    <3>2. me.role = db[n].me.role /\ me.term = t
      <4> HIDE DEF t
      <4> QED BY <3>1, Parts, ReTermed
    <3>3. /\ SetMe(n, me) /\ disk' = [disk EXCEPT ![n].roster = Workers, ![n].ident = {me}]
          /\ proc' = [proc EXCEPT ![n].fail = 0] /\ proc[n].elect = "no"
      BY <2>1 DEF Heartbeat
    <3> HIDE DEF me
    <3>4. db'[n].me = me  BY <1>0, <3>3, MeAt
    <3>5. disk'[n].promote = "none" /\ disk'[n].roster = Workers
      BY <1>0, <1>3, <3>3 DEF DiskT, LeadDisk
    <3>6. proc'[n].elect = "no"  BY <1>0, <3>3 DEF ProcT, LeadProc
    <3>7. Elected(n)'  BY <1>3, <3>2, <3>4, <3>5, <3>6 DEF Elected
    <3>8. db'[n].me.term \in Nat /\ db[n].me.term <= db'[n].me.term
      <4> HIDE DEF t
      <4> QED BY <3>1, <3>2, <3>4
    <3>9. Grows  BY <1>2, <1>3, <3>5, <3>8, GrowsAt
    <3> QED BY <3>7, <3>9
  <2>2. CASE Miss(n)
    <3>1. disk' = disk  BY <2>2 DEF Miss
    <3>2. db'[n].me.role = db[n].me.role /\ db'[n].me.term = db[n].me.term
      <4>1. db' = db \/ SetMe(n, [db[n].me EXCEPT !.url = Preferred, !.acting = FALSE])
        BY <2>2 DEF Miss
      <4>2. /\ [db[n].me EXCEPT !.url = Preferred, !.acting = FALSE].role = db[n].me.role
            /\ [db[n].me EXCEPT !.url = Preferred, !.acting = FALSE].term = db[n].me.term
        BY Parts, Numbers, Returned
      <4> QED BY <1>0, <4>1, <4>2, MeAt
    <3>3. /\ proc'[n].pc = proc[n].pc /\ proc'[n].elect = proc[n].elect
          /\ proc'[n].rec = proc[n].rec /\ proc'[n].term = proc[n].term
      BY <1>0, <2>2 DEF Miss, ProcT, LeadProc
    <3>4. SameRank(n)  BY <3>1, <3>2, <3>3 DEF SameRank
    <3> QED BY <1>0, <1>2, <3>4, ElectedKept, FirstNode, GrowsSame
  <2>3. CASE try_elect(n)
    <3>1. proc[n].elect = "no"  BY <2>3 DEF try_elect
    <3>2. db'[n].me.term = db[n].me.term /\ db'[n].me.role = db[n].me.role
      <4>1. db' = db \/ \E m \in earlier_candidates(n) : SetMe(n, [db[n].me EXCEPT !.url = m])
        BY <2>3 DEF try_elect
      <4>2. \A m \in earlier_candidates(n) : m \in Nodes
        BY <1>0, Numbers DEF earlier_candidates, DiskT, LeadDisk
      <4>3. \A m \in Nodes : /\ [db[n].me EXCEPT !.url = m].term = db[n].me.term
                             /\ [db[n].me EXCEPT !.url = m].role = db[n].me.role
        BY Parts, ReFollows
      <4>4. ASSUME NEW m \in Nodes, SetMe(n, [db[n].me EXCEPT !.url = m])
            PROVE  db'[n].me.term = db[n].me.term /\ db'[n].me.role = db[n].me.role
        <5>1. db'[n].me = [db[n].me EXCEPT !.url = m]  BY <1>0, <4>4, MeAt
        <5> QED BY <4>3, <5>1
      <4> QED BY <4>1, <4>2, <4>4
    <3>3. CASE proc' = [proc EXCEPT ![n].fail = 0] /\ disk' = disk
      <4>1. /\ proc'[n].pc = proc[n].pc /\ proc'[n].elect = proc[n].elect
            /\ proc'[n].rec = proc[n].rec /\ proc'[n].term = proc[n].term
        BY <1>0, <3>3 DEF ProcT, LeadProc
      <4>2. SameRank(n)  BY <3>2, <3>3, <4>1 DEF SameRank
      <4> QED BY <1>0, <1>2, <4>2, ElectedKept, FirstNode, GrowsSame
    <3>4. CASE ~(proc' = [proc EXCEPT ![n].fail = 0] /\ disk' = disk)
      <4>1. /\ i_am_failover_winner(n) /\ db' = db
            /\ disk' = [disk EXCEPT ![n].ident = {db[n].me}]
            /\ \E l \in {"standby", "pending"} :
                  proc' = [proc EXCEPT ![n].fail = 0, ![n].elect = l]
        BY <2>3, <3>4 DEF try_elect
      <4>2. n = First
        <5>1. disk[n].roster = Workers  BY <1>0, <4>1 DEF i_am_failover_winner, Elected
        <5>2. n \in Workers /\ n <= First  BY <4>1, <5>1, FirstNode DEF i_am_failover_winner
        <5>3. First <= n /\ n \in Nat /\ First \in Nat  BY <5>2, FirstNode, Numbers
        <5> QED BY <5>2, <5>3
      <4>3. /\ disk'[n].ident = {db[n].me} /\ disk'[n].promote = "none"
            /\ disk'[n].roster = disk[n].roster
        BY <1>0, <1>3, <4>1 DEF DiskT, LeadDisk
      <4>4. db[n].me.term \in Nat  BY Parts
      <4>5. Elected(n)'  BY <1>0, <4>1, <4>2, <4>3, <4>4 DEF Elected
      <4>6. Grows  BY <1>2, <1>3, <4>1, <4>3, <4>4, GrowsAt
      <4> QED BY <4>5, <4>6
    <3> QED BY <3>3, <3>4
  <2>4. CASE ElectPending(n)
    <3>1. /\ db' = db /\ proc[n].elect # "no" /\ disk' = [disk EXCEPT ![n].pending = disk[n].snap]
      BY <2>4 DEF ElectPending
    <3>2. /\ disk'[n].ident = disk[n].ident /\ disk'[n].promote = disk[n].promote
          /\ disk'[n].roster = disk[n].roster
      BY <1>0, <3>1 DEF DiskT, LeadDisk
    <3>3. Elected(n)'  BY <1>0, <3>1, <3>2 DEF Elected
    <3>4. db[n].me.term \in Nat  BY Parts
    <3>5. Grows  BY <1>2, <1>3, <3>1, <3>2, <3>4, GrowsAt
    <3> QED BY <3>3, <3>5
  <2>5. CASE ElectFlag(n)
    <3>1. /\ proc[n].elect \in {"standby", "snapshot"} /\ db' = db
          /\ disk' = [disk EXCEPT ![n].promote = proc[n].elect]
          /\ proc' = [proc EXCEPT ![n] = Off("down")]
      BY <2>5 DEF ElectFlag
    <3>2. /\ disk'[n].ident = disk[n].ident /\ disk'[n].promote = proc[n].elect
          /\ disk'[n].roster = disk[n].roster
      BY <1>0, <3>1 DEF DiskT, LeadDisk
    <3>3. proc'[n].elect = "no"  BY <1>0, <3>1, OffAt
    <3>4. Elected(n)'  BY <1>0, <3>1, <3>2, <3>3 DEF Elected
    <3>5. \A i \in disk[n].ident : i.term \in Nat /\ db[n].me.term <= i.term
      BY <1>0, <3>1, IdentFields DEF DiskT, LeadDisk, Elected
    <3>6. Grows  BY <1>2, <1>3, <3>1, <3>2, <3>5, GrowsAt
    <3> QED BY <3>4, <3>6
  <2> QED BY <2>1, <2>2, <2>3, <2>4, <2>5 DEF LoopStep
<1> QED BY <1>2, <1>4, <1>5, RankElsewhere

LEMMA RankKept ==
    ASSUME TInv, Ranked, Seen(Preferred), \A k \in Nodes : SameRank(k)
    PROVE  Ranked' /\ Seen(Preferred)'
<1>1. Grows  BY FirstNode, GrowsSame
<1> QED BY <1>1, ElectedKept, HomeKept, SeenKept, Numbers DEF Ranked

LEMMA RankCopy ==
    ASSUME TInv, Ranked, Seen(Preferred), NEW n \in Nodes,
           CopyStep(n) \/ Confirm(n) \/ Snapshot(n) \/ Write(n)
    PROVE  Ranked' /\ Seen(Preferred)'
  BY DataOnly, RankKept

\* What the preferred leader has seen after a step, from what is reached before it.
LEMMA SeenAfter ==
    ASSUME Grows, NEW x \in Nat, NEW y \in Nat,
           x = db'[Preferred].me.term, y = proc'[Preferred].term,
           \A i \in disk'[Preferred].reclaim : i.term \in Nat /\ Within(i.term),
           disk'[Preferred].reclaim = {} \/ proc'[Preferred].pc \in {"first", "lead"} => Within(x),
           proc'[Preferred].rec # "idle" => Within(y)
    PROVE  Seen(Preferred)'
<1>1. \A t \in Nat : Within(t) => Within(t)'  BY DEF Grows
<1>2. Within(x)' => Within(db[Preferred].me.term)'  BY DEF Within
<1>3. Within(y)' => Within(proc[Preferred].term)'  BY DEF Within
<1>4. (\A i \in disk[Preferred].reclaim : Within(i.term))'  BY <1>1
<1> QED BY <1>1, <1>2, <1>3, <1>4 DEF Seen

\* A step of a pass, or its end, that rewords no role, no term and no flag.
LEMMA RankPass ==
    ASSUME TInv, Ranked, Seen(Preferred), NEW n \in Nodes,
           \A k \in Nodes :
             /\ db'[k].me.role = db[k].me.role /\ db'[k].me.term = db[k].me.term
             /\ disk'[k].ident = disk[k].ident /\ disk'[k].promote = disk[k].promote
             /\ disk'[k].reclaim = disk[k].reclaim /\ disk'[k].roster = disk[k].roster
             /\ proc'[k].elect = proc[k].elect,
           \A k \in Nodes \ {n} : /\ proc'[k].pc = proc[k].pc /\ proc'[k].rec = proc[k].rec
                                  /\ proc'[k].term = proc[k].term,
           proc[n].pc \in {"first", "lead"}, proc'[n].pc \in {"first", "lead"},
           proc'[n].rec # "idle" => proc[n].rec # "idle" /\ proc'[n].term = proc[n].term,
           proc'[n].term \in Nat
    PROVE  Ranked' /\ Seen(Preferred)'
<1>1. \A k \in Nodes : Elected(k)'
  <2> SUFFICES ASSUME NEW k \in Nodes PROVE Elected(k)'  OBVIOUS
  <2>1. Elected(k)  BY DEF Ranked
  <2> QED BY <2>1 DEF Elected
<1>2. Home(Preferred)'  BY Numbers DEF Home, Ranked
<1>3. Grows  BY FirstNode DEF Grows, Within
<1>4. Seen(Preferred)'
  <2>1. CASE n # Preferred  BY <1>3, <2>1, Numbers, SeenKept DEF SameRank
  <2>2. CASE n = Preferred
    <3>1. PICK x \in Nat : x = db[Preferred].me.term  BY Parts, Numbers
    <3>2. PICK y \in Nat : y = proc'[Preferred].term  BY <2>2
    <3>3. \A i \in disk[Preferred].reclaim : i.term \in Nat
      BY Parts, Numbers, IdentFields DEF LeadDisk
    <3>4. Within(x)  BY <2>2, <3>1 DEF Seen
    <3>5. proc'[Preferred].rec # "idle" => Within(y)  BY <2>2, <3>2 DEF Seen
    <3> QED BY <1>3, <2>2, <3>1, <3>2, <3>3, <3>4, <3>5, SeenAfter DEF Seen
  <2> QED BY <2>1, <2>2
<1> QED BY <1>1, <1>2, <1>4 DEF Ranked

\* A process is gone: what its node was about to do is forgotten.
LEMMA RankStops ==
    ASSUME TInv, Ranked, Seen(Preferred), NEW n \in Nodes, UNCHANGED <<db, disk>>,
           proc'[n].pc = "down", proc'[n].rec = "idle", proc'[n].elect = "no",
           \A k \in Nodes \ {n} : proc'[k] = proc[k]
    PROVE  Ranked' /\ Seen(Preferred)'
<1>1. \A k \in Nodes : Elected(k)'
  <2> SUFFICES ASSUME NEW k \in Nodes PROVE Elected(k)'  OBVIOUS
  <2>1. Elected(k)  BY DEF Ranked
  <2> QED BY <2>1 DEF Elected
<1>2. Home(Preferred)'  BY Numbers DEF Home, Ranked
<1>3. Grows  BY DEF Grows, Within
<1>4. Seen(Preferred)'
  <2>1. CASE n # Preferred  BY <1>3, <2>1, Numbers, SeenKept, RankUntouched
  <2>2. CASE n = Preferred  BY <2>2 DEF Seen, Within
  <2> QED BY <2>1, <2>2
<1> QED BY <1>1, <1>2, <1>4 DEF Ranked

LEMMA RankReclaim ==
    ASSUME TInv, AllSound, Ranked, Seen(Preferred), NEW n \in Nodes, ReclaimStep(n), ~torn'
    PROVE  Ranked' /\ Seen(Preferred)'
<1>0. DbT /\ DiskT /\ ProcT /\ Placed(n) /\ Filed(n) /\ Elected(n) /\ Known(n)
  BY DEF TInv, AllSound, Sound, Ranked
<1>r. proc[n].rec # "idle" =>
        proc[n].pc \in {"first", "lead"} /\ n = Preferred /\ proc[n].with # Preferred
  BY <1>0 DEF Placed
<1>m. PICK m \in Nodes : m = proc[n].with  BY Parts
<1>1. ASSUME NEW k \in Nodes, NEW f \in {FALSE, TRUE}, db'[k].me = [db[k].me EXCEPT !.fenced = f]
      PROVE  db'[k].me.role = db[k].me.role /\ db'[k].me.term = db[k].me.term
  <2>1. f \in BOOLEAN /\ db[k].me \in LeadIdent  BY Parts
  <2> QED BY <1>1, <2>1, ReFenced
<1>2. ASSUME NEW l, Rec(n, l), proc[n].rec # "idle",
             \A k \in Nodes :
               /\ db'[k].me.role = db[k].me.role /\ db'[k].me.term = db[k].me.term
               /\ disk'[k].ident = disk[k].ident /\ disk'[k].promote = disk[k].promote
               /\ disk'[k].reclaim = disk[k].reclaim /\ disk'[k].roster = disk[k].roster
      PROVE  Ranked' /\ Seen(Preferred)'
  <2>1. /\ proc'[n].rec = l /\ proc'[n].pc = proc[n].pc /\ proc'[n].term = proc[n].term
        /\ proc'[n].elect = proc[n].elect /\ \A k \in Nodes \ {n} : proc'[k] = proc[k]
    BY <1>0, <1>2, RecAt
  <2>2. proc'[n].term \in Nat  BY <2>1, Parts
  <2> HIDE DEF Preferred
  <2> QED BY <1>2, <1>r, <2>1, <2>2, RankPass
<1>3. ASSUME PassEnds(n), proc[n].pc \in {"first", "lead"},
             disk' = disk \/ disk' = [disk EXCEPT ![n].hold = FALSE]
      PROVE  Ranked' /\ Seen(Preferred)'
  <2>1. /\ proc'[n].pc = "lead" /\ proc'[n].rec = "idle" /\ proc'[n].elect = proc[n].elect
        /\ db'[n].me = [db[n].me EXCEPT !.fenced = FALSE]
        /\ \A k \in Nodes \ {n} : proc'[k] = proc[k] /\ db'[k] = db[k]
    BY <1>3, PassEndAt
  <2>2. proc'[n].term = 1  BY <1>0, <1>3 DEF PassEnds, PassOver, ProcT, LeadProc
  <2>3. \A k \in Nodes : db'[k].me.role = db[k].me.role /\ db'[k].me.term = db[k].me.term
    BY <1>1, <2>1
  <2>4. \A k \in Nodes :
          /\ disk'[k].ident = disk[k].ident /\ disk'[k].promote = disk[k].promote
          /\ disk'[k].reclaim = disk[k].reclaim /\ disk'[k].roster = disk[k].roster
    BY <1>0, <1>3 DEF DiskT, LeadDisk
  <2> QED BY <1>3, <2>1, <2>2, <2>3, <2>4, RankPass
<1>4. CASE SkipReclaim(n)
  <2>1. /\ db' = db /\ disk' = disk /\ proc[n].pc = "first" /\ proc[n].rec = "idle"
        /\ SetPc(n, "lead")
    BY <1>4 DEF SkipReclaim
  <2>2. /\ proc'[n].pc = "lead" /\ proc'[n].rec = "idle" /\ proc'[n].elect = proc[n].elect
        /\ proc'[n].term = proc[n].term
        /\ \A k \in Nodes \ {n} : proc'[k] = proc[k]
    BY <1>0, <2>1, PcAt
  <2>3. proc'[n].term \in Nat  BY <2>2, Parts
  <2> QED BY <2>1, <2>2, <2>3, RankPass
<1>5. CASE Look(n)
  <2>0. proc[n].pc \in {"first", "lead"} /\ proc[n].rec = "idle" /\ Reclaims(n)
    BY <1>5 DEF Look
  <2>1. CASE PassEnds(n)
    <3>1. disk' = disk \/ disk' = [disk EXCEPT ![n].hold = FALSE]  BY <1>5, <2>1 DEF Look
    <3> QED BY <1>3, <2>0, <2>1, <3>1
  <2>2. CASE ~PassEnds(n)
    <3>1. /\ UNCHANGED <<db, disk>>
          /\ \E w \in Interims(n) : proc' = [proc EXCEPT ![n].rec = "quiesce", ![n].with = w,
                                                         ![n].term = db[w].me.term]
      BY <1>5, <2>2 DEF Look
    <3>2. PICK w \in Interims(n) : proc' = [proc EXCEPT ![n].rec = "quiesce", ![n].with = w,
                                                        ![n].term = db[w].me.term]
      BY <3>1
    <3>3. w \in Nodes /\ w # n /\ Answers(n, w) /\ db[w].me.acting
      BY <3>2 DEF Interims, must_yield_to_interim
    <3>4. /\ proc'[n].pc = proc[n].pc /\ proc'[n].rec = "quiesce"
          /\ proc'[n].term = db[w].me.term /\ proc'[n].elect = proc[n].elect
          /\ \A k \in Nodes \ {n} : proc'[k] = proc[k]
      BY <1>0, <3>2 DEF ProcT, LeadProc
    <3>5. n = Preferred  BY <1>0, <2>0 DEF Reclaims, Known
    <3>6. w = First
      <4>1. db[w].me.role = "leader"  BY <3>3, Parts, IdentFields
      <4> QED BY <3>3, <3>5, <4>1 DEF Ranked, Elected
    <3>7. disk[First].promote = "none"
      <4>1. proc[w].pc \in {"lead", "leaving", "work"}
        BY <3>3 DEF Answers, Serving, Leads
      <4> QED BY <3>3, <3>6, <4>1 DEF AllSound, Sound, Filed
    <3>8. PICK y \in Nat : y = db[w].me.term  BY <3>3, Parts
    <3>9. Within(y)  BY <3>6, <3>7, <3>8 DEF Within
    <3>10. Elected(n)'  BY <1>0, <3>1, <3>4 DEF Elected
    <3>11. Home(n)'  BY <2>0, <3>1, <3>4, <3>5 DEF Home, Ranked
    <3>12. \A k \in Nodes \ {Preferred} : SameRank(k)
      BY <3>1, <3>4, <3>5, RankUntouched
    <3>13. Ranked' /\ Grows  BY <3>5, <3>10, <3>11, <3>12, RankAtHome
    <3>14. PICK x \in Nat : x = db[Preferred].me.term  BY Parts, Numbers
    <3>15. \A i \in disk[Preferred].reclaim : i.term \in Nat
      BY Parts, Numbers, IdentFields DEF LeadDisk
    <3>16. Within(x)  BY <2>0, <3>5, <3>14 DEF Seen
    <3>17. Seen(Preferred)'
      BY <3>1, <3>4, <3>5, <3>8, <3>9, <3>13, <3>14, <3>15, <3>16, SeenAfter DEF Seen
    <3> QED BY <3>13, <3>17
  <2> QED BY <2>1, <2>2
<1>6. CASE failover_quiesce(n)
  <2>1. disk' = disk /\ proc[n].rec = "quiesce" /\ m # n
    BY <1>6, <1>r, <1>m DEF failover_quiesce
  <2>2. \A k \in Nodes : db'[k].me.role = db[k].me.role /\ db'[k].me.term = db[k].me.term
    <3>1. \/ db' = db \/ db' = [db EXCEPT ![m].ro = TRUE]
          \/ db' = [db EXCEPT ![m].ro = Managed, ![m].me.fenced = TRUE]
      BY <1>6, <1>m DEF failover_quiesce
    <3>2. CASE db' = db \/ db' = [db EXCEPT ![m].ro = TRUE]  BY <1>0, <3>2 DEF DbT, LeadDb
    <3>3. CASE db' = [db EXCEPT ![m].ro = Managed, ![m].me.fenced = TRUE]
      <4>1. /\ db'[m].me = [db[m].me EXCEPT !.fenced = TRUE]
            /\ \A k \in Nodes \ {m} : db'[k] = db[k]
        BY <1>0, <3>3, WritesAt, Numbers
      <4> QED BY <1>1, <4>1
    <3> QED BY <3>1, <3>2, <3>3
  <2>3. PICK l \in {"stage", "resume", "dump"} :
           proc' = [proc EXCEPT ![n].rec = l] \/ proc' = [proc EXCEPT ![n].rec = l, ![m].timer = TRUE]
    BY <1>6, <1>m DEF failover_quiesce, Rec
  <2>4. /\ proc'[n].pc = proc[n].pc /\ proc'[n].rec = l
        /\ proc'[n].elect = proc[n].elect /\ proc'[n].term = proc[n].term
        /\ \A k \in Nodes \ {n} : /\ proc'[k].pc = proc[k].pc /\ proc'[k].rec = proc[k].rec
                                  /\ proc'[k].elect = proc[k].elect
                                  /\ proc'[k].term = proc[k].term
    BY <1>0, <2>1, <2>3 DEF ProcT, LeadProc
  <2>5. proc'[n].term \in Nat  BY <2>4, Parts
  <2> QED BY <1>r, <2>1, <2>2, <2>4, <2>5, RankPass
<1>7. CASE Stage(n)
  <2>1. proc[n].rec = "stage" /\ db' = db  BY <1>7 DEF Stage
  <2>2. \/ disk' = [disk EXCEPT ![n].armed = {db[proc[n].with]}] /\ Rec(n, "fence")
        \/ disk' = disk /\ Rec(n, "resume")
    BY <1>7 DEF Stage
  <2>3. \A k \in Nodes :
          /\ disk'[k].ident = disk[k].ident /\ disk'[k].promote = disk[k].promote
          /\ disk'[k].reclaim = disk[k].reclaim /\ disk'[k].roster = disk[k].roster
    BY <1>0, <2>2 DEF DiskT, LeadDisk
  <2> QED BY <1>2, <2>1, <2>2, <2>3
<1>8. CASE failover_resume(n)
  <2>1. disk' = disk /\ proc[n].rec = "resume" /\ Rec(n, "dump")
    BY <1>8 DEF failover_resume
  <2>2. \A k \in Nodes : db'[k].me.role = db[k].me.role /\ db'[k].me.term = db[k].me.term
    <3>1. db' = db \/ db' = [db EXCEPT ![m].ro = FALSE, ![m].me.fenced = FALSE]
      BY <1>8, <1>m DEF failover_resume
    <3>2. CASE db' = [db EXCEPT ![m].ro = FALSE, ![m].me.fenced = FALSE]
      <4>1. /\ db'[m].me = [db[m].me EXCEPT !.fenced = FALSE]
            /\ \A k \in Nodes \ {m} : db'[k] = db[k]
        BY <1>0, <3>2, WritesAt
      <4> QED BY <1>1, <4>1
    <3> QED BY <3>1, <3>2
  <2> QED BY <1>2, <2>1, <2>2
<1>9. CASE FetchDump(n)
  <2>1. proc[n].rec = "dump"  BY <1>9 DEF FetchDump
  <2>2. CASE PassEnds(n)
    <3>1. disk' = disk
      <4>1. ~Rec(n, "fence")
        <5>1. proc'[n].rec = "idle"  BY <2>2, PassEndAt
        <5> QED BY <1>0, <5>1, RecAt
      <4> QED BY <1>9, <4>1 DEF FetchDump
    <3> QED BY <1>3, <1>r, <2>1, <2>2, <3>1
  <2>3. CASE ~PassEnds(n)
    <3>1. Rec(n, "fence") /\ db' = db  BY <1>9, <2>3 DEF FetchDump
    <3>2. \E v, w : disk' = [[disk EXCEPT ![n].pending = v] EXCEPT ![m].snap = w]
      BY <1>9, <1>m, <2>3 DEF FetchDump
    <3>3. \A k \in Nodes :
            /\ disk'[k].ident = disk[k].ident /\ disk'[k].promote = disk[k].promote
            /\ disk'[k].reclaim = disk[k].reclaim /\ disk'[k].roster = disk[k].roster
      BY <1>0, <3>2 DEF DiskT, LeadDisk
    <3> QED BY <1>2, <2>1, <3>1, <3>3
  <2> QED BY <2>2, <2>3
<1>10. CASE FenceWrites(n)
  <2> DEFINE t == Larger(db[n].me.term, proc[n].term)
             me == [db[n].me EXCEPT !.fenced = TRUE, !.role = "leader", !.acting = FALSE,
                                    !.term = t]
  <2>1. /\ SetMe(n, me) /\ Rec(n, "flag") /\ disk' = disk /\ proc[n].rec = "fence"
    BY <1>10 DEF FenceWrites
  <2>2. n = Preferred /\ proc[n].pc \in {"first", "lead"}  BY <1>r, <2>1
  <2>3. t \in Nat /\ Within(t)
    <3>1. PICK x \in Nat, y \in Nat : x = db[n].me.term /\ y = proc[n].term  BY Parts
    <3>2. Within(x) /\ Within(y)  BY <2>1, <2>2, <3>1 DEF Seen
    <3> QED BY <3>1, <3>2 DEF Larger
  <2> HIDE DEF t
  <2>4. me.role = "leader" /\ me.term = t  BY <2>3, Parts, FencedOff
  <2> HIDE DEF me
  <2>5. db'[n].me = me /\ \A k \in Nodes \ {n} : db'[k] = db[k]  BY <1>0, <2>1, MeAt
  <2>6. /\ proc'[n].rec = "flag" /\ proc'[n].pc = proc[n].pc /\ proc'[n].term = proc[n].term
        /\ proc'[n].elect = proc[n].elect /\ \A k \in Nodes \ {n} : proc'[k] = proc[k]
    BY <1>0, <2>1, RecAt
  <2>7. proc[n].elect = "no"  BY <1>0, <2>2 DEF Placed
  <2>8. Elected(n)' /\ Home(n)'
    BY <1>0, <2>1, <2>2, <2>4, <2>5, <2>6, <2>7 DEF Elected, Home, Ranked
  <2>9. \A k \in Nodes \ {Preferred} : SameRank(k)
    BY <2>1, <2>2, <2>5, <2>6, RankUntouched
  <2>10. Ranked' /\ Grows  BY <2>2, <2>8, <2>9, RankAtHome
  <2>11. PICK x \in Nat, y \in Nat : x = t /\ y = proc[n].term  BY <2>3, Parts
  <2>12. \A i \in disk[Preferred].reclaim : i.term \in Nat
    BY Parts, Numbers, IdentFields DEF LeadDisk
  <2>13. Within(y)  BY <2>1, <2>2, <2>11 DEF Seen
  <2>14. Seen(Preferred)'
    BY <2>1, <2>2, <2>3, <2>4, <2>5, <2>6, <2>10, <2>11, <2>12, <2>13, SeenAfter DEF Seen
  <2> QED BY <2>10, <2>14
<1>11. CASE WriteReclaim(n)
  <2> DEFINE me == [db[n].me EXCEPT !.fenced = FALSE]
  <2>1. /\ db' = db /\ proc[n].rec = "flag" /\ Rec(n, "demote")
        /\ disk' = [disk EXCEPT ![n].reclaim = {me}]
    BY <1>11 DEF WriteReclaim
  <2>2. n = Preferred /\ proc[n].pc \in {"first", "lead"} /\ db[n].me.role = "leader"
    BY <1>0, <1>r, <2>1 DEF Placed
  <2>3. me.role = "leader" /\ me.term = db[n].me.term  BY <1>1, <2>2
  <2> HIDE DEF me
  <2>4. /\ disk'[n].ident = disk[n].ident /\ disk'[n].promote = disk[n].promote
        /\ disk'[n].roster = disk[n].roster /\ disk'[n].reclaim = {me}
        /\ \A k \in Nodes \ {n} : disk'[k] = disk[k]
    BY <1>0, <2>1 DEF DiskT, LeadDisk
  <2>5. /\ proc'[n].rec = "demote" /\ proc'[n].pc = proc[n].pc /\ proc'[n].term = proc[n].term
        /\ proc'[n].elect = proc[n].elect /\ \A k \in Nodes \ {n} : proc'[k] = proc[k]
    BY <1>0, <2>1, RecAt
  <2>6. Elected(n)' /\ Home(n)'
    BY <1>0, <2>1, <2>2, <2>3, <2>4, <2>5 DEF Elected, Home, Ranked
  <2>7. \A k \in Nodes \ {Preferred} : SameRank(k)
    BY <2>1, <2>2, <2>4, <2>5, RankUntouched
  <2>8. Ranked' /\ Grows  BY <2>2, <2>6, <2>7, RankAtHome
  <2>9. PICK x \in Nat, y \in Nat : x = db[n].me.term /\ y = proc[n].term  BY Parts
  <2>10. Within(x) /\ Within(y)  BY <2>1, <2>2, <2>9 DEF Seen
  <2>11. Seen(Preferred)'
    BY <2>1, <2>2, <2>3, <2>4, <2>5, <2>8, <2>9, <2>10, SeenAfter
  <2> QED BY <2>8, <2>11
<1>12. CASE Demote(n)
  <2>1. proc[n].rec = "demote" /\ m # n  BY <1>12, <1>r, <1>m DEF Demote
  <2>2. n = Preferred /\ disk[n].reclaim # {}  BY <1>0, <1>r, <2>1 DEF Filed
  <2>3. CASE UNCHANGED <<db, disk>> /\ proc' = [proc EXCEPT ![n] = Off("down")]
    <3>1. /\ proc'[n].pc = "down" /\ proc'[n].rec = "idle" /\ proc'[n].elect = "no"
          /\ \A k \in Nodes \ {n} : proc'[k] = proc[k]
      BY <1>0, <2>3, OffAt
    <3> QED BY <1>0, <2>2, <2>3, <3>1, RankStops
  <2>4. CASE ~(UNCHANGED <<db, disk>> /\ proc' = [proc EXCEPT ![n] = Off("down")])
    <3> DEFINE me == [db[m].me EXCEPT !.url = n, !.role = "worker", !.acting = FALSE,
                                      !.fenced = FALSE]
    <3>1. /\ Answers(n, m) /\ Acting(m)
          /\ SetMe(m, me) /\ disk' = [disk EXCEPT ![m].ident = {me}]
          /\ proc' = [proc EXCEPT ![n] = Off("down"), ![m].pc = "leaving"]
      BY <1>12, <1>m, <2>4 DEF Demote
    <3>2. me.role = "worker" /\ me.term = db[m].me.term  BY Parts, Demoted
    <3> HIDE DEF me
    <3>3. db'[m].me = me /\ \A k \in Nodes \ {m} : db'[k] = db[k]  BY <1>0, <3>1, MeAt
    <3>4. /\ disk'[m].promote = disk[m].promote /\ disk'[m].roster = disk[m].roster
          /\ disk'[m].reclaim = disk[m].reclaim
          /\ \A k \in Nodes \ {m} : disk'[k] = disk[k]
      BY <1>0, <3>1 DEF DiskT, LeadDisk
    <3>5. /\ proc'[m].elect = proc[m].elect /\ proc'[n] = Off("down")
          /\ \A k \in Nodes \ {m, n} : proc'[k] = proc[k]
      <4> DEFINE half == [proc EXCEPT ![n] = Off("down")]
      <4>1. proc' = [half EXCEPT ![m].pc = "leaving"]  BY <3>1
      <4>2. /\ half \in [Nodes -> LeadProc] /\ half[n] = Off("down")
            /\ \A k \in Nodes \ {n} : half[k] = proc[k]
        BY <1>0, OffTyped DEF ProcT, PCs
      <4> HIDE DEF half
      <4> QED BY <2>1, <4>1, <4>2 DEF LeadProc
    <3>6. proc[m].elect = "no" /\ disk[m].promote = "none"
      <4>1. Placed(m) /\ Filed(m)  BY DEF AllSound, Sound
      <4>2. db[m].me.role = "leader"  BY <3>1, Parts, IdentFields DEF Acting
      <4>3. proc[m].pc \in {"lead", "leaving"}
        BY <3>1, <4>1, <4>2 DEF Answers, Serving, Leads, Placed
      <4> QED BY <4>1, <4>3 DEF Placed, Filed
    <3>7. proc'[n].pc = "down" /\ proc'[n].rec = "idle" /\ proc'[n].elect = "no"
      BY <3>5 DEF Off
    <3>8. Elected(n)' /\ Home(n)'
      BY <1>0, <2>1, <2>2, <3>3, <3>4, <3>7 DEF Elected, Home, Ranked
    <3>9. Elected(m)'
      <4>1. Elected(m)  BY DEF Ranked
      <4> QED BY <3>2, <3>3, <3>4, <3>5, <3>6, <4>1 DEF Elected
    <3>10. \A k \in Nodes \ {m, n} : SameRank(k)  BY <3>3, <3>4, <3>5, RankUntouched
    <3>11. Ranked'  BY <2>2, <3>8, <3>9, <3>10, ElectedKept DEF Ranked
    <3>12. Grows
      <4>1. CASE m = First  BY <3>2, <3>3, <3>4, <3>6, <4>1 DEF Grows, Within
      <4>2. CASE m # First  BY <2>2, <3>10, <4>2, FirstNode, GrowsSame
      <4> QED BY <4>1, <4>2
    <3>13. PICK x \in Nat, y \in Nat : x = db'[n].me.term /\ y = proc'[n].term
      <4>1. db'[n].me.term \in Nat  BY <2>1, <3>3, Parts
      <4>2. proc'[n].term = 1  BY <3>5 DEF Off
      <4> QED BY <4>1, <4>2
    <3>14. \A i \in disk[Preferred].reclaim : i.term \in Nat
      BY Parts, Numbers, IdentFields DEF LeadDisk
    <3>15. Seen(Preferred)'
      BY <2>1, <2>2, <3>4, <3>7, <3>12, <3>13, <3>14, SeenAfter DEF Seen
    <3> QED BY <3>11, <3>15
  <2> QED BY <2>3, <2>4
<1> QED BY <1>4, <1>5, <1>6, <1>7, <1>8, <1>9, <1>10, <1>11, <1>12 DEF ReclaimStep

LEMMA RankLeader ==
    ASSUME TInv, AllSound, Ranked, Seen(Preferred), NEW n \in Nodes,
           Leave(n) \/ QuiesceExpires(n) \/ ReopenWrites(n)
    PROVE  Ranked' /\ Seen(Preferred)'
<1>0. DbT /\ DiskT /\ ProcT  BY DEF TInv
<1>1. CASE Leave(n)
  <2>1. /\ proc'[n].pc = "down" /\ proc'[n].rec = "idle" /\ proc'[n].elect = "no"
        /\ \A k \in Nodes \ {n} : proc'[k] = proc[k]
    BY <1>0, <1>1, OffAt DEF Leave
  <2> QED BY <1>1, <2>1, RankStops DEF Leave
<1>2. CASE QuiesceExpires(n)
  <2>1. \A k \in Nodes : db'[k].me.role = db[k].me.role /\ db'[k].me.term = db[k].me.term
    <3>1. db' = db \/ db' = [db EXCEPT ![n].ro = FALSE, ![n].me.fenced = FALSE]
      BY <1>2 DEF QuiesceExpires
    <3>2. /\ [db[n].me EXCEPT !.fenced = FALSE].role = db[n].me.role
          /\ [db[n].me EXCEPT !.fenced = FALSE].term = db[n].me.term
      BY Parts, ReFenced
    <3> QED BY <1>0, <3>1, <3>2, WritesAt
  <2>2. disk' = disk /\ proc' = [proc EXCEPT ![n].timer = FALSE]
    BY <1>2 DEF QuiesceExpires
  <2>3. \A k \in Nodes : SameRank(k)
    BY <1>0, <2>1, <2>2 DEF SameRank, ProcT, LeadProc
  <2> QED BY <2>3, RankKept
<1>3. CASE ReopenWrites(n)
  <2>1. \A k \in Nodes : db'[k].me.role = db[k].me.role /\ db'[k].me.term = db[k].me.term
    <3>1. /\ [[db[n].me EXCEPT !.acting = FALSE] EXCEPT !.fenced = FALSE].role = db[n].me.role
          /\ [[db[n].me EXCEPT !.acting = FALSE] EXCEPT !.fenced = FALSE].term = db[n].me.term
      BY Parts, Stopped
    <3> QED BY <1>0, <1>3, <3>1, StopAt DEF ReopenWrites
  <2>2. disk' = [disk EXCEPT ![n].hold = TRUE] /\ proc' = proc  BY <1>3 DEF ReopenWrites
  <2>3. \A k \in Nodes : SameRank(k)
    BY <1>0, <2>1, <2>2 DEF SameRank, DiskT, LeadDisk
  <2> QED BY <2>3, RankKept
<1> QED BY <1>1, <1>2, <1>3

LEMMA RankFault ==
    ASSUME TInv, Ranked, Seen(Preferred),
           \/ \E n \in Nodes : Fault(n) \/ \E m \in Nodes : Cut(m, n)
           \/ Heal
    PROVE  Ranked' /\ Seen(Preferred)'
<1>0. ProcT  BY DEF TInv
<1>1. ASSUME NEW n \in Nodes, Dies(n)  PROVE Ranked' /\ Seen(Preferred)'
  <2>1. UNCHANGED <<db, disk>> /\ proc' = [proc EXCEPT ![n] = Off("down")]
    BY <1>1 DEF Dies
  <2>2. /\ proc'[n].pc = "down" /\ proc'[n].rec = "idle" /\ proc'[n].elect = "no"
        /\ \A k \in Nodes \ {n} : proc'[k] = proc[k]
    BY <1>0, <2>1, OffAt
  <2> QED BY <2>1, <2>2, RankStops
<1>2. ASSUME UNCHANGED <<db, disk, proc>>  PROVE Ranked' /\ Seen(Preferred)'
  BY <1>2, RankUntouched, RankKept
<1> QED BY <1>1, <1>2 DEF Fault, Crash, HostDown, HostUp, Cut, Heal

LEMMA RankNext == TInv /\ OwnInv /\ RankInv /\ [Next]_vars => RankInv'
<1> SUFFICES ASSUME TInv, OwnInv, RankInv, [Next]_vars, ~torn'
             PROVE  Ranked' /\ Seen(Preferred)'
  BY DEF RankInv, Ranked
<1>0. AllSound /\ Ranked /\ Seen(Preferred)
  BY TornStays DEF OwnInv, RankInv, AllSound, Ranked
<1>1. CASE Next
  BY <1>0, <1>1, RankBoot, RankLoop, RankCopy, RankReclaim, RankLeader, RankFault
  DEF Next, LeaderStep
<1>2. CASE UNCHANGED vars  BY <1>0, <1>2, RankUntouched, RankKept DEF vars
<1> QED BY <1>1, <1>2

LEMMA RankHolds == TInv /\ OwnInv /\ RankInv => InterimOutranks
<1> SUFFICES ASSUME TInv, OwnInv, RankInv, ~torn, NEW n \in Workers, Leads(n), Acting(n),
                    proc[Preferred].pc \in {"first", "lead"}
             PROVE  db[n].me.term >= db[Preferred].me.term
  BY DEF InterimOutranks
<1>1. n \in Nodes /\ n # Preferred  BY Numbers
<1>2. n = First
  <2>1. db[n].me.role = "leader"  BY <1>1, Parts, IdentFields DEF Acting
  <2> QED BY <1>1, <2>1 DEF RankInv, Elected
<1>3. disk[First].promote = "none"  BY <1>1, <1>2 DEF OwnInv, Sound, Filed, Leads
<1>4. Within(db[Preferred].me.term)  BY DEF RankInv, Seen
<1>5. db[Preferred].me.term <= db[n].me.term  BY <1>2, <1>3, <1>4 DEF Within
<1> QED BY <1>1, <1>5, Parts, Numbers

\* The preferred leader that serves, or is about to, never has a larger term than the
\* interim leader that serves: each pass of it finds that leader to yield to, until it
\* has taken the copy (must_yield_to_interim, maybe_reclaim_preferred).
THEOREM InterimOutranksHolds == Spec => []InterimOutranks
<1>1. Init => TInv /\ OwnInv /\ RankInv  BY TInit, OwnInit, RankInit
<1>2. (TInv /\ OwnInv /\ RankInv) /\ [Next]_vars => (TInv /\ OwnInv /\ RankInv)'
  BY TNext, OwnNext, RankNext
<1> QED BY <1>1, <1>2, RankHolds, PTL DEF Spec

-----------------------------------------------------------------------------
(* A reclaim keeps the interim leader's writes.                            *)

\* The node that was copied takes no write, and keeps its database when it boots.
Frozen(m) ==
    m # Preferred /\ db[m].ro /\ db[m].me.role = "leader" /\ disk[m].promote = "none"

\* The preferred leader is about to copy, or has a copy to boot from.
Holds == proc[Preferred].rec \in {"stage"} \cup Copying \/ disk[Preferred].reclaim # {}

\* From the quiesce until the identity is taken up again, the copy is the frozen node's,
\* first armed and then in the place of the database.
Carried(c) ==
    /\ proc[Preferred].rec = "stage" => c.from = proc[Preferred].with
    /\ Holds => Frozen(c.from)
    /\ proc[Preferred].rec \in Copying =>
         disk[Preferred].armed # {} /\ disk[Preferred].pending = {}
    /\ \A d \in disk[Preferred].armed : db[c.from].data \subseteq d.data
    /\ disk[Preferred].reclaim # {} => disk[Preferred].pending = {}
    /\ disk[Preferred].reclaim # {} /\ disk[Preferred].armed = {} =>
         db[c.from].data \subseteq db[Preferred].data

Kept    == \A c \in copied : ~c.reopened => Carried(c)
KeepInv == ~torn => Kept

LEMMA KeepInit == Init => KeepInv
  BY DEF Init, KeepInv, Kept

\* What is copied and not reopened after a step was so before it.
LEMMA StillCopied ==
    ASSUME TInv, NEW n \in Nodes, copied' = copied \/ Reopened(n),
           NEW c \in copied', ~c.reopened
    PROVE  c \in copied /\ c.from \in Nodes /\ (Reopened(n) => c.from # n)
<1>1. copied \subseteq [from : Nodes, reopened : BOOLEAN]  BY DEF TInv, RestT
<1> QED BY <1>1 DEF Reopened

\* A node whose database keeps its writes, its setting and its part.
Still(m) ==
    /\ db'[m].ro = db[m].ro /\ db'[m].data = db[m].data
    /\ db'[m].me.role = db[m].me.role /\ disk'[m].promote = disk[m].promote

\* A step of the preferred leader that goes on with the copy it holds, or drops it.
LEMMA CarriedAfter ==
    ASSUME TInv, AllSound, NEW c, Carried(c),
           Frozen(c.from) => Still(c.from),
           proc'[Preferred].rec = "stage" => /\ proc[Preferred].rec = "stage"
                                             /\ proc'[Preferred].with = proc[Preferred].with,
           proc'[Preferred].rec \in Copying => proc[Preferred].rec \in Copying,
           disk'[Preferred].armed = disk[Preferred].armed,
           disk'[Preferred].pending = disk[Preferred].pending,
           disk'[Preferred].reclaim # {} => \/ disk[Preferred].reclaim # {}
                                            \/ proc[Preferred].rec \in Copying,
           db[Preferred].data \subseteq db'[Preferred].data
    PROVE  Carried(c)'
<1>1. Holds' => Holds  BY DEF Holds
<1>2. disk[Preferred].armed # {} => Holds
  BY Numbers DEF AllSound, Sound, Filed, Holds
<1>3. Holds => Frozen(c.from)' /\ db'[c.from].data = db[c.from].data
  BY DEF Carried, Frozen, Still
<1>4. (\A d \in disk[Preferred].armed : db[c.from].data \subseteq d.data)'
  BY <1>2, <1>3 DEF Carried
<1>5. disk'[Preferred].reclaim # {} =>
        /\ disk'[Preferred].pending = {}
        /\ disk'[Preferred].armed = {} => db'[c.from].data \subseteq db'[Preferred].data
  <2>1. CASE disk[Preferred].reclaim # {}
    <3>1. db'[c.from].data = db[c.from].data  BY <1>3, <2>1 DEF Holds
    <3> QED BY <2>1, <3>1 DEF Carried
  <2>2. CASE disk[Preferred].reclaim = {}  BY <2>2 DEF Carried
  <2> QED BY <2>1, <2>2
<1> QED BY <1>1, <1>3, <1>4, <1>5 DEF Carried

\* Nothing is held after the step.
LEMMA CarriedIdle ==
    ASSUME NEW c, proc'[Preferred].rec \notin {"stage"} \cup Copying,
           disk'[Preferred].armed = {}, disk'[Preferred].reclaim = {}
    PROVE  Carried(c)'
  BY DEF Carried, Holds

\* Another node moves.
LEMMA KeepElsewhere ==
    ASSUME TInv, AllSound, Kept, NEW n \in Nodes \ {Preferred},
           \A k \in Nodes \ {n} : db'[k] = db[k] /\ disk'[k] = disk[k] /\ proc'[k] = proc[k],
           copied' = copied \/ Reopened(n),
           Frozen(n) => Still(n) \/ Reopened(n)
    PROVE  Kept'
<1> SUFFICES ASSUME NEW c \in copied', ~c.reopened PROVE Carried(c)'
  BY DEF Kept
<1>1. c \in copied /\ c.from \in Nodes /\ (Reopened(n) => c.from # n)  BY StillCopied
<1>2. Carried(c)  BY <1>1 DEF Kept
<1>3. Frozen(c.from) => Still(c.from)
  <2>1. CASE c.from = n  BY <1>1, <2>1
  <2>2. CASE c.from # n  BY <1>1, <2>2 DEF Still
  <2> QED BY <2>1, <2>2
<1> QED BY <1>2, <1>3, Numbers, CarriedAfter

LEMMA KeepBoot ==
    ASSUME TInv, AllSound, Ranked, Kept, NEW n \in Nodes, BootStep(n)
    PROVE  Kept'
<1>0. DbT /\ DiskT /\ ProcT /\ Placed(n) /\ Filed(n)
  BY DEF TInv, AllSound, Sound
<1>1. \A k \in Nodes \ {n} : db'[k] = db[k] /\ disk'[k] = disk[k] /\ proc'[k] = proc[k]
  BY <1>0 DEF BootStep, Adopt, Takeover, Restore, apply_promote_flag, apply_reclaim_flag,
              release_orphan_fence, SetPc, SetMe, DbT, DiskT, ProcT
<1>2. CASE n # Preferred
  <2>0. disk[n].armed = {} /\ disk[n].reclaim = {}  BY <1>0, <1>2 DEF Filed
  <2>1. copied' = copied \/ Reopened(n)
    BY Zenon, <2>0 DEF BootStep, Adopt, Takeover, Restore, apply_promote_flag,
              apply_reclaim_flag, release_orphan_fence, ledger
  <2>2. Frozen(n) => Still(n) \/ Reopened(n)
    <3> SUFFICES ASSUME Frozen(n) PROVE Still(n) \/ Reopened(n)  OBVIOUS
    <3>0. disk[n].promote = "none" /\ db[n].ro  BY DEF Frozen
    <3>1. CASE Adopt(n) \/ Takeover(n) \/ apply_reclaim_flag(n)
      <4>1. db' = db /\ disk' = disk
        BY <2>0, <3>0, <3>1 DEF Adopt, Takeover, apply_reclaim_flag
      <4> QED BY <4>1 DEF Still
    <3>2. CASE Restore(n)  BY <3>0, <3>2 DEF Restore
    <3>3. CASE apply_promote_flag(n)
      <4>1. db' = db /\ disk' = [disk EXCEPT ![n].promote = "none"]
        BY <3>0, <3>3 DEF apply_promote_flag
      <4>2. disk'[n].promote = "none"  BY <1>0, <4>1, PromoteAt
      <4> QED BY <3>0, <4>1, <4>2 DEF Still
    <3>4. CASE release_orphan_fence(n)
      BY <3>4 DEF release_orphan_fence, Still
    <3> QED BY <3>1, <3>2, <3>3, <3>4 DEF BootStep
  <2> QED BY <1>1, <1>2, <2>1, <2>2, KeepElsewhere
<1>3. CASE n = Preferred
  <2>1. proc[n].rec = "idle" /\ disk[n].promote = "none"
    <3>1. proc[n].rec = "idle"
      BY <1>0 DEF BootStep, Adopt, Takeover, Restore, apply_promote_flag, apply_reclaim_flag,
              release_orphan_fence, Placed
    <3>2. Elected(n)  BY DEF Ranked
    <3> QED BY <1>3, <3>1, <3>2, FirstNode DEF Elected
  <2>2. proc'[n].rec = "idle"
    <3>1. \E l \in {"takeover", "restore", "down", "promote", "reclaim", "orphan", "first", "work"} :
             SetPc(n, l)
      BY DEF BootStep, Adopt, Takeover, Restore, apply_promote_flag, apply_reclaim_flag,
              release_orphan_fence, Router
    <3> QED BY <1>0, <2>1, <3>1, PcAt
  <2> SUFFICES ASSUME NEW c \in copied', ~c.reopened PROVE Carried(c)'
    BY DEF Kept
  <2>3. ASSUME copied' = copied \/ Reopened(n), disk'[n].armed = disk[n].armed,
               disk'[n].pending = disk[n].pending, disk'[n].reclaim = disk[n].reclaim,
               db'[n].data = db[n].data
        PROVE  Carried(c)'
    <3>1. c \in copied /\ c.from \in Nodes  BY <2>3, StillCopied
    <3>2. Carried(c)  BY <3>1 DEF Kept
    <3>3. Frozen(c.from) => Still(c.from)  BY <1>1, <1>3, <3>1 DEF Frozen, Still
    <3> QED BY <1>3, <2>1, <2>2, <2>3, <3>2, <3>3, CarriedAfter DEF Copying
  <2>4. CASE Adopt(n)
    <3>0. copied' = copied /\ proc[n].pc = "down"  BY <2>4 DEF Adopt, ledger
    <3>1. CASE UNCHANGED <<db, disk>>  BY <2>3, <3>0, <3>1
    <3>2. CASE ~UNCHANGED <<db, disk>>
      <4>1. PICK d \in disk[n].armed : db' = [db EXCEPT ![n] = d]
                                       /\ disk' = [disk EXCEPT ![n].armed = {}]
        BY <2>4, <3>2 DEF Adopt
      <4>2. /\ disk'[n].armed = {} /\ disk'[n].pending = disk[n].pending
            /\ disk'[n].reclaim = disk[n].reclaim /\ db'[n] = d
        BY <1>0, <4>1, ArmedAt DEF DbT
      <4>3. disk[n].reclaim # {}  BY <1>0, <2>1, <3>0, <4>1 DEF Filed, Copying
      <4>4. c \in copied /\ c.from \in Nodes /\ Carried(c)  BY <3>0, StillCopied DEF Kept
      <4>5. Frozen(c.from)  BY <1>3, <4>3, <4>4 DEF Carried, Holds
      <4>6. db'[c.from] = db[c.from] /\ disk'[c.from] = disk[c.from] /\ c.from # n
        BY <1>1, <1>3, <4>4, <4>5 DEF Frozen
      <4>7. db[c.from].data \subseteq d.data /\ disk[n].pending = {}
        BY <1>3, <4>1, <4>3, <4>4 DEF Carried
      <4>8. Frozen(c.from)'  BY <4>5, <4>6 DEF Frozen
      <4> QED BY <1>3, <2>2, <4>2, <4>6, <4>7, <4>8 DEF Carried, Copying
    <3> QED BY <3>1, <3>2
  <2>5. CASE Takeover(n)
    <3>1. db' = db /\ disk' = disk /\ copied' = copied
      BY <2>1, <2>5 DEF Takeover, ledger
    <3> QED BY <2>3, <3>1
  <2>6. CASE Restore(n)
    <3>0. /\ proc[n].pc = "restore" /\ (copied' = copied \/ Reopened(n))
          /\ disk[n].armed = {}
      BY <1>0, <2>1, <2>6 DEF Restore, Filed, Copying
    <3>1. CASE disk[n].pending = {}
      <4>1. db' = [db EXCEPT ![n].ro = FALSE] /\ disk' = disk  BY <2>6, <3>1 DEF Restore
      <4>2. db'[n].data = db[n].data  BY <1>0, <4>1 DEF DbT, LeadDb
      <4> QED BY <2>3, <3>0, <4>1, <4>2
    <3>2. CASE disk[n].pending # {}
      <4>1. c \in copied /\ Carried(c)  BY <3>0, StillCopied DEF Kept
      <4>2. disk[n].reclaim = {}  BY <1>3, <3>2, <4>1 DEF Carried
      <4>3. disk' = [disk EXCEPT ![n].pending = {}]  BY <2>6, <3>2 DEF Restore
      <4>4. disk'[n].armed = {} /\ disk'[n].reclaim = {}
        BY <1>0, <3>0, <4>2, <4>3, PendingAt
      <4> QED BY <1>3, <2>2, <4>4, CarriedIdle DEF Copying
    <3> QED BY <3>1, <3>2
  <2>7. CASE apply_promote_flag(n)
    <3>1. db' = db /\ disk' = [disk EXCEPT ![n].promote = "none"] /\ copied' = copied
      BY <2>1, <2>7 DEF apply_promote_flag, ledger
    <3>2. /\ disk'[n].armed = disk[n].armed /\ disk'[n].pending = disk[n].pending
          /\ disk'[n].reclaim = disk[n].reclaim
      BY <1>0, <3>1, PromoteAt
    <3> QED BY <2>3, <3>1, <3>2
  <2>8. CASE apply_reclaim_flag(n)
    <3>1. CASE disk[n].reclaim = {}
      <4>1. UNCHANGED <<db, disk>> /\ copied' = copied
        BY <2>8, <3>1 DEF apply_reclaim_flag
      <4> QED BY <2>3, <4>1
    <3>2. CASE disk[n].reclaim # {}
      BY <2>8, <3>2 DEF apply_reclaim_flag
    <3> QED BY <3>1, <3>2
  <2>9. CASE release_orphan_fence(n)
    <3>1. disk' = disk /\ (copied' = copied \/ Reopened(n))
      BY <2>9 DEF release_orphan_fence
    <3>2. db' = db \/ SetMe(n, [db[n].me EXCEPT !.fenced = FALSE])
      BY <2>9 DEF release_orphan_fence
    <3>3. db'[n].data = db[n].data  BY <1>0, <3>2, MeAt
    <3> QED BY <2>3, <3>1, <3>3
  <2> QED BY <2>4, <2>5, <2>6, <2>7, <2>8, <2>9 DEF BootStep
<1> QED BY <1>2, <1>3

LEMMA KeepLoop ==
    ASSUME TInv, AllSound, Ranked, Kept, NEW n \in Nodes, LoopStep(n)
    PROVE  Kept'
<1>0. DbT /\ DiskT /\ ProcT /\ Placed(n)
  BY DEF TInv, AllSound, Sound
<1>1. \A k \in Nodes \ {n} : db'[k] = db[k] /\ disk'[k] = disk[k] /\ proc'[k] = proc[k]
  BY <1>0 DEF LoopStep, Heartbeat, Miss, try_elect, ElectPending, ElectFlag, SetMe,
              DbT, DiskT, ProcT
<1>2. proc[n].pc = "work" /\ db[n].me.role = "worker"
  BY <1>0 DEF LoopStep, Heartbeat, Miss, try_elect, ElectPending, ElectFlag, Placed
<1>3. n # Preferred  BY <1>2 DEF Ranked, Home
<1>4. copied' = copied
  BY DEF LoopStep, Heartbeat, Miss, try_elect, ElectPending, ElectFlag, ledger
<1>5. ~Frozen(n)  BY <1>2 DEF Frozen
<1> QED BY <1>1, <1>3, <1>4, <1>5, KeepElsewhere

\* Databases and flags stay; the preferred leader's pass goes on, or is over.
LEMMA KeepStill ==
    ASSUME TInv, AllSound, Kept, NEW n \in Nodes, copied' = copied \/ Reopened(n),
           \A k \in Nodes : Frozen(k) => Still(k) \/ (k = n /\ Reopened(n)),
           proc'[Preferred].rec = "stage" => /\ proc[Preferred].rec = "stage"
                                             /\ proc'[Preferred].with = proc[Preferred].with,
           proc'[Preferred].rec \in Copying => proc[Preferred].rec \in Copying,
           disk'[Preferred].armed = disk[Preferred].armed,
           disk'[Preferred].pending = disk[Preferred].pending,
           disk'[Preferred].reclaim # {} => \/ disk[Preferred].reclaim # {}
                                            \/ proc[Preferred].rec \in Copying,
           db[Preferred].data \subseteq db'[Preferred].data
    PROVE  Kept'
<1> SUFFICES ASSUME NEW c \in copied', ~c.reopened PROVE Carried(c)'
  BY DEF Kept
<1>1. c \in copied /\ c.from \in Nodes /\ (Reopened(n) => c.from # n)  BY StillCopied
<1>2. Carried(c)  BY <1>1 DEF Kept
<1>3. Frozen(c.from) => Still(c.from)  BY <1>1
<1> QED BY <1>2, <1>3, CarriedAfter

LEMMA KeepCopy ==
    ASSUME TInv, AllSound, Kept, NEW n \in Nodes,
           CopyStep(n) \/ Confirm(n) \/ Snapshot(n) \/ Write(n)
    PROVE  Kept'
<1>0. DbT  BY DEF TInv
<1>1. \A k \in Nodes : Same(k)  BY DataOnly
<1>2. copied' = copied
  BY Zenon DEF CopyStep, BaseBackup, Replay, FetchSnapshot, StoreSnapshot, Confirm, Snapshot, Write,
         ledger
<1>3. db' = db \/ Write(n)
  BY Zenon DEF CopyStep, BaseBackup, Replay, FetchSnapshot, StoreSnapshot, Confirm, Snapshot
<1>4. \A k \in Nodes : /\ db'[k].ro = db[k].ro /\ db[k].data \subseteq db'[k].data
                       /\ db[k].ro => db'[k].data = db[k].data
  <2>1. CASE db' = db  BY <2>1
  <2>2. CASE Write(n)
    <3>1. db' = [db EXCEPT ![n].data = @ \cup {written'}] /\ ~db[n].ro  BY <2>2 DEF Write
    <3> QED BY <1>0, <3>1 DEF DbT, LeadDb
  <2> QED BY <1>3, <2>1, <2>2
<1>5. \A k \in Nodes : Frozen(k) => Still(k)  BY <1>1, <1>4 DEF Frozen, Still, Same
<1> QED BY <1>1, <1>2, <1>4, <1>5, Numbers, KeepStill DEF Same

LEMMA KeepReclaim ==
    ASSUME TInv, AllSound, Kept, NEW n \in Nodes, ReclaimStep(n), ~torn'
    PROVE  Kept'
<1>0. DbT /\ DiskT /\ ProcT /\ Placed(n) /\ Filed(n) /\ Known(n)
  BY DEF TInv, AllSound, Sound
<1>r. proc[n].rec # "idle" =>
        proc[n].pc \in {"first", "lead"} /\ n = Preferred /\ proc[n].with # Preferred
  BY <1>0 DEF Placed
<1>m. PICK m \in Nodes : m = proc[n].with  BY Parts
<1>w. proc[n].pc \in {"first", "lead"} /\ proc[n].rec \notin Copying =>
        disk[n].armed = {} /\ disk[n].reclaim = {}
  BY <1>0 DEF Filed, Copying
<1>1. ASSUME n = Preferred, proc[n].pc \in {"first", "lead"}, proc[n].rec \notin Copying,
             proc'[n].rec \in {"idle", "quiesce", "resume", "dump"},
             disk'[n].armed = disk[n].armed, disk'[n].reclaim = disk[n].reclaim
      PROVE  Kept'
  BY <1>1, <1>w, CarriedIdle DEF Kept, Copying
<1>2. CASE SkipReclaim(n)
  <2>1. db' = db /\ disk' = disk /\ copied' = copied /\ SetPc(n, "lead")
    BY <1>2 DEF SkipReclaim, ledger
  <2>2. \A k \in Nodes : proc'[k].rec = proc[k].rec /\ proc'[k].with = proc[k].with
    BY <1>0, <2>1, PcAt
  <2> QED BY <2>1, <2>2, Numbers, KeepStill DEF Still
<1>3. CASE Look(n)
  <2>0. proc[n].pc \in {"first", "lead"} /\ proc[n].rec = "idle" /\ Reclaims(n)
    BY <1>3 DEF Look
  <2>1. n = Preferred  BY <1>0, <2>0 DEF Reclaims, Known
  <2>2. disk' = disk \/ disk' = [disk EXCEPT ![n].hold = FALSE]  BY <1>3 DEF Look
  <2>3. disk'[n].armed = disk[n].armed /\ disk'[n].reclaim = disk[n].reclaim
    BY <1>0, <2>2 DEF DiskT, LeadDisk
  <2>4. proc'[n].rec \in {"idle", "quiesce"}
    <3>1. CASE PassEnds(n)  BY <3>1, PassEndAt
    <3>2. CASE ~PassEnds(n)
      <4>1. \E w, t : proc' = [proc EXCEPT ![n].rec = "quiesce", ![n].with = w, ![n].term = t]
        BY <1>3, <3>2 DEF Look
      <4> QED BY <1>0, <4>1 DEF ProcT, LeadProc
    <3> QED BY <3>1, <3>2
  <2> QED BY <1>1, <2>0, <2>1, <2>3, <2>4 DEF Copying
<1>4. CASE failover_quiesce(n)
  <2>1. disk' = disk /\ proc[n].rec = "quiesce" /\ m # n /\ n = Preferred
    BY <1>4, <1>r, <1>m DEF failover_quiesce
  <2>2. PICK l \in {"stage", "resume", "dump"} :
           proc' = [proc EXCEPT ![n].rec = l] \/ proc' = [proc EXCEPT ![n].rec = l, ![m].timer = TRUE]
    BY <1>4, <1>m DEF failover_quiesce, Rec
  <2>3. proc'[n].rec = l /\ proc'[n].with = m
    BY <1>0, <1>m, <2>1, <2>2 DEF ProcT, LeadProc
  <2>4. CASE l # "stage"  BY <1>1, <1>r, <2>1, <2>3, <2>4 DEF Copying
  <2>5. CASE l = "stage"
    <3>1. ~Rec(n, "dump") /\ ~Rec(n, "resume")  BY <1>0, <2>3, <2>5, RecAt
    <3>2. /\ Answers(n, m) /\ db[m].me.role = "leader"
          /\ db' = [db EXCEPT ![m].ro = Managed, ![m].me.fenced = TRUE]
          /\ copied' = {[from |-> m, reopened |-> FALSE]}
          /\ \/ proc' = [proc EXCEPT ![n].rec = IF Managed THEN "stage" ELSE "resume",
                                     ![m].timer = TRUE]
             \/ proc' = [proc EXCEPT ![n].rec = "dump", ![m].timer = TRUE]
      BY <1>4, <1>m, <3>1 DEF failover_quiesce
    <3>3. Managed
      BY <1>0, <2>1, <2>3, <2>5, <3>2 DEF ProcT, LeadProc
    <3>4. db'[m].ro /\ db'[m].me.role = "leader"
      <4>1. db'[m].me = [db[m].me EXCEPT !.fenced = TRUE] /\ db'[m].ro = Managed
        BY <1>0, <3>2, WritesAt, Numbers
      <4>2. [db[m].me EXCEPT !.fenced = TRUE].role = db[m].me.role  BY Parts, ReFenced
      <4> QED BY <3>2, <3>3, <4>1, <4>2
    <3>5. disk[m].promote = "none"
      BY <3>2 DEF AllSound, Sound, Filed, Answers, Serving, Leads
    <3>6. disk[n].armed = {} /\ disk[n].reclaim = {}  BY <1>r, <1>w, <2>1 DEF Copying
    <3>7. ASSUME NEW c, c = [from |-> m, reopened |-> FALSE]  PROVE Carried(c)'
      <4>1. c.from = m  BY <3>7
      <4>2. Frozen(c.from)'  BY <2>1, <3>4, <3>5, <4>1 DEF Frozen
      <4>3. /\ proc'[Preferred].rec = "stage" /\ proc'[Preferred].with = m
            /\ disk'[Preferred].armed = {} /\ disk'[Preferred].reclaim = {}
        BY <2>1, <2>3, <2>5, <3>6
      <4> QED BY <4>1, <4>2, <4>3 DEF Carried, Copying
    <3> QED BY <3>2, <3>7 DEF Kept
  <2> QED BY <2>4, <2>5
<1>5. CASE Stage(n)
  <2>1. proc[n].rec = "stage" /\ db' = db /\ copied' = copied /\ n = Preferred
    BY <1>5, <1>r DEF Stage, ledger
  <2>2. CASE Rec(n, "resume") /\ disk' = disk
    <3>1. proc'[n].rec = "resume"  BY <1>0, <2>2, RecAt
    <3> QED BY <1>1, <1>r, <2>1, <2>2, <3>1 DEF Copying
  <2>3. CASE Rec(n, "fence") /\ disk' = [disk EXCEPT ![n].armed = {db[proc[n].with]}]
    <3> SUFFICES ASSUME NEW c \in copied', ~c.reopened PROVE Carried(c)'
      BY DEF Kept
    <3>1. Carried(c) /\ c.from = m /\ Frozen(m)
      BY <1>m, <2>1 DEF Kept, Carried, Holds
    <3>2. /\ disk'[n].armed = {db[m]} /\ disk'[n].pending = disk[n].pending
          /\ disk'[n].reclaim = {} /\ disk'[n].promote = disk[n].promote
          /\ \A k \in Nodes \ {n} : disk'[k] = disk[k]
      BY <1>0, <1>m, <1>r, <1>w, <2>1, <2>3, ArmedAt DEF Copying
    <3>3. proc'[n].rec = "fence"  BY <1>0, <2>3, RecAt
    <3>4. disk[n].pending = {}
      BY <1>0, <1>r, <2>1 DEF Filed, Copying, Placed
    <3>5. Frozen(m)'  BY <2>1, <3>1, <3>2 DEF Frozen
    <3> QED BY <2>1, <3>1, <3>2, <3>3, <3>4, <3>5 DEF Carried
  <2> QED BY <1>5, <2>2, <2>3 DEF Stage
<1>6. CASE failover_resume(n)
  <2>1. proc[n].rec = "resume" /\ disk' = disk /\ Rec(n, "dump")  BY <1>6 DEF failover_resume
  <2>2. proc'[n].rec = "dump"  BY <1>0, <2>1, RecAt
  <2> QED BY <1>1, <1>r, <2>1, <2>2 DEF Copying
<1>7. CASE FetchDump(n)
  <2>1. proc[n].rec = "dump"  BY <1>7 DEF FetchDump
  <2>2. CASE copied' = {}  BY <2>2 DEF Kept
  <2>3. CASE copied' # {}
    <3>1. PassEnds(n) /\ disk' = disk  BY <1>7, <2>3 DEF FetchDump
    <3>2. proc'[n].rec = "idle"  BY <3>1, PassEndAt
    <3> QED BY <1>1, <1>r, <2>1, <3>1, <3>2 DEF Copying
  <2> QED BY <2>2, <2>3
<1>8. CASE FenceWrites(n)
  <2>1. /\ proc[n].rec = "fence" /\ n = Preferred /\ disk' = disk /\ copied' = copied
        /\ Rec(n, "flag") /\ \E x : SetMe(n, x)
    BY <1>8, <1>r DEF FenceWrites
  <2>2. db'[n].data = db[n].data /\ \A k \in Nodes \ {n} : db'[k] = db[k]
    BY <1>0, <2>1, MeAt
  <2>3. proc'[n].rec = "flag"  BY <1>0, <2>1, RecAt
  <2>4. \A k \in Nodes : Frozen(k) => Still(k)  BY <2>1, <2>2 DEF Frozen, Still
  <2> QED BY <2>1, <2>2, <2>3, <2>4, KeepStill DEF Copying
<1>9. CASE WriteReclaim(n)
  <2>1. /\ proc[n].rec = "flag" /\ n = Preferred /\ db' = db /\ copied' = copied
        /\ Rec(n, "demote") /\ \E x : disk' = [disk EXCEPT ![n].reclaim = x]
    BY <1>9, <1>r DEF WriteReclaim, ledger
  <2>2. /\ disk'[n].armed = disk[n].armed /\ disk'[n].pending = disk[n].pending
        /\ \A k \in Nodes : disk'[k].promote = disk[k].promote
    BY <1>0, <2>1, ReclaimAt
  <2>3. proc'[n].rec = "demote"  BY <1>0, <2>1, RecAt
  <2>4. \A k \in Nodes : Frozen(k) => Still(k)  BY <2>1, <2>2 DEF Still
  <2> QED BY <2>1, <2>2, <2>3, <2>4, KeepStill DEF Copying
<1>10. CASE Demote(n)
  <2>1. proc[n].rec = "demote" /\ n = Preferred /\ m # n /\ copied' = copied
    BY <1>10, <1>r, <1>m DEF Demote, ledger
  <2>2. \/ UNCHANGED <<db, disk>> /\ proc' = [proc EXCEPT ![n] = Off("down")]
        \/ /\ ~db[m].ro /\ proc' = [[proc EXCEPT ![n] = Off("down")] EXCEPT ![m].pc = "leaving"]
           /\ \E x : SetMe(m, x) /\ disk' = [disk EXCEPT ![m].ident = {x}]
    BY <1>10, <1>m DEF Demote
  <2>3. proc'[n].rec = "idle"  BY <1>0, <2>1, <2>2 DEF Off, ProcT
  <2>4. CASE UNCHANGED <<db, disk>>
    <3>1. \A k \in Nodes : Frozen(k) => Still(k)  BY <2>4 DEF Still
    <3> QED BY <2>1, <2>3, <2>4, <3>1, KeepStill DEF Copying
  <2>5. CASE ~UNCHANGED <<db, disk>>
    <3>1. PICK x : SetMe(m, x) /\ disk' = [disk EXCEPT ![m].ident = {x}] /\ ~db[m].ro
      BY <2>2, <2>5
    <3>2. \A k \in Nodes \ {m} : db'[k] = db[k] /\ disk'[k] = disk[k]
      BY <1>0, <3>1, MeAt, IdentAt
    <3>3. \A k \in Nodes : Frozen(k) => Still(k)  BY <3>1, <3>2 DEF Still, Frozen
    <3> QED BY <2>1, <2>3, <3>2, <3>3, KeepStill DEF Copying
  <2> QED BY <2>4, <2>5
<1> QED BY <1>2, <1>3, <1>4, <1>5, <1>6, <1>7, <1>8, <1>9, <1>10 DEF ReclaimStep

LEMMA KeepLeader ==
    ASSUME TInv, AllSound, Kept, NEW n \in Nodes,
           Leave(n) \/ QuiesceExpires(n) \/ ReopenWrites(n)
    PROVE  Kept'
<1>0. DbT /\ DiskT /\ ProcT /\ Placed(n)  BY DEF TInv, AllSound, Sound
<1>1. CASE Leave(n)
  <2>1. /\ db' = db /\ disk' = disk /\ copied' = copied /\ proc[n].rec = "idle"
        /\ proc' = [proc EXCEPT ![n] = Off("down")]
    BY <1>0, <1>1 DEF Leave, Placed, ledger
  <2>2. proc'[n].rec = "idle" /\ \A k \in Nodes \ {n} : proc'[k] = proc[k]
    BY <1>0, <2>1, OffAt
  <2> QED BY <2>1, <2>2, Numbers, KeepStill DEF Still, Copying
<1>2. CASE QuiesceExpires(n)
  <2>1. disk' = disk /\ proc' = [proc EXCEPT ![n].timer = FALSE]
    BY <1>2 DEF QuiesceExpires
  <2>2. \/ db' = db /\ copied' = copied
        \/ db' = [db EXCEPT ![n].ro = FALSE, ![n].me.fenced = FALSE] /\ Reopened(n)
    BY <1>2 DEF QuiesceExpires
  <2>3. \A k \in Nodes : /\ db'[k].data = db[k].data
                         /\ db'[k] = db[k] \/ (k = n /\ Reopened(n))
    BY <1>0, <2>2, WritesAt
  <2>4. \A k \in Nodes : proc'[k].rec = proc[k].rec /\ proc'[k].with = proc[k].with
    BY <1>0, <2>1 DEF ProcT, LeadProc
  <2> QED BY <2>1, <2>2, <2>3, <2>4, Numbers, KeepStill DEF Still
<1>3. CASE ReopenWrites(n)
  <2>1. /\ Reopened(n) /\ disk' = [disk EXCEPT ![n].hold = TRUE] /\ proc' = proc
        /\ db' = [db EXCEPT ![n].ro = FALSE, ![n].me.acting = FALSE, ![n].me.fenced = FALSE]
    BY <1>3 DEF ReopenWrites
  <2>2. \A k \in Nodes : db'[k].data = db[k].data /\ (db'[k] = db[k] \/ k = n)
    BY <1>0, <2>1, StopAt
  <2>3. \A k \in Nodes : /\ disk'[k].armed = disk[k].armed /\ disk'[k].pending = disk[k].pending
                         /\ disk'[k].reclaim = disk[k].reclaim
                         /\ disk'[k].promote = disk[k].promote
    BY <1>0, <2>1 DEF DiskT, LeadDisk
  <2> QED BY <2>1, <2>2, <2>3, Numbers, KeepStill DEF Still
<1> QED BY <1>1, <1>2, <1>3

LEMMA KeepFault ==
    ASSUME TInv, AllSound, Kept, ~torn',
           \/ \E n \in Nodes : Fault(n) \/ \E m \in Nodes : Cut(m, n)
           \/ Heal
    PROVE  Kept'
<1>0. ProcT  BY DEF TInv
<1>1. ASSUME NEW n \in Nodes, Dies(n)  PROVE Kept'
  <2>1. /\ db' = db /\ disk' = disk /\ copied' = copied
        /\ proc' = [proc EXCEPT ![n] = Off("down")]
    BY <1>1 DEF Dies
  <2>2. proc'[n].rec = "idle" /\ \A k \in Nodes \ {n} : proc'[k] = proc[k]
    BY <1>0, <2>1, OffAt
  <2> QED BY <2>1, <2>2, Numbers, KeepStill DEF Still, Copying
<1>2. ASSUME UNCHANGED <<db, disk, proc, copied>>  PROVE Kept'
  BY <1>2, Numbers, KeepStill DEF Still
<1> QED BY <1>1, <1>2 DEF Fault, Crash, HostDown, HostUp, Cut, Heal, ledger

LEMMA KeepNext == TInv /\ OwnInv /\ RankInv /\ KeepInv /\ [Next]_vars => KeepInv'
<1> SUFFICES ASSUME TInv, OwnInv, RankInv, KeepInv, [Next]_vars, ~torn'
             PROVE  Kept'
  BY DEF KeepInv
<1>0. AllSound /\ Ranked /\ Kept
  BY TornStays DEF OwnInv, RankInv, KeepInv, AllSound, Ranked
<1>1. CASE Next
  BY <1>0, <1>1, KeepBoot, KeepLoop, KeepCopy, KeepReclaim, KeepLeader, KeepFault
  DEF Next, LeaderStep
<1>2. CASE UNCHANGED vars  BY <1>0, <1>2, Numbers, KeepStill DEF vars, Still
<1> QED BY <1>1, <1>2

\* The identity to take up again goes away when it is taken up, and not otherwise.
LEMMA FlagStays ==
    ASSUME TInv, Next, NEW k \in Nodes, disk[k].reclaim # {}, disk'[k].reclaim = {}
    PROVE  apply_reclaim_flag(k)
<1>0. DiskT  BY DEF TInv
<1>1. ASSUME NEW n \in Nodes, NEW v, NEW w,
             \/ disk' = disk
             \/ disk' = [disk EXCEPT ![n].armed = v] \/ disk' = [disk EXCEPT ![n].hold = v]
             \/ disk' = [disk EXCEPT ![n].promote = v] \/ disk' = [disk EXCEPT ![n].ident = v]
             \/ disk' = [disk EXCEPT ![n].promote = w, ![n].ident = v]
             \/ disk' = [disk EXCEPT ![n].roster = w, ![n].ident = v]
             \/ disk' = [disk EXCEPT ![n].pending = v]
             \/ disk' = [disk EXCEPT ![n].reclaim = {v}]
      PROVE  FALSE
  BY <1>0, <1>1 DEF DiskT, LeadDisk
<1>2. ASSUME NEW n \in Nodes, BootStep(n)  PROVE apply_reclaim_flag(k)
  <2>1. CASE apply_reclaim_flag(n)
    <3>1. \A j \in Nodes \ {n} : disk'[j] = disk[j]
      BY <1>0, <2>1 DEF apply_reclaim_flag, DiskT
    <3> QED BY <2>1, <3>1
  <2>2. CASE Adopt(n) \/ Takeover(n) \/ release_orphan_fence(n)
    BY <1>1, <2>2 DEF Adopt, Takeover, release_orphan_fence
  <2>3. CASE Restore(n)  BY <1>1, <2>3 DEF Restore
  <2>4. CASE apply_promote_flag(n)
    <3>1. \E v : \/ disk' = [disk EXCEPT ![n].promote = "none"]
                 \/ disk' = [disk EXCEPT ![n].promote = "none", ![n].ident = v]
      BY <2>4 DEF apply_promote_flag
    <3> QED BY <1>1, <3>1
  <2> QED BY <1>2, <2>1, <2>2, <2>3, <2>4 DEF BootStep
<1>3. ASSUME NEW n \in Nodes, LoopStep(n)  PROVE FALSE
  <2>1. CASE Heartbeat(n)  BY <1>1, <2>1 DEF Heartbeat
  <2>2. CASE Miss(n) \/ try_elect(n)  BY <1>1, <2>2 DEF Miss, try_elect
  <2>3. CASE ElectPending(n)  BY <1>1, <2>3 DEF ElectPending
  <2>4. CASE ElectFlag(n)  BY <1>1, <2>4 DEF ElectFlag
  <2> QED BY <1>3, <2>1, <2>2, <2>3, <2>4 DEF LoopStep
<1>4. ASSUME NEW n \in Nodes, CopyStep(n) \/ Confirm(n) \/ Snapshot(n) \/ Write(n)
      PROVE  FALSE
  BY <1>4, DataOnly DEF Same
<1>5. ASSUME NEW n \in Nodes, ReclaimStep(n)  PROVE FALSE
  <2>1. CASE SkipReclaim(n) \/ failover_quiesce(n) \/ failover_resume(n) \/ FenceWrites(n)
    BY Zenon, <1>1, <2>1 DEF SkipReclaim, failover_quiesce, failover_resume, FenceWrites
  <2>2. CASE Look(n)  BY Zenon, <1>1, <2>2 DEF Look
  <2>3. CASE Stage(n)  BY Zenon, <1>1, <2>3 DEF Stage
  <2>4. CASE FetchDump(n)
    <3>1. PICK m \in Nodes : m = proc[n].with  BY Parts
    <3>2. PICK v, w : \/ disk' = disk
                      \/ disk' = [[disk EXCEPT ![n].pending = v] EXCEPT ![m].snap = w]
      BY <2>4, <3>1 DEF FetchDump
    <3> QED BY <1>0, <3>2 DEF DiskT, LeadDisk
  <2>5. CASE WriteReclaim(n)  BY <1>1, <2>5 DEF WriteReclaim
  <2>6. CASE Demote(n)
    <3>1. PICK m \in Nodes : m = proc[n].with  BY Parts
    <3>2. \E v : disk' = disk \/ disk' = [disk EXCEPT ![m].ident = v]
      BY <2>6, <3>1 DEF Demote
    <3> QED BY <1>1, <3>2
  <2> QED BY <1>5, <2>1, <2>2, <2>3, <2>4, <2>5, <2>6 DEF ReclaimStep
<1>6. ASSUME NEW n \in Nodes, Leave(n) \/ QuiesceExpires(n) \/ ReopenWrites(n)  PROVE FALSE
  BY Zenon, <1>1, <1>6 DEF Leave, QuiesceExpires, ReopenWrites
<1>7. ASSUME NEW n \in Nodes, Fault(n) \/ Heal \/ \E m \in Nodes : Cut(m, n)  PROVE FALSE
  BY <1>1, <1>7 DEF Fault, Crash, HostDown, HostUp, Dies, Cut, Heal
<1> QED BY <1>2, <1>3, <1>4, <1>5, <1>6, <1>7, Numbers DEF Next, LeaderStep

LEMMA KeepHolds ==
    TInv /\ OwnInv /\ KeepInv /\ [Next]_vars =>
      [\A n \in Nodes :
         /\ disk[n].reclaim # {} /\ disk'[n].reclaim = {} /\ ~torn
         => \A c \in copied : c.reopened \/ db[c.from].data \subseteq db'[n].data]_vars
<1> SUFFICES ASSUME TInv, OwnInv, KeepInv, Next, NEW n \in Nodes, disk[n].reclaim # {},
                    disk'[n].reclaim = {}, ~torn, NEW c \in copied, ~c.reopened
             PROVE  db[c.from].data \subseteq db'[n].data
  OBVIOUS
<1>1. apply_reclaim_flag(n)  BY FlagStays
<1>2. Placed(n) /\ Filed(n) /\ Carried(c)  BY DEF OwnInv, KeepInv, Kept, Sound
<1>3. proc[n].pc = "reclaim" /\ \E x : SetMe(n, x)  BY <1>1 DEF apply_reclaim_flag
<1>4. n = Preferred /\ disk[n].armed = {}  BY <1>2, <1>3 DEF Placed, Filed, Copying
<1>5. db'[n].data = db[n].data  BY <1>3, MeAt DEF TInv
<1> QED BY <1>2, <1>4, <1>5 DEF Carried

\* When the preferred leader takes its identity up again it has every write of the interim
\* leader it copied, unless that leader was reopened after the copy: no write slips in
\* between the quiesce and the copy, and the copy is what the restarted process boots
\* from (failover_quiesce, stage_clone_from, apply_reclaim_flag).
THEOREM ReclaimKeepsWritesHolds == Spec => ReclaimKeepsWrites
<1>1. Init => TInv /\ OwnInv /\ RankInv /\ KeepInv  BY TInit, OwnInit, RankInit, KeepInit
<1>2. (TInv /\ OwnInv /\ RankInv /\ KeepInv) /\ [Next]_vars
        => (TInv /\ OwnInv /\ RankInv /\ KeepInv)'
  BY TNext, OwnNext, RankNext, KeepNext
<1> QED BY <1>1, <1>2, KeepHolds, PTL DEF Spec, ReclaimKeepsWrites
=============================================================================
