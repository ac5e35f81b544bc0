-------------------------- MODULE SelfUpdateProofs --------------------------
(***************************************************************************)
(* Proofs about SelfUpdate: types, and that an update never strands the    *)
(* instance, whatever command fails and whenever the process dies, for any *)
(* number of updates, names and faults, up to the first of the mishaps the *)
(* code does not survive (SelfUpdate!Excused).                             *)
(***************************************************************************)
EXTENDS SelfUpdate, TLAPS

Ct == [up : BOOLEAN, ver : {0, 1}, conf : Names] \cup {NoCt}
Job == [id : Tasks \cup {NoTask}, status : {"none", "running", "restarting", "failed"}]
\* A task works on a name that can be lengthened.
Place == [pc : TaskPc, n : {n \in Names : n < MaxOld}]

-----------------------------------------------------------------------------
(* The types.                                                              *)

LEMMA Constants ==
    /\ MaxOld \in Nat \ {0} /\ MaxFaults \in Nat /\ 0 \in Names
    /\ \A n \in Names : n \in Nat /\ (n < MaxOld => n + 1 \in Names) /\ n <= MaxOld
  BY SelfUpdateAssumption DEF Names

\* What is up, and what is of a version, is a container.
LEMMA CtShape ==
    /\ NoCt.up = FALSE /\ NoCt.ver = 2
    /\ \A c \in Ct : c.up \in BOOLEAN /\ (c.ver = 0 => c # NoCt)
                     /\ (c # NoCt => c \in [up : BOOLEAN, ver : {0, 1}, conf : Names])
<1>1. NoCt.up = FALSE /\ NoCt.ver = 2  BY DEF NoCt
<1>2. \A c \in [up : BOOLEAN, ver : {0, 1}, conf : Names] : c.up \in BOOLEAN  OBVIOUS
<1>3. NoCt.up \in BOOLEAN  BY DEF NoCt
<1>4. \A c \in Ct : c.up \in BOOLEAN
  <2> SUFFICES ASSUME NEW c \in Ct PROVE c.up \in BOOLEAN  OBVIOUS
  <2>1. CASE c = NoCt  BY <2>1, <1>3, Zenon
  <2>2. CASE c # NoCt  BY <2>2, <1>2, Zenon DEF Ct
  <2> QED BY <2>1, <2>2
<1>5. \A c \in Ct : (c.ver = 0 => c # NoCt)
                    /\ (c # NoCt => c \in [up : BOOLEAN, ver : {0, 1}, conf : Names])
  BY <1>1 DEF Ct
<1> QED BY <1>1, <1>4, <1>5, Zenon

\* How a step counts its faults and mishaps.
Counting == NoFault \/ Begins \/ \E ms \in SUBSET Mishaps : Faulted(ms)

LEMMA Counts ==
    /\ NoFault \/ Begins \/ Fault \/ Fails({}) => Counting
    /\ \A m \in Mishaps : Faulted({m}) \/ Fails({m}) => Counting
<1>1. \A ms \in SUBSET Mishaps : Faulted(ms) \/ Fails(ms) => Counting
  BY DEF Counting, Fails
<1> QED BY <1>1 DEF Counting, Fault

LEMMA FaultType ==
    ASSUME faults \in 0 .. MaxFaults, mishaps \subseteq Mishaps, Counting
    PROVE  faults' \in 0 .. MaxFaults /\ mishaps' \subseteq Mishaps
<1>1. "overlap" \in Mishaps  BY DEF Mishaps
<1> QED BY <1>1, Constants DEF Counting, Faulted, Begins, NoFault

LEMMA RenamedIs ==
    ASSUME ct \in [Names -> Ct], NEW m \in Names, NEW n \in Names, CanRename(m, n)
    PROVE  /\ m # n /\ Renamed(m, n) \in [Names -> Ct]
           /\ Renamed(m, n)[n] = ct[m] /\ Renamed(m, n)[m] = NoCt
           /\ \A k \in Names \ {m, n} : Renamed(m, n)[k] = ct[k]
  BY DEF CanRename, Exists, Renamed, Ct

LEMMA RemovedIs ==
    ASSUME ct \in [Names -> Ct], NEW n \in Names
    PROVE  /\ Removed(n) \in [Names -> Ct] /\ Removed(n)[n] = NoCt
           /\ \A k \in Names \ {n} : Removed(n)[k] = ct[k]
  BY DEF Removed, Ct

LEMMA DeadIs ==
    ASSUME NEW f \in [Tasks -> Place]
    PROVE  /\ Dead(f) \in [Tasks -> Place]
           /\ \A t \in Tasks : Dead(f)[t].pc \in {"new", "end"}
  BY Constants DEF Dead, Place, TaskPc

LEMMA MovedIs ==
    ASSUME task \in [Tasks -> Place], NEW t \in Tasks
    PROVE  /\ Ended(t)[t].pc = "end"
           /\ \A u \in Tasks \ {t} : Ended(t)[u] = task[u]
           /\ \A l \in TaskPc : /\ Goto(t, l)[t].pc = l /\ Goto(t, l)[t].n = task[t].n
                              /\ \A u \in Tasks \ {t} : Goto(t, l)[u] = task[u]
<1>1. task[t] \in Place  OBVIOUS
<1>2. \A l \in TaskPc : Goto(t, l)[t] = [pc |-> l, n |-> task[t].n]
  BY <1>1 DEF Goto, Place
<1> QED BY <1>2 DEF Ended, Goto

LEMMA MemoryType ==
    ASSUME task \in [Tasks -> Place], job \in Job, NEW t \in Tasks
    PROVE  /\ Ended(t) \in [Tasks -> Place] /\ fail_job(t) \in Job /\ NoJob \in Job
           /\ \A l \in TaskPc : Goto(t, l) \in [Tasks -> Place]
           /\ \A s \in {"running", "restarting"} : [id |-> t, status |-> s] \in Job
           /\ [job EXCEPT !.status = "restarting"] \in Job
  BY Constants DEF Ended, fail_job, NoJob, Goto, Place, Job, TaskPc, Tasks

-----------------------------------------------------------------------------
(* Types: at most one container runs, and a task at work has one to run in. *)
Busy(t) == task[t].pc \notin {"new", "end"}
OneUp(c) == \A m, n \in Names : c[m].up /\ c[n].up => m = n
AnyUp(c) == \E n \in Names : c[n].up
Types ==
    /\ ct \in [Names -> Ct] /\ helper \in [Names -> HelperPc]
    /\ job \in Job /\ task \in [Tasks -> Place]
    /\ faults \in 0 .. MaxFaults /\ mishaps \subseteq Mishaps
TInv == Types /\ OneUp(ct) /\ \A t \in Tasks : Busy(t) => Alive

LEMMA SelfIs ==
    ASSUME TInv, NEW n \in Names, ct[n].up
    PROVE  Self = n /\ ct[Self].conf \in Names
<1>1. Self \in Names /\ ct[Self].up  BY DEF Self
<1>2. Self = n  BY <1>1 DEF TInv, OneUp
<1> QED BY <1>2, CtShape DEF TInv, Types, Ct, NoCt

LEMMA SelfType ==
    ASSUME TInv, Alive
    PROVE  Self \in Names /\ ct[Self].up /\ ct[Self].conf \in Names
  BY SelfIs DEF Alive

LEMMA RenamedUp ==
    ASSUME TInv, NEW m \in Names, NEW n \in Names, CanRename(m, n)
    PROVE  OneUp(Renamed(m, n)) /\ (AnyUp(Renamed(m, n)) <=> Alive)
<1>1. ct \in [Names -> Ct]  BY DEF TInv, Types
<1>2. ~ct[n].up  BY CtShape DEF CanRename, Exists
<1> QED BY <1>1, <1>2, RenamedIs, CtShape DEF TInv, OneUp, AnyUp, Alive

LEMMA RemovedUp ==
    ASSUME TInv, NEW n \in Names
    PROVE  OneUp(Removed(n)) /\ (~ct[n].up => (AnyUp(Removed(n)) <=> Alive))
<1>1. ct \in [Names -> Ct]  BY DEF TInv, Types
<1> QED BY <1>1, RemovedIs, CtShape DEF TInv, OneUp, AnyUp, Alive

LEMMA HostType ==
    ASSUME TInv, NEW c \in [Names -> Ct], OneUp(c), NEW s, s /\ Alive => AnyUp(c),
           NEW j \in Job, NEW f \in [Tasks -> Place], Host(c, s, j, f),
           \A t \in Tasks : f[t].pc \notin {"new", "end"} => Alive,
           helper' \in [Names -> HelperPc], Counting
    PROVE  TInv'
<1>1. NoJob \in Job  BY DEF NoJob, Job
<1>2. ct' \in [Names -> Ct] /\ job' \in Job /\ task' \in [Tasks -> Place]
  BY <1>1, DeadIs DEF Host
<1>3. Types'  BY <1>2, FaultType DEF TInv, Types
<1>4. \A t \in Tasks : Busy(t)' => Alive'
  BY DeadIs DEF Host, Busy, AnyUp, Alive
<1> QED BY <1>3, <1>4 DEF TInv, Host, OneUp

LEMMA MoveType ==
    ASSUME TInv, Alive, NEW j \in Job, NEW f \in [Tasks -> Place], Move(f, j),
           helper' \in [Names -> HelperPc], Counting
    PROVE  TInv'
<1>1. Types'  BY FaultType DEF Move, TInv, Types
<1> QED BY <1>1 DEF TInv, Move, OneUp, Alive, Busy

LEMMA InitTypes == Init => TInv
<1> SUFFICES ASSUME Init PROVE TInv  OBVIOUS
<1>1. Types
  BY Constants DEF Init, Types, Ct, Job, Place, NoJob, NoCt, TaskPc, HelperPc
<1>2. OneUp(ct)  BY DEF Init, OneUp, NoCt
<1>3. \A t \in Tasks : ~Busy(t)  BY DEF Init, Busy
<1> QED BY <1>1, <1>2, <1>3 DEF TInv

LEMMA PipelineTypes ==
    ASSUME TInv, NEW p \in Starts, Start(p) \/ PipelineStep(p)
    PROVE  TInv'
<1>0. /\ ct \in [Names -> Ct] /\ helper \in [Names -> HelperPc] /\ p \in Tasks
      /\ job \in Job /\ task \in [Tasks -> Place]
  BY DEF TInv, Types, Tasks
<1>1. CASE Start(p)
  BY <1>0, <1>1, Counts, MemoryType, MoveType DEF Start, TaskPc
<1>2. CASE Accept(p)
  <2>1. Alive  BY <1>0, <1>2 DEF Accept, At, TInv, Busy
  <2> QED BY <1>0, <1>2, <2>1, Counts, MemoryType, MoveType DEF Accept, TaskPc
<1>3. CASE Pull(p)
  <2>1. Alive  BY <1>0, <1>3 DEF Pull, At, TInv, Busy
  <2> QED BY <1>0, <1>3, <2>1, Counts, MemoryType, MoveType DEF Pull, TaskPc
<1>4. CASE running_container_name(p)
  <2>1. Alive  BY <1>0, <1>4 DEF running_container_name, At, TInv, Busy
  <2>2. PICK n \in {Self, ct[Self].conf} :
          /\ n < MaxOld
          /\ Move([task EXCEPT ![p] = [pc |-> "clean", n |-> n]], job)
          /\ NoFault \/ Faulted({"misnamed"})
    BY <1>4 DEF running_container_name
  <2>3. [task EXCEPT ![p] = [pc |-> "clean", n |-> n]] \in [Tasks -> Place]
    BY <1>0, <2>1, <2>2, SelfType DEF Place, TaskPc
  <2>4. Counting  BY <2>2, Counts DEF Mishaps
  <2> QED BY <1>0, <1>4, <2>1, <2>2, <2>3, <2>4, MoveType DEF running_container_name
<1>5. CASE Finish(p)
  <2>1. Alive  BY <1>0, <1>5 DEF Finish, At, TInv, Busy
  <2> QED BY <1>0, <1>5, <2>1, Counts, MemoryType, MoveType DEF Finish
<1> QED BY <1>1, <1>2, <1>3, <1>4, <1>5 DEF PipelineStep

LEMMA ScriptTypes ==
    ASSUME TInv, NEW s \in Scripts, Align(s) \/ ScriptName(s)
    PROVE  TInv'
<1>0. /\ ct \in [Names -> Ct] /\ helper \in [Names -> HelperPc] /\ s \in Tasks
      /\ job \in Job /\ task \in [Tasks -> Place]
  BY DEF TInv, Types, Tasks
<1>1. CASE Align(s)
  <2> DEFINE want == ct[Self].conf
             c == IF CanRename(Self, want) THEN Renamed(Self, want) ELSE ct
             f == IF want # Self /\ Exists(want) THEN Ended(s) ELSE Goto(s, "name")
  <2>1. Alive /\ Host(c, TRUE, job, f) /\ Counting /\ helper' = helper
    BY <1>1, Counts DEF Align
  <2>2. Self \in Names /\ want \in Names  BY <2>1, SelfType
  <2>3. c \in [Names -> Ct] /\ OneUp(c) /\ AnyUp(c)
    BY <1>0, <2>1, <2>2, RenamedIs, RenamedUp DEF TInv, AnyUp, Alive
  <2>4. f \in [Tasks -> Place]  BY <1>0, MemoryType DEF TaskPc
  <2> HIDE DEF c, f
  <2> QED BY <1>0, <2>1, <2>3, <2>4, HostType
<1>2. CASE ScriptName(s)
  <2> DEFINE n == IF Exists(ct[Self].conf) THEN ct[Self].conf ELSE Self
             f == IF ct[n].ver = 1 THEN Ended(s)
                                   ELSE [task EXCEPT ![s] = [pc |-> "clean", n |-> n]]
  <2>1. Alive  BY <1>0, <1>2 DEF ScriptName, At, TInv, Busy
  <2>2. n \in Names  BY <2>1, SelfType
  <2>3. n < MaxOld /\ Move(f, job) /\ Counting /\ helper' = helper
    BY <1>2, Counts DEF ScriptName
  <2> HIDE DEF n
  <2>4. [task EXCEPT ![s] = [pc |-> "clean", n |-> n]] \in [Tasks -> Place]
    BY <1>0, <2>2, <2>3 DEF Place, TaskPc
  <2>5. f \in [Tasks -> Place]  BY <1>0, <2>4, MemoryType
  <2> HIDE DEF f
  <2> QED BY <1>0, <2>1, <2>3, <2>5, MoveType
<1> QED BY <1>1, <1>2

LEMMA TaskTypes ==
    ASSUME TInv, NEW t \in Tasks, TaskStep(t)
    PROVE  TInv'
<1>0. /\ ct \in [Names -> Ct] /\ helper \in [Names -> HelperPc]
      /\ job \in Job /\ task \in [Tasks -> Place] /\ task[t].n \in Names
  BY DEF TInv, Types, Place
<1>1. Alive  BY <1>0 DEF TInv, Busy, TaskStep, At, Clean, Rename, Schedule, Unrename
<1> DEFINE n == task[t].n
<1>2. n \in Names /\ n + 1 \in Names  BY <1>0, Constants DEF Place
<1>3. /\ Goto(t, "rename") \in [Tasks -> Place] /\ Goto(t, "schedule") \in [Tasks -> Place]
      /\ Goto(t, "unrename") \in [Tasks -> Place] /\ Goto(t, "applied") \in [Tasks -> Place]
      /\ Ended(t) \in [Tasks -> Place] /\ fail_job(t) \in Job
  BY <1>0, MemoryType DEF TaskPc
<1>4. CASE Clean(t)
  <2>1. helper' \in [Names -> HelperPc]  BY <1>0, <1>4 DEF Clean, HelperPc
  <2>2. OneUp(Removed(n + 1)) /\ (~ct[n + 1].up => AnyUp(Removed(n + 1)))
    BY <1>1, <1>2, RemovedUp
  <2>3. Removed(n + 1) \in [Names -> Ct]  BY <1>0, <1>2, RemovedIs
  <2>4. Counting  BY <1>4, Counts DEF Clean
  <2>5. CASE Remove(n + 1, job, Goto(t, "rename"))
    BY <1>0, <1>1, <1>3, <2>1, <2>2, <2>3, <2>4, <2>5, HostType DEF Remove
  <2>6. CASE Move(Goto(t, "rename"), job)
    BY <1>0, <1>1, <1>3, <2>1, <2>4, <2>6, MoveType
  <2> QED BY <1>4, <2>5, <2>6 DEF Clean
<1>5. CASE Rename(t)
  <2>1. CASE CanRename(n, n + 1) /\ Host(Renamed(n, n + 1), TRUE, job, Goto(t, "schedule"))
             /\ NoFault
    BY <1>0, <1>1, <1>2, <1>3, <1>5, <2>1, Counts, RenamedIs, RenamedUp, HostType DEF Rename
  <2>2. CASE Move(Ended(t), fail_job(t)) /\ (Fault \/ NoFault)
    BY <1>0, <1>1, <1>3, <1>5, <2>2, Counts, MoveType DEF Rename
  <2> QED BY <1>5, <2>1, <2>2 DEF Rename
<1>6. CASE Schedule(t)
  <2>1. helper' \in [Names -> HelperPc]  BY <1>0, <1>6 DEF Schedule, HelperPc
  <2>2. PICK f \in [Tasks -> Place], j \in Job : Move(f, j)
    BY <1>0, <1>3, <1>6 DEF Schedule
  <2>3. Counting  BY <1>6, Counts DEF Schedule
  <2> QED BY <1>1, <2>1, <2>2, <2>3, MoveType
<1>7. CASE Unrename(t)
  <2> DEFINE c == IF CanRename(n + 1, n) THEN Renamed(n + 1, n) ELSE ct
  <2>1. helper' = helper /\ Counting  BY <1>7, Counts DEF Unrename
  <2>2. c \in [Names -> Ct] /\ OneUp(c) /\ AnyUp(c)
    BY <1>0, <1>1, <1>2, RenamedIs, RenamedUp DEF TInv, AnyUp, Alive
  <2>3. Host(c, TRUE, fail_job(t), Ended(t)) \/ Move(Ended(t), fail_job(t))
    BY <1>7 DEF Unrename
  <2> HIDE DEF c
  <2> QED BY <1>0, <1>1, <1>3, <2>1, <2>2, <2>3, HostType, MoveType
<1> QED BY <1>4, <1>5, <1>6, <1>7 DEF TaskStep

LEMMA HelperTypes ==
    ASSUME TInv, NEW n \in Names, HelperStep(n)
    PROVE  TInv'
<1>0. /\ ct \in [Names -> Ct] /\ helper \in [Names -> HelperPc]
      /\ job \in Job /\ task \in [Tasks -> Place]
      /\ \A t \in Tasks : task[t].pc \notin {"new", "end"} => Alive
  BY DEF TInv, Types, Busy
<1>1. n < MaxOld
  BY DEF HelperStep, HelperAt, HelperPull, HelperUnpull, HelperStop, HelperRm,
         HelperRun, HelperDrop, HelperUndo, HelperRename, HelperStart
<1>2. n + 1 \in Names /\ n # n + 1  BY <1>1, Constants
<1>3. helper' \in [Names -> HelperPc]
  BY <1>0 DEF HelperStep, HelperGoto, HelperPc, HelperPull, HelperUnpull, HelperStop,
         HelperRm, HelperRun, HelperDrop, HelperUndo, HelperRename, HelperStart
<1>c. Counting
  BY Counts DEF HelperStep, HelperPull, HelperUnpull, HelperStop, HelperRm, HelperRun,
                HelperDrop, HelperUndo, HelperRename, HelperStart, Mishaps
<1>4. ASSUME NEW m \in {n, n + 1}, Remove(m, job, task)
      PROVE  TInv'
  <2>1. m \in Names  BY <1>2, <1>4
  <2>2. OneUp(Removed(m)) /\ (~ct[m].up /\ Alive => AnyUp(Removed(m)))
    BY <2>1, RemovedUp
  <2>3. Removed(m) \in [Names -> Ct]  BY <1>0, <2>1, RemovedIs
  <2>4. Host(Removed(m), ~ct[m].up, job, task)  BY <1>4 DEF Remove
  <2> QED BY <1>0, <1>3, <1>c, <2>2, <2>3, <2>4, HostType
<1>5. ASSUME Host(IF CanRename(n + 1, n) THEN Renamed(n + 1, n) ELSE ct,
                  TRUE, job, task)
      PROVE  TInv'
  <2> DEFINE c == IF CanRename(n + 1, n) THEN Renamed(n + 1, n) ELSE ct
  <2>1. c \in [Names -> Ct] /\ OneUp(c) /\ (Alive => AnyUp(c))
    BY <1>0, <1>2, RenamedIs, RenamedUp DEF TInv, AnyUp, Alive
  <2>2. Host(c, TRUE, job, task)  BY <1>5
  <2> HIDE DEF c
  <2> QED BY <1>0, <1>3, <1>c, <2>1, <2>2, HostType
<1>6. ASSUME UNCHANGED <<job, task>>, ct' \in [Names -> Ct], OneUp(ct'),
             Alive => AnyUp(ct')
      PROVE  TInv'
  <2>1. Types'  BY <1>0, <1>3, <1>c, <1>6, FaultType DEF Types, TInv
  <2> QED BY <1>0, <1>6, <2>1 DEF TInv, OneUp, AnyUp, Alive, Busy
<1>f. ASSUME UNCHANGED <<ct, job, task>>
      PROVE  TInv'
  <2>1. OneUp(ct') /\ (Alive => AnyUp(ct'))  BY <1>f DEF TInv, OneUp, AnyUp, Alive
  <2> QED BY <1>0, <1>6, <1>f, <2>1
<1>7. CASE HelperPull(n)
  BY <1>7, <1>f DEF HelperPull
<1>8. CASE HelperUnpull(n) \/ HelperRename(n)
  BY <1>5, <1>8, <1>f DEF HelperUnpull, HelperRename, Fails
<1>9. CASE HelperRm(n) \/ HelperDrop(n) \/ HelperUndo(n)
  BY <1>4, <1>9, <1>f DEF HelperRm, HelperDrop, HelperUndo, Fails
<1>10. CASE HelperStop(n)
  <2> DEFINE c == IF Exists(n + 1) THEN [ct EXCEPT ![n + 1].up = FALSE] ELSE ct
  <2>1. c \in [Names -> Ct]
    <3>1. CASE Exists(n + 1)
      <4>1. ct[n + 1] \in [up : BOOLEAN, ver : {0, 1}, conf : Names]
        BY <1>0, <1>2, <3>1, CtShape DEF Exists
      <4>2. [ct[n + 1] EXCEPT !.up = FALSE] \in Ct  BY <4>1 DEF Ct
      <4> QED BY <1>0, <1>2, <3>1, <4>2
    <3> QED BY <1>0, <3>1
  <2>2. \A m \in Names : c[m].up => ct[m].up  BY <1>0, <1>2, CtShape
  <2>3. OneUp(c)  BY <2>2 DEF TInv, OneUp
  <2>4. ~ct[n + 1].up => c = ct \/ \A m \in Names \ {n + 1} : c[m].up = ct[m].up
    BY <1>0, <1>2
  <2>5. ~ct[n + 1].up /\ Alive => AnyUp(c)  BY <2>4 DEF Alive, AnyUp
  <2>6. Host(c, ~ct[n + 1].up, job, task) \/ UNCHANGED <<ct, job, task>>
    BY <1>10 DEF HelperStop, Fails
  <2> HIDE DEF c
  <2> QED BY <1>0, <1>3, <1>c, <1>f, <2>1, <2>3, <2>5, <2>6, HostType
<1>11. CASE HelperRun(n)
  <2>1. CASE ct' = ct
    BY <1>f, <1>11, <2>1 DEF HelperRun
  <2>2. ASSUME NEW u \in BOOLEAN, ~Exists(n), u => ~Alive,
               ct' = Made(n, u)
        PROVE  TInv'
    <3>1. [up |-> u, ver |-> 1, conf |-> n] \in Ct  BY DEF Ct
    <3>2. ct' \in [Names -> Ct]  BY <1>0, <2>2, <3>1 DEF Made
    <3>3. ct'[n].up = u /\ (\A m \in Names \ {n} : ct'[m] = ct[m]) /\ ~ct[n].up
      BY <1>0, <2>2, CtShape DEF Exists, Made
    <3>4. OneUp(ct') /\ (Alive => AnyUp(ct'))
      BY <2>2, <3>3 DEF TInv, OneUp, AnyUp, Alive
    <3> QED BY <1>6, <1>11, <3>2, <3>4 DEF HelperRun
  <2> QED BY <1>11, <2>1, <2>2 DEF HelperRun
<1>12. CASE HelperStart(n)
  <2>1. CASE ct' = ct
    BY <1>f, <1>12, <2>1 DEF HelperStart, Fails
  <2>2. CASE Exists(n) /\ ~Alive /\ ct' = [ct EXCEPT ![n].up = TRUE]
    <3>1. ct[n] \in [up : BOOLEAN, ver : {0, 1}, conf : Names]
      BY <1>0, <2>2, CtShape DEF Exists
    <3>2. [ct[n] EXCEPT !.up = TRUE] \in Ct  BY <3>1 DEF Ct
    <3>3. ct' \in [Names -> Ct]  BY <1>0, <2>2, <3>2
    <3>4. OneUp(ct')  BY <1>0, <2>2 DEF OneUp, Alive
    <3> QED BY <1>6, <1>12, <2>2, <3>3, <3>4 DEF HelperStart, Fails, AnyUp, Alive
  <2> QED BY <1>12, <2>1, <2>2 DEF HelperStart, Fails
<1> QED BY <1>7, <1>8, <1>9, <1>10, <1>11, <1>12 DEF HelperStep

LEMMA TypeStep == TInv /\ [Next]_vars => TInv'
<1> SUFFICES ASSUME TInv, [Next]_vars PROVE TInv'  OBVIOUS
<1>1. CASE Crash
  <2>1. /\ ct \in [Names -> Ct] /\ OneUp(ct) /\ AnyUp(ct) /\ job \in Job
        /\ task \in [Tasks -> Place] /\ helper' \in [Names -> HelperPc]
    BY <1>1 DEF Crash, TInv, Types, AnyUp, Alive
  <2> QED BY <1>1, <2>1, Counts, HostType DEF Crash
<1>2. CASE UNCHANGED vars
  BY <1>2 DEF vars, TInv, Types, OneUp, Alive, Busy
<1> QED BY <1>1, <1>2, PipelineTypes, ScriptTypes, TaskTypes, HelperTypes DEF Next

\* Every variable keeps its type; at most one container runs, and a pipeline or a
\* script is at work only while its container does (crates/update/src/lib.rs:473-1034,
\* the memory of a process ends with its container).
THEOREM TypeCorrect == Spec => []TypeOK
<1>1. TInv => TypeOK  BY DEF TInv, Types, TypeOK, Ct, Job, Place
<1> QED BY InitTypes, TypeStep, <1>1, PTL DEF Spec

-----------------------------------------------------------------------------
(* Until a mishap excuses them, updates come one after the other: who is   *)
(* at work, and what it finds.                                             *)
Working(n) == helper[n] # "none"
Serves(n) == ct[n].up /\ ct[n].ver = 0

\* A helper works alone; before it stops the old container that one serves, and until
\* the new one runs it is kept, and runs when its stop failed.
HelperAtWork(n) ==
    /\ n < MaxOld
    /\ helper[n] \in {"pull", "unpull", "stop"} => Serves(n + 1)
    /\ helper[n] \in {"rm", "run", "undo", "rename"} => ct[n + 1].ver = 0
                                                       /\ (Alive => ct[n + 1].up)
    /\ helper[n] = "rename" => ~Exists(n)
    /\ helper[n] = "start" => ct[n].ver = 0
    /\ helper[n] = "drop" => ct[n].up

\* A task works on the container that serves.
TaskAtWork(t) ==
    /\ task[t].pc \in {"asked", "pull", "name"} => \E n \in Names : Serves(n)
    /\ task[t].pc = "name" /\ t \in Scripts => \E n \in Names : Serves(n) /\ ct[n].conf = n
    /\ task[t].pc \in {"clean", "rename"} => Serves(task[t].n)
    /\ task[t].pc \in {"schedule", "unrename"} => Serves(task[t].n + 1)

HelperInv == \A n \in Names : Working(n) =>
                HelperAtWork(n) /\ \A m \in Names : Working(m) => m = n
TaskInv == \A t \in Tasks : Busy(t) =>
    /\ TaskAtWork(t) /\ \A u \in Tasks : Busy(u) => u = t
    /\ \A n \in Names : Working(n) => task[t].pc = "applied"
AliveInv == (\A n \in Names : ~Working(n)) => Alive
SInv == HelperInv /\ TaskInv /\ AliveInv

LEMMA SInvInit == Init => SInv
<1> SUFFICES ASSUME Init PROVE SInv  OBVIOUS
<1>1. Alive  BY Constants DEF Init, Alive
<1>2. (\A n \in Names : ~Working(n)) /\ \A t \in Tasks : ~Busy(t)  BY DEF Init, Working, Busy
<1> QED BY <1>1, <1>2 DEF SInv, HelperInv, TaskInv, AliveInv

LEMMA SInvHolds ==
    ASSUME TInv, Excused \/ SInv
    PROVE  NeverStranded
<1> SUFFICES ASSUME SInv PROVE NeverStranded  BY DEF NeverStranded
<1>1. CASE \A n \in Names : ~Working(n)
  BY <1>1 DEF SInv, AliveInv, NeverStranded
<1>2. CASE \E n \in Names : Working(n)
  <2>1. PICK n \in Names : Working(n)  BY <1>2
  <2>2. n < MaxOld /\ n + 1 \in Names  BY <2>1, Constants DEF SInv, HelperInv, HelperAtWork
  <2>3. helper[n] \in HelperPc /\ ct \in [Names -> Ct]  BY DEF TInv, Types
  <2>4. Alive \/ ct[n + 1].ver = 0 \/ ct[n].ver = 0
    BY <2>1, <2>2, <2>3 DEF SInv, HelperInv, HelperAtWork, Working, Serves, Alive, HelperPc
  <2> QED BY <2>1, <2>2, <2>3, <2>4, CtShape DEF NeverStranded, Working, Exists
<1> QED BY <1>1, <1>2

\* No helper works: only the task moves.
LEMMA TaskMoves ==
    ASSUME TInv, SInv, NEW t \in Tasks,
           Alone \/ (Busy(t) /\ task[t].pc # "applied"),
           helper' = helper, \A u \in Tasks \ {t} : task'[u] = task[u],
           Alive', Busy(t)' => TaskAtWork(t)'
    PROVE  SInv'
<1>1. \A n \in Names : ~Working(n)  BY DEF SInv, TaskInv, Alone, Working
<1>2. \A u \in Tasks \ {t} : ~Busy(u)  BY DEF SInv, TaskInv, Alone, Busy
<1>3. \A n \in Names : ~Working(n)'  BY <1>1 DEF Working
<1>4. \A u \in Tasks \ {t} : ~Busy(u)'  BY <1>2 DEF Busy
<1> QED BY <1>3, <1>4 DEF SInv, HelperInv, TaskInv, AliveInv

\* Tasks end, nothing else moves.
LEMMA TasksEnd ==
    ASSUME TInv, SInv, UNCHANGED <<ct, helper>>,
           \A t \in Tasks : task'[t] = task[t] \/ ~Busy(t)'
    PROVE  SInv'
<1>1. HelperInv' /\ AliveInv'
  BY DEF SInv, HelperInv, AliveInv, HelperAtWork, Working, Serves, Alive, Exists
<1>2. ASSUME NEW t \in Tasks, Busy(t)'
      PROVE  task'[t] = task[t] /\ Busy(t) /\ TaskAtWork(t)'
  BY <1>2 DEF SInv, TaskInv, TaskAtWork, Busy, Serves
<1>3. TaskInv'  BY <1>2 DEF SInv, TaskInv, Working
<1> QED BY <1>1, <1>3 DEF SInv

\* A helper takes a step: a task that is left waits for the restart.
LEMMA HelperMoves ==
    ASSUME TInv, SInv, NEW n \in Names, Working(n), NEW h \in HelperPc, HelperGoto(n, h),
           \A t \in Tasks : task'[t] = task[t] \/ ~Busy(t)',
           h # "none" => HelperAtWork(n)', h = "none" => Alive'
    PROVE  SInv'
<1>1. helper \in [Names -> HelperPc]  BY DEF TInv, Types
<1>2. helper'[n] = h /\ \A m \in Names \ {n} : helper'[m] = "none"
  BY <1>1 DEF HelperGoto, SInv, HelperInv, Working
<1>3. \A m \in Names \ {n} : ~Working(m)'  BY <1>2 DEF Working
<1>4. Working(n)' <=> h # "none"  BY <1>2 DEF Working
<1>5. HelperInv' /\ AliveInv'  BY <1>3, <1>4 DEF HelperInv, AliveInv
<1>6. ASSUME NEW t \in Tasks, Busy(t)'
      PROVE  /\ task'[t] = task[t] /\ Busy(t) /\ task'[t].pc = "applied"
             /\ TaskAtWork(t)'
  <2>1. task'[t] = task[t] /\ Busy(t)  BY <1>6 DEF Busy
  <2>2. task[t].pc = "applied"  BY <2>1 DEF SInv, TaskInv
  <2> QED BY <2>1, <2>2 DEF TaskAtWork
<1>7. TaskInv'  BY <1>6 DEF SInv, TaskInv
<1> QED BY <1>5, <1>7 DEF SInv

LEMMA PipelineSafe ==
    ASSUME ~Excused', TInv, SInv, NEW p \in Starts, Start(p) \/ PipelineStep(p)
    PROVE  SInv'
<1>0. /\ ct \in [Names -> Ct] /\ task \in [Tasks -> Place] /\ p \in Tasks /\ p \notin Scripts
  BY SelfUpdateAssumption DEF TInv, Types, Tasks
<1>1. CASE Start(p)
  <2>1. CASE task' = Ended(p)
    BY <1>0, <1>1, <2>1, MovedIs, TasksEnd DEF Start, Move, Busy
  <2>2. CASE task' = Goto(p, "asked") /\ Begins
    <3>1. Alone /\ Alive /\ ct[Self].ver = 0 /\ UNCHANGED <<ct, helper>>
      BY <1>1, <2>2 DEF Start, Move, Begins, Excused
    <3>2. Serves(Self) /\ Self \in Names  BY <3>1, SelfType DEF Serves
    <3>3. /\ \A u \in Tasks \ {p} : task'[u] = task[u]
          /\ task'[p].pc = "asked"
      BY <1>0, <2>2, MovedIs DEF TaskPc
    <3>4. Alive' /\ Serves(Self)'
      BY <3>1, <3>2 DEF Alive, Serves, Self
    <3>5. Busy(p)' => TaskAtWork(p)'
      BY <3>1, <3>2, <3>3 DEF Busy, TaskAtWork, Serves
    <3> QED BY <1>0, <3>1, <3>3, <3>4, <3>5, TaskMoves
  <2> QED BY <1>1, <2>1, <2>2 DEF Start, Move
<1>2. ASSUME At(p, "asked") \/ At(p, "pull"), UNCHANGED <<ct, helper>>,
             \/ task' = Ended(p)
             \/ At(p, "asked") /\ task' = Goto(p, "pull")
             \/ At(p, "pull") /\ task' = Goto(p, "name")
      PROVE  SInv'
  <2>1. Busy(p) /\ task[p].pc # "applied"  BY <1>2 DEF At, Busy
  <2>2. Alive'  BY <1>0, <1>2, <2>1 DEF TInv, Alive
  <2>3. /\ \A u \in Tasks \ {p} : task'[u] = task[u]
        /\ task'[p].pc \in {"end", "pull", "name"}
    BY <1>0, <1>2, MovedIs DEF TaskPc
  <2>4. \E n \in Names : Serves(n)  BY <1>0, <1>2, <2>1 DEF SInv, TaskInv, TaskAtWork, At
  <2>5. Busy(p)' => TaskAtWork(p)'
    BY <1>0, <1>2, <2>3, <2>4 DEF Busy, TaskAtWork, Serves
  <2> QED BY <1>0, <1>2, <2>1, <2>2, <2>3, <2>5, TaskMoves
<1>3. CASE Accept(p) \/ Pull(p)
  BY <1>2, <1>3 DEF Accept, Pull, Move
<1>4. CASE running_container_name(p)
  <2>1. Busy(p) /\ task[p].pc = "name" /\ UNCHANGED <<ct, helper>>
    BY <1>4 DEF running_container_name, At, Busy, Move
  <2>2. Alive /\ Alive'  BY <1>0, <2>1 DEF TInv, Alive
  <2>3. PICK n \in Names : Serves(n)  BY <1>0, <2>1 DEF SInv, TaskInv, TaskAtWork
  <2>4. Self = n  BY <2>3, SelfIs DEF Serves
  <2>5. task' = [task EXCEPT ![p] = [pc |-> "clean", n |-> n]]
    BY <1>4, <2>4 DEF running_container_name, Move, Faulted, Excused
  <2>6. task'[p].pc = "clean" /\ task'[p].n = n /\ \A u \in Tasks \ {p} : task'[u] = task[u]
    BY <1>0, <2>5
  <2>7. TaskAtWork(p)'  BY <2>1, <2>3, <2>6 DEF TaskAtWork, Serves
  <2> QED BY <1>0, <2>1, <2>2, <2>6, <2>7, TaskMoves
<1>5. CASE Finish(p)
  <2>1. Busy(p) /\ UNCHANGED <<ct, helper>> /\ task' = Ended(p)
    BY <1>5 DEF Finish, At, Busy, Move
  <2> QED BY <1>0, <2>1, MovedIs, TasksEnd DEF Busy
<1> QED BY <1>1, <1>3, <1>4, <1>5 DEF PipelineStep

LEMMA ScriptSafe ==
    ASSUME ~Excused', TInv, SInv, NEW s \in Scripts, Align(s) \/ ScriptName(s)
    PROVE  SInv'
<1>0. /\ ct \in [Names -> Ct] /\ task \in [Tasks -> Place] /\ s \in Tasks
  BY DEF TInv, Types, Tasks
<1>1. CASE Align(s)
  <2> DEFINE want == ct[Self].conf
  <2>1. Alone /\ Alive /\ ct[Self].ver = 0 /\ helper' = helper
    BY <1>1 DEF Align, Begins, Excused
  <2>2. Self \in Names /\ ct[Self].up /\ want \in Names  BY <2>1, SelfType
  <2>3. CASE CanRename(Self, want)
    <3>1. ct' = Renamed(Self, want) /\ task' = Goto(s, "name")
      BY <1>1, <2>3, CtShape DEF Align, Host, CanRename
    <3>2. ct'[want] = ct[Self]  BY <1>0, <2>2, <2>3, <3>1, RenamedIs
    <3>3. Alive' /\ TaskAtWork(s)'
      BY <1>0, <2>1, <2>2, <3>1, <3>2, MovedIs DEF Alive, TaskAtWork, Serves, TaskPc
    <3>4. \A u \in Tasks \ {s} : task'[u] = task[u]  BY <1>0, <3>1, MovedIs DEF TaskPc
    <3> QED BY <1>0, <2>1, <3>3, <3>4, TaskMoves
  <2>4. CASE ~CanRename(Self, want)
    <3>1. ct' = ct /\ task' = (IF want # Self THEN Ended(s) ELSE Goto(s, "name"))
      BY <1>1, <2>2, <2>4, CtShape DEF Align, Host, CanRename, Exists
    <3>2. Busy(s)' => want = Self /\ task'[s].pc = "name"
      BY <1>0, <3>1, MovedIs DEF Busy, TaskPc
    <3>3. Alive' /\ (Busy(s)' => TaskAtWork(s)')
      BY <2>1, <2>2, <3>1, <3>2 DEF Alive, TaskAtWork, Serves
    <3>4. \A u \in Tasks \ {s} : task'[u] = task[u]  BY <1>0, <3>1, MovedIs DEF TaskPc
    <3> QED BY <1>0, <2>1, <3>3, <3>4, TaskMoves
  <2> QED BY <2>3, <2>4
<1>2. CASE ScriptName(s)
  <2>1. Busy(s) /\ task[s].pc = "name" /\ UNCHANGED <<ct, helper>>
    BY <1>2 DEF ScriptName, At, Busy, Move
  <2>2. Alive /\ Alive'  BY <1>0, <2>1 DEF TInv, Alive
  <2>3. PICK n \in Names : Serves(n) /\ ct[n].conf = n
    BY <1>0, <2>1 DEF SInv, TaskInv, TaskAtWork
  <2>4. Self = n /\ Exists(n) /\ ct[n].ver = 0
    BY <1>0, <2>3, SelfIs, CtShape DEF Serves, Exists
  <2>5. task' = [task EXCEPT ![s] = [pc |-> "clean", n |-> n]]
    <3> DEFINE m == IF Exists(ct[Self].conf) THEN ct[Self].conf ELSE Self
    <3>1. m = n  BY <2>3, <2>4
    <3>2. task' = (IF ct[m].ver = 1 THEN Ended(s)
                                    ELSE [task EXCEPT ![s] = [pc |-> "clean", n |-> m]])
      BY <1>2 DEF ScriptName, Move
    <3> HIDE DEF m
    <3> QED BY <2>4, <3>1, <3>2
  <2>6. task'[s].pc = "clean" /\ task'[s].n = n /\ \A u \in Tasks \ {s} : task'[u] = task[u]
    BY <1>0, <2>5
  <2>7. TaskAtWork(s)'  BY <2>1, <2>3, <2>6 DEF TaskAtWork, Serves
  <2> QED BY <1>0, <2>1, <2>2, <2>6, <2>7, TaskMoves
<1> QED BY <1>1, <1>2

LEMMA TaskSafe ==
    ASSUME TInv, SInv, NEW t \in Tasks, TaskStep(t)
    PROVE  SInv'
<1>0. /\ ct \in [Names -> Ct] /\ helper \in [Names -> HelperPc]
      /\ task \in [Tasks -> Place] /\ task[t].n \in Names /\ task[t].n < MaxOld
  BY DEF TInv, Types, Place
<1>n. PICK n \in Names : n = task[t].n  BY <1>0
<1>1. /\ task[t].pc \in {"clean", "rename", "schedule", "unrename"}
      /\ Busy(t) /\ task[t].pc # "applied"
  BY DEF TaskStep, At, Clean, Rename, Schedule, Unrename, Busy
<1>2. TaskAtWork(t) /\ \A m \in Names : ~Working(m)  BY <1>1 DEF SInv, TaskInv
<1>3. n \in Names /\ n + 1 \in Names /\ n # n + 1 /\ n < MaxOld  BY <1>0, <1>n, Constants
<1>4. CASE Clean(t)
  <2>1. Serves(n) /\ ~ct[n + 1].up
    BY <1>n, <1>2, <1>3, <1>4 DEF Clean, At, TaskAtWork, Serves, TInv, OneUp
  <2>2. helper' = helper
    <3>1. helper[n] = "none"  BY <1>2, <1>3 DEF Working
    <3>2. [helper EXCEPT ![n] = "none"] = helper  BY <1>0, <3>1
    <3> QED BY <1>n, <1>4, <3>2 DEF Clean
  <2>3. ct' \in {ct, Removed(n + 1)} /\ task' = Goto(t, "rename")
    BY <1>n, <1>4, <2>1 DEF Clean, Remove, Move, Host
  <2>4. Serves(n)'  BY <1>0, <1>3, <2>1, <2>3, RemovedIs DEF Serves
  <2>5. /\ task'[t].pc = "rename" /\ task'[t].n = n
        /\ \A u \in Tasks \ {t} : task'[u] = task[u]
    BY <1>0, <1>n, <2>3, MovedIs DEF TaskPc
  <2>6. Alive' /\ TaskAtWork(t)'  BY <1>3, <2>4, <2>5 DEF Alive, TaskAtWork, Serves
  <2> QED BY <1>1, <2>2, <2>5, <2>6, TaskMoves
<1>5. CASE Rename(t)
  <2>1. Serves(n) /\ helper' = helper  BY <1>n, <1>2, <1>5 DEF Rename, At, TaskAtWork
  <2>2. CASE CanRename(n, n + 1) /\ Host(Renamed(n, n + 1), TRUE, job, Goto(t, "schedule"))
    <3>1. ct'[n + 1] = ct[n] /\ task' = Goto(t, "schedule")
      BY <1>0, <1>3, <2>2, RenamedIs DEF Host
    <3>2. /\ task'[t].pc = "schedule" /\ task'[t].n = n
          /\ \A u \in Tasks \ {t} : task'[u] = task[u]
      BY <1>0, <1>n, <3>1, MovedIs DEF TaskPc
    <3>3. Alive' /\ TaskAtWork(t)'
      BY <1>3, <2>1, <3>1, <3>2 DEF Alive, TaskAtWork, Serves
    <3> QED BY <1>1, <2>1, <3>2, <3>3, TaskMoves
  <2>3. CASE Move(Ended(t), fail_job(t))
    <3>1. ~Busy(t)' /\ \A u \in Tasks \ {t} : task'[u] = task[u]
      BY <1>0, <2>3, MovedIs DEF Move, Busy
    <3>2. Alive'  BY <1>3, <2>1, <2>3 DEF Move, Alive, Serves
    <3> QED BY <1>1, <2>1, <3>1, <3>2, TaskMoves
  <2> QED BY <1>n, <1>5, <2>2, <2>3 DEF Rename
<1>6. CASE Schedule(t)
  <2>1. Serves(n + 1) /\ ct' = ct  BY <1>n, <1>2, <1>6 DEF Schedule, At, TaskAtWork, Move
  <2>2. PICK l \in {"applied", "unrename", "end"}, h \in {"none", "pull", "stop"} :
          /\ helper' = [helper EXCEPT ![n] = h]
          /\ task' = (IF l = "end" THEN Ended(t) ELSE Goto(t, l))
          /\ l = "applied" => h = "stop"
          /\ l = "unrename" => h = "none"
    <3>1. CASE t \in Scripts  BY <1>n, <1>6, <3>1 DEF Schedule, Move
    <3>2. CASE t \notin Scripts  BY <1>n, <1>6, <3>2 DEF Schedule, Move
    <3> QED BY <3>1, <3>2
  <2>3. /\ task'[t].pc = l /\ (l # "end" => task'[t].n = n)
        /\ \A u \in Tasks \ {t} : task'[u] = task[u]
    BY <1>0, <1>n, <2>2, MovedIs DEF TaskPc
  <2>4. helper'[n] = h /\ \A m \in Names \ {n} : helper'[m] = helper[m]
    BY <1>0, <2>2
  <2>5. \A m \in Names : Working(m)' => m = n /\ h # "none"
    BY <1>2, <2>4 DEF Working
  <2>6. \A u \in Tasks : Busy(u)' => u = t  BY <1>1, <2>3 DEF SInv, TaskInv, Busy
  <2>7. HelperInv'
    <3>1. h # "none" => HelperAtWork(n)'
      BY <1>3, <2>1, <2>2, <2>4 DEF HelperAtWork, Serves
    <3> QED BY <1>3, <2>5, <3>1 DEF HelperInv
  <2>8. TaskInv'
    <3>1. Busy(t)' => TaskAtWork(t)'
      BY <2>1, <2>3 DEF TaskAtWork, Serves, Busy
    <3>2. Busy(t)' => l \in {"applied", "unrename"}  BY <2>3 DEF Busy
    <3>3. ASSUME Busy(t)', NEW m \in Names, Working(m)'
          PROVE  task'[t].pc = "applied"
      BY <2>2, <2>3, <2>4, <2>5, <3>2, <3>3
    <3> QED BY <2>6, <3>1, <3>3 DEF TaskInv
  <2>9. AliveInv'  BY <1>3, <2>1 DEF AliveInv, Alive, Serves
  <2> QED BY <2>7, <2>8, <2>9 DEF SInv
<1>7. CASE Unrename(t)
  <2>1. Serves(n + 1) /\ helper' = helper /\ task' = Ended(t)
    BY <1>n, <1>2, <1>7 DEF Unrename, At, TaskAtWork, Host, Move
  <2>2. Alive'
    <3>1. CASE CanRename(n + 1, n) /\ ct' = Renamed(n + 1, n)
      BY <1>0, <1>3, <2>1, <3>1, RenamedIs DEF Alive, Serves
    <3>2. CASE ct' = ct
      BY <1>3, <2>1, <3>2 DEF Alive, Serves
    <3> QED BY <1>n, <1>7, <3>1, <3>2 DEF Unrename, Host, Move
  <2>3. ~Busy(t)' /\ \A u \in Tasks \ {t} : task'[u] = task[u]
    BY <1>0, <2>1, MovedIs DEF Busy
  <2> QED BY <1>1, <2>1, <2>2, <2>3, TaskMoves
<1> QED BY <1>4, <1>5, <1>6, <1>7 DEF TaskStep

LEMMA HelperSafe ==
    ASSUME ~Excused', TInv, SInv, NEW n \in Names, HelperStep(n)
    PROVE  SInv'
<1>0. ct \in [Names -> Ct] /\ task \in [Tasks -> Place] /\ helper \in [Names -> HelperPc]
  BY DEF TInv, Types
<1>1. Working(n) /\ n < MaxOld
  BY DEF HelperStep, Working, HelperAt, HelperPull, HelperUnpull, HelperStop, HelperRm,
         HelperRun, HelperDrop, HelperUndo, HelperRename, HelperStart
<1>2. n + 1 \in Names /\ n # n + 1  BY <1>1, Constants
<1>3. HelperAtWork(n)  BY <1>1 DEF SInv, HelperInv
<1>4. \A t \in Tasks : task'[t] = task[t] \/ ~Busy(t)'
  <2>1. task' \in {task, Dead(task)}
    BY DEF HelperStep, HelperPull, HelperUnpull, HelperStop, HelperRm, HelperRun,
           HelperDrop, HelperUndo, HelperRename, HelperStart, Remove, Host, Fails
  <2> QED BY <1>0, <2>1, DeadIs DEF Busy
<1>5. \A h \in HelperPc : HelperGoto(n, h) => helper'[n] = h
  BY <1>0 DEF HelperGoto
<1>6. ASSUME NEW h \in HelperPc, HelperGoto(n, h),
             h # "none" => HelperAtWork(n)', h = "none" => Alive'
      PROVE  SInv'
  BY <1>1, <1>4, <1>6, HelperMoves
<1>7. \A m \in {"dies", "wayback"} : ~Faulted({m}) /\ ~Fails({m})
  BY DEF Faulted, Fails, Excused
<1>8. CASE HelperPull(n)
  <2>1. PICK h \in {"stop", "unpull"} : HelperGoto(n, h)  BY <1>8 DEF HelperPull
  <2>2. helper'[n] = h /\ ct' = ct  BY <1>5, <1>8, <2>1 DEF HelperPull, HelperPc
  <2>3. HelperAtWork(n)'
    BY <1>3, <1>8, <2>1, <2>2 DEF HelperPull, HelperAt, HelperAtWork, Serves, Alive
  <2> QED BY <1>6, <2>1, <2>3 DEF HelperPc
<1>9. CASE HelperUnpull(n)
  <2>1. Serves(n + 1) /\ HelperGoto(n, "none")
    BY <1>3, <1>9 DEF HelperUnpull, HelperAt, HelperAtWork
  <2>2. CASE CanRename(n + 1, n) /\ ct' = Renamed(n + 1, n)
    <3>1. Alive'  BY <1>0, <1>2, <2>1, <2>2, RenamedIs DEF Alive, Serves
    <3> QED BY <1>6, <2>1, <3>1 DEF HelperPc
  <2>3. CASE ct' = ct
    <3>1. Alive'  BY <1>2, <2>1, <2>3 DEF Alive, Serves
    <3> QED BY <1>6, <2>1, <3>1 DEF HelperPc
  <2> QED BY <1>9, <2>2, <2>3 DEF HelperUnpull, Host, Fails
<1>10. CASE HelperStop(n)
  <2>1. Serves(n + 1) /\ HelperGoto(n, "rm") /\ helper'[n] = "rm"
    BY <1>3, <1>5, <1>10 DEF HelperStop, HelperAt, HelperAtWork, HelperPc
  <2>2. Exists(n + 1)  BY <2>1, CtShape DEF Serves, Exists
  <2>3. CASE ct' = [ct EXCEPT ![n + 1].up = FALSE]
    <3>1. ct[n + 1] \in [up : BOOLEAN, ver : {0, 1}, conf : Names]
      BY <1>0, <1>2, <2>2, CtShape DEF Exists
    <3>2. ct'[n + 1].ver = 0 /\ ct'[n + 1].up = FALSE
          /\ \A m \in Names \ {n + 1} : ct'[m] = ct[m]
      BY <1>0, <1>2, <2>1, <2>3, <3>1 DEF Serves
    <3>3. ~Alive'  BY <1>2, <2>1, <3>2 DEF Alive, Serves, TInv, OneUp
    <3>4. HelperAtWork(n)'  BY <1>1, <2>1, <3>2, <3>3 DEF HelperAtWork
    <3> QED BY <1>6, <2>1, <3>4 DEF HelperPc
  <2>4. CASE ct' = ct
    <3>1. HelperAtWork(n)'  BY <1>1, <2>1, <2>4 DEF HelperAtWork, Serves
    <3> QED BY <1>6, <2>1, <3>1 DEF HelperPc
  <2> QED BY <1>10, <2>2, <2>3, <2>4 DEF HelperStop, Host, Fails
\* The old container stays as it is, and no other comes up.
<1>11. ASSUME NEW h \in {"run", "undo", "rename"}, HelperGoto(n, h),
              helper[n] \in {"rm", "run", "undo"},
              ct'[n + 1] = ct[n + 1], \A m \in Names : ct'[m].up => ct[m].up,
              h = "rename" => ~Exists(n)'
       PROVE  SInv'
  <2>1. ct'[n + 1].ver = 0 /\ (Alive' => ct'[n + 1].up)
    BY <1>3, <1>11 DEF HelperAtWork, Alive
  <2>2. helper'[n] = h  BY <1>5, <1>11 DEF HelperPc
  <2>3. HelperAtWork(n)'  BY <1>1, <1>11, <2>1, <2>2 DEF HelperAtWork
  <2> QED BY <1>6, <1>11, <2>3 DEF HelperPc
<1>r. /\ Removed(n)[n + 1] = ct[n + 1] /\ Removed(n)[n] = NoCt
      /\ \A m \in Names : Removed(n)[m].up => ct[m].up
  BY <1>0, <1>2, RemovedIs, CtShape
<1>12. CASE HelperRm(n)
  <2>1. ct' \in {ct, Removed(n)}  BY <1>12 DEF HelperRm, Remove, Host, Fails
  <2> QED BY <1>11, <1>12, <1>r, <2>1 DEF HelperRm, HelperAt
<1>13. CASE HelperUndo(n)
  <2>1. ct' = Removed(n)  BY <1>7, <1>13 DEF HelperUndo, Remove, Host
  <2>2. ~Exists(n)'  BY <1>r, <2>1 DEF Exists
  <2> QED BY <1>11, <1>13, <1>r, <2>1, <2>2 DEF HelperUndo, HelperAt
<1>14. CASE HelperRun(n)
  <2>1. CASE HelperGoto(n, "drop") /\ ct' = Made(n, TRUE)
    <3>1. ct'[n].up /\ helper'[n] = "drop"  BY <1>0, <1>5, <2>1 DEF Made, HelperPc
    <3>2. HelperAtWork(n)'  BY <1>1, <3>1 DEF HelperAtWork
    <3> QED BY <1>6, <2>1, <3>2 DEF HelperPc
  <2>2. CASE HelperGoto(n, "undo") /\ ct' \in {ct, Made(n, FALSE)}
    <3>1. ct'[n + 1] = ct[n + 1] /\ \A m \in Names : ct'[m].up => ct[m].up
      BY <1>0, <1>2, <2>2 DEF Made
    <3> QED BY <1>11, <1>14, <2>2, <3>1 DEF HelperRun, HelperAt
  <2> QED BY <1>7, <1>14, <2>1, <2>2 DEF HelperRun
<1>15. CASE HelperDrop(n)
  <2>1. ct[n].up /\ HelperGoto(n, "none")
    BY <1>3, <1>15 DEF HelperDrop, HelperAt, HelperAtWork
  <2>2. ct' \in {ct, Removed(n + 1)}  BY <1>15 DEF HelperDrop, Remove, Host, Fails
  <2>3. Alive'  BY <1>0, <1>2, <2>1, <2>2, RemovedIs DEF Alive
  <2> QED BY <1>6, <2>1, <2>3 DEF HelperPc
<1>16. CASE HelperRename(n)
  <2>1. ct[n + 1].ver = 0 /\ ~Exists(n)
    BY <1>3, <1>16 DEF HelperRename, HelperAt, HelperAtWork
  <2>2. CanRename(n + 1, n)  BY <1>0, <1>2, <2>1, CtShape DEF CanRename, Exists
  <2>3. ct' = Renamed(n + 1, n) /\ HelperGoto(n, "start")
    BY <1>7, <1>16, <2>2 DEF HelperRename, Host
  <2>4. ct'[n].ver = 0  BY <1>0, <1>2, <2>1, <2>2, <2>3, RenamedIs
  <2>5. HelperAtWork(n)'
    <3>1. helper'[n] = "start"  BY <1>5, <2>3 DEF HelperPc
    <3> QED BY <1>1, <2>4, <3>1 DEF HelperAtWork
  <2> QED BY <1>6, <2>3, <2>5 DEF HelperPc
<1>17. CASE HelperStart(n)
  <2>1. Exists(n) /\ HelperGoto(n, "none")
    BY <1>0, <1>3, <1>17, CtShape DEF HelperStart, HelperAt, HelperAtWork, Exists
  <2>2. ct' = (IF ~Alive THEN [ct EXCEPT ![n].up = TRUE] ELSE ct)
    BY <1>7, <1>17, <2>1 DEF HelperStart
  <2>3. ct[n] \in [up : BOOLEAN, ver : {0, 1}, conf : Names]
    BY <1>0, <2>1, CtShape DEF Exists
  <2>4. Alive'  BY <1>0, <2>2, <2>3 DEF Alive
  <2> QED BY <1>6, <2>1, <2>4 DEF HelperPc
<1> QED BY <1>8, <1>9, <1>10, <1>12, <1>13, <1>14, <1>15, <1>16, <1>17 DEF HelperStep

LEMMA SInvStep ==
    ASSUME TInv, Excused \/ SInv, [Next]_vars
    PROVE  Excused' \/ SInv'
<1>0. mishaps \subseteq mishaps' \/ UNCHANGED vars
  BY DEF Next, PipelineStep, TaskStep, HelperStep, Crash, Start, Accept, Pull,
         running_container_name, Finish, Align, ScriptName, Clean, Rename, Schedule,
         Unrename, HelperPull, HelperUnpull, HelperStop, HelperRm, HelperRun, HelperDrop,
         HelperUndo, HelperRename, HelperStart, Begins, Fails, Fault, Faulted, NoFault
<1> SUFFICES ASSUME ~Excused' PROVE SInv'  OBVIOUS
<1>1. SInv  BY <1>0 DEF Excused, vars
<1>2. CASE Crash
  <2>1. task \in [Tasks -> Place]  BY DEF TInv, Types
  <2>2. \A t \in Tasks : ~Busy(t)'  BY <1>2, <2>1, DeadIs DEF Crash, Host, Busy
  <2> QED BY <1>1, <1>2, <2>2, TasksEnd DEF Crash, Host
<1>3. CASE UNCHANGED vars
  BY <1>1, <1>3, TasksEnd DEF vars
<1> QED BY <1>1, <1>2, <1>3, PipelineSafe, ScriptSafe, TaskSafe, HelperSafe DEF Next

\* Whatever command fails and whenever the process dies, the instance runs or a helper
\* is at work and the version that worked still has its container, up to the first
\* mishap the code does not survive: updates that overlap, a misnamed container, a new
\* container that dies, a way back that fails (crates/update/src/lib.rs:2124-2147, the
\* helper's script).
THEOREM NeverStrandedHolds == Spec => []NeverStranded
<1>1. Init => TInv /\ (Excused \/ SInv)  BY InitTypes, SInvInit
<1>2. TInv /\ (Excused \/ SInv) /\ [Next]_vars => TInv' /\ (Excused' \/ SInv')
  BY TypeStep, SInvStep
<1>3. TInv /\ (Excused \/ SInv) => NeverStranded  BY SInvHolds
<1> QED BY <1>1, <1>2, <1>3, PTL DEF Spec
=============================================================================
