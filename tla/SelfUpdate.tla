----------------------------- MODULE SelfUpdate -----------------------------
(***************************************************************************)
(* The self-update of a DevForge instance that runs as a Docker container  *)
(* (crates/update, mode `docker`), and the update of a worker that the     *)
(* leader starts on it (remote_container_update.sh, run through            *)
(* /internal/exec).  Both do the same thing to the Docker host: rename the *)
(* container they run in to "<name>-old", start a detached helper          *)
(* container, and let the helper stop the old container, run the new one   *)
(* and, when that fails, put the old one back.                             *)
(*                                                                         *)
(* The job and the pipelines are memory of the process: they are gone when *)
(* its container stops.  The containers and the helpers belong to Docker   *)
(* and outlive it.                                                         *)
(*                                                                         *)
(* A name is the number of "-old" suffixes after the first name of the     *)
(* container: 0 is `devforge`, 1 `devforge-old`.  There is one helper name *)
(* ("<name>-updater") per name.  All DevForge containers publish the same  *)
(* port, so Docker runs at most one of them.                               *)
(***************************************************************************)
EXTENDS Naturals, FiniteSets

CONSTANTS
    Starts,        \* the calls of UpdateFacade::start that may come
    Scripts,       \* the updates the leader may start on this node
    MaxOld,        \* bound: how many "-old" suffixes a name may have
    MaxFaults      \* bound: faults (failed commands, failed runs, crashes)

ASSUME SelfUpdateAssumption ==
    /\ Starts \cap Scripts = {}
    /\ MaxOld \in Nat \ {0}
    /\ MaxFaults \in Nat

VARIABLES
    ct,       \* ct[n]: the container of name n, or NoCt
    helper,   \* helper[n]: where the helper "<n>-updater" is in its script
    job,      \* UpdateFacade.job: [id, status]; id NoTask when there is none
    task,     \* task[t]: a pipeline or a script, [pc, n]
    faults,   \* faults so far
    mishaps   \* what has befallen the instance so far, of Mishaps (history)

vars == <<ct, helper, job, task, faults, mishaps>>

Names == 0 .. MaxOld
Tasks == Starts \cup Scripts
NoTask == "none"
NoCt == [up |-> FALSE, ver |-> 2, conf |-> 0]
NoJob == [id |-> NoTask, status |-> "none"]

TaskPc == {"new", "asked", "pull", "name", "clean", "rename", "schedule",
           "unrename", "applied", "end"}
HelperPc == {"none", "pull", "unpull", "stop", "rm", "run", "drop", "undo",
             "rename", "start"}

\* overlap: an update began while another was under way; misnamed: the inspect of
\* this container failed under a borrowed name; kept: the docker stop of a helper
\* failed; dies: the new container died after docker run had answered 0; wayback: a
\* command of a helper's way back failed.
Mishaps == {"overlap", "misnamed", "kept", "dies", "wayback"}

TypeOK ==
    /\ ct \in [Names -> [up : BOOLEAN, ver : {0, 1}, conf : Names] \cup {NoCt}]
    /\ helper \in [Names -> HelperPc]
    /\ job \in [id : Tasks \cup {NoTask},
                status : {"none", "running", "restarting", "failed"}]
    /\ task \in [Tasks -> [pc : TaskPc, n : Names]]
    /\ faults \in 0 .. MaxFaults
    /\ mishaps \subseteq Mishaps

\* The instance runs version 0 (1 is the target of the updates) under the
\* name its environment gives (DEVFORGE_SELF_CONTAINER).
Init ==
    /\ ct = [n \in Names |-> IF n = 0 THEN [up |-> TRUE, ver |-> 0, conf |-> 0]
                                      ELSE NoCt]
    /\ helper = [n \in Names |-> "none"]
    /\ job = NoJob
    /\ task = [t \in Tasks |-> [pc |-> "new", n |-> 0]]
    /\ faults = 0
    /\ mishaps = {}

-----------------------------------------------------------------------------
(***************************************************************************)
(* Docker.                                                                 *)
(***************************************************************************)
Exists(n) == ct[n] # NoCt
Alive == \E n \in Names : ct[n].up
Self == CHOOSE n \in Names : ct[n].up

CanRename(from, to) == Exists(from) /\ ~Exists(to)
Renamed(from, to) == [ct EXCEPT ![to] = ct[from], ![from] = NoCt]
Removed(n) == [ct EXCEPT ![n] = NoCt]

Faulted(ms) == faults < MaxFaults /\ faults' = faults + 1 /\ mishaps' = mishaps \cup ms
Fault == Faulted({})
NoFault == UNCHANGED <<faults, mishaps>>

\* The memory of the process dies with its container; a caller that has not
\* come yet may still come.
Dead(f) == [t \in Tasks |-> IF f[t].pc = "new" THEN f[t] ELSE [pc |-> "end", n |-> 0]]

\* The host becomes c, the memory j and f when the instance that runs goes on
\* running (under whatever name), and is lost otherwise.
Host(c, survives, j, f) ==
    /\ ct' = c
    /\ job' = IF survives THEN j ELSE NoJob
    /\ task' = IF survives THEN f ELSE Dead(f)

\* docker rm -f n, by a task or a helper.
Remove(n, j, f) == Host(Removed(n), ~ct[n].up, j, f)

-----------------------------------------------------------------------------
(***************************************************************************)
(* A task: a pipeline of this process, or the leader's script in it.       *)
(***************************************************************************)
At(t, pc) == task[t].pc = pc
Goto(t, pc) == [task EXCEPT ![t].pc = pc]
Ended(t) == [task EXCEPT ![t] = [pc |-> "end", n |-> 0]]

\* No other update is under way, in this process or in a helper.
Alone ==
    /\ \A t \in Tasks : task[t].pc \in {"new", "end"}
    /\ \A n \in Names : helper[n] = "none"

\* fail_job: only the job in place is marked; a script has no job here.
fail_job(t) == IF job.id = t THEN [job EXCEPT !.status = "failed"] ELSE job

\* Only the task moves.
Move(f, j) == task' = f /\ job' = j /\ UNCHANGED ct

\* An update begins; nothing looks for one of another caller or process.
Begins ==
    /\ mishaps' = IF Alone THEN mishaps ELSE mishaps \cup {"overlap"}
    /\ UNCHANGED faults

\* UpdateFacade::start up to its first await: a job in progress is returned.
Start(p) ==
    /\ At(p, "new")
    /\ Alive
    /\ ct[Self].ver = 0
    /\ IF job.status \in {"running", "restarting"}
       THEN Move(Ended(p), job) /\ NoFault
       ELSE Move(Goto(p, "asked"), job) /\ Begins
    /\ UNCHANGED helper

\* ... and from there: the target is known (or the releases do not answer),
\* the job is written and its pipeline spawned.
Accept(p) ==
    /\ At(p, "asked")
    /\ \/ Move(Goto(p, "pull"), [id |-> p, status |-> "running"]) /\ NoFault
       \/ Move(Ended(p), job) /\ Fault
    /\ UNCHANGED helper

\* run_pipeline to the end of the pull: every set_step refuses the pipeline of
\* a job that has been replaced.
Pull(p) ==
    /\ At(p, "pull")
    /\ \/ Move(IF job.id = p THEN Goto(p, "name") ELSE Ended(p), job) /\ NoFault
       \/ Move(Ended(p), fail_job(p)) /\ Fault
    /\ UNCHANGED helper

\* The name of the container this process runs in, by its hostname; when the
\* inspect fails, the configured one.
running_container_name(p) ==
    /\ At(p, "name")
    /\ \E n \in {Self, ct[Self].conf} :
          /\ n < MaxOld
          /\ Move([task EXCEPT ![p] = [pc |-> "clean", n |-> n]], job)
          /\ IF n = Self THEN NoFault ELSE Faulted({"misnamed"})
    /\ UNCHANGED helper

\* The leader's script starts with align_self_container_script: the container
\* takes the name its environment gives, unless another one has it.
Align(s) ==
    /\ At(s, "new")
    /\ Alive
    /\ ct[Self].ver = 0
    /\ LET want == ct[Self].conf
       IN  Host(IF CanRename(Self, want) THEN Renamed(Self, want) ELSE ct, TRUE, job,
                IF want # Self /\ Exists(want) THEN Ended(s) ELSE Goto(s, "name"))
    /\ Begins
    /\ UNCHANGED helper

\* The name the script works on: the configured one when a container has it,
\* this container's own otherwise; a container of the target image is done.
ScriptName(s) ==
    /\ At(s, "name")
    /\ LET n == IF Exists(ct[Self].conf) THEN ct[Self].conf ELSE Self
       IN  /\ n < MaxOld
           /\ Move(IF ct[n].ver = 1 THEN Ended(s)
                                    ELSE [task EXCEPT ![s] = [pc |-> "clean", n |-> n]],
                   job)
    /\ NoFault
    /\ UNCHANGED helper

\* docker rm -f <name>-old <name>-updater: what an earlier update left.  Its
\* result is discarded: either of the two may stay.
Clean(t) ==
    /\ At(t, "clean")
    /\ \/ /\ helper' = [helper EXCEPT ![task[t].n] = "none"]
          /\ Remove(task[t].n + 1, job, Goto(t, "rename"))
          /\ NoFault
       \/ /\ \/ UNCHANGED helper /\ Remove(task[t].n + 1, job, Goto(t, "rename"))
             \/ /\ helper' \in {helper, [helper EXCEPT ![task[t].n] = "none"]}
                /\ Move(Goto(t, "rename"), job)
          /\ Fault

\* docker rename <name> <name>-old.
Rename(t) ==
    /\ At(t, "rename")
    /\ LET n == task[t].n
       IN  \/ /\ CanRename(n, n + 1)
              /\ Host(Renamed(n, n + 1), TRUE, job, Goto(t, "schedule"))
              /\ NoFault
           \/ /\ Move(Ended(t), fail_job(t))
              /\ IF CanRename(n, n + 1) THEN Fault ELSE NoFault
    /\ UNCHANGED helper

\* The detached helper: docker rm -f <name>-updater; docker run -d ...  It is
\* scheduled, or refused (the rename is undone next), or - in the pipeline -
\* the command has no answer and the pipeline gives up as it stands.
Schedule(t) ==
    LET n == task[t].n
        first == IF t \in Scripts THEN "pull" ELSE "stop"
    IN  /\ At(t, "schedule")
        /\ \/ /\ helper' = [helper EXCEPT ![n] = first]
              /\ Move(IF t \in Scripts THEN Ended(t) ELSE Goto(t, "applied"), job)
              /\ NoFault
           \/ /\ helper' = [helper EXCEPT ![n] = "none"]
              /\ Move(Goto(t, "unrename"), job)
              /\ Fault
           \/ /\ t \in Starts
              /\ \E h \in {"none", first} : helper' = [helper EXCEPT ![n] = h]
              /\ Move(Ended(t), fail_job(t))
              /\ Fault

\* Mutant: the rename is undone and the pipeline returns without its error.
UnrenameMute(t) ==
    /\ At(t, "unrename")
    /\ LET n == task[t].n
       IN  Host(IF CanRename(n + 1, n) THEN Renamed(n + 1, n) ELSE ct, TRUE,
                job, Ended(t))
    /\ NoFault
    /\ UNCHANGED helper

\* docker rename <name>-old <name>, best effort, then the error.
Unrename(t) ==
    /\ At(t, "unrename")
    /\ \/ /\ LET n == task[t].n
             IN  Host(IF CanRename(n + 1, n) THEN Renamed(n + 1, n) ELSE ct, TRUE,
                      fail_job(t), Ended(t))
          /\ NoFault
       \/ Move(Ended(t), fail_job(t)) /\ Fault
    /\ UNCHANGED helper

\* Mutant: a status no reader of the job knows.
FinishMisspelt(p) ==
    /\ At(p, "applied")
    /\ Move(Ended(p), [job EXCEPT !.status = "restart"])
    /\ NoFault
    /\ UNCHANGED helper

\* The rest of the pipeline: `apply` done, Traefik ensured (it may fail, the
\* helper being scheduled), and the job waits for the restart.
Finish(p) ==
    /\ At(p, "applied")
    /\ \/ /\ Move(Ended(p), IF job.id = p THEN [job EXCEPT !.status = "restarting"]
                                          ELSE job)
          /\ NoFault
       \/ /\ job.id = p
          /\ Move(Ended(p), fail_job(p))
          /\ Fault
    /\ UNCHANGED helper

\* The process dies; the restart policy of its container brings it back.
Crash ==
    /\ Alive
    /\ Fault
    /\ Host(ct, FALSE, job, task)
    /\ UNCHANGED helper

-----------------------------------------------------------------------------
(***************************************************************************)
(* The helper of name n.  It runs under `set +e`, every result discarded: *)
(* a command that fails changes nothing and is followed by the next.       *)
(***************************************************************************)
HelperAt(n, pc) == n < MaxOld /\ helper[n] = pc
HelperGoto(n, pc) == helper' = [helper EXCEPT ![n] = pc]
Fails(ms) == Faulted(ms) /\ UNCHANGED <<ct, job, task>>

\* The script's helper pulls the image first; a failed pull gives the name back.
HelperPull(n) ==
    /\ HelperAt(n, "pull")
    /\ \/ HelperGoto(n, "stop") /\ NoFault
       \/ HelperGoto(n, "unpull") /\ Fault
    /\ UNCHANGED <<ct, job, task>>

HelperUnpull(n) ==
    /\ HelperAt(n, "unpull")
    /\ HelperGoto(n, "none")
    /\ \/ /\ Host(IF CanRename(n + 1, n) THEN Renamed(n + 1, n) ELSE ct, TRUE, job, task)
          /\ NoFault
       \/ Fails({})

\* Mutant: the old container is removed, not stopped, to free its port.
HelperStopForGood(n) ==
    /\ HelperAt(n, "stop")
    /\ HelperGoto(n, "rm")
    /\ \/ Remove(n + 1, job, task) /\ NoFault
       \/ Fails({"kept"})

\* docker stop <name>-old: a container stopped by hand is not restarted.  When
\* the stop fails the process goes on.
HelperStop(n) ==
    /\ HelperAt(n, "stop")
    /\ HelperGoto(n, "rm")
    /\ \/ /\ Host(IF Exists(n + 1) THEN [ct EXCEPT ![n + 1].up = FALSE] ELSE ct,
                  ~ct[n + 1].up, job, task)
          /\ NoFault
       \/ Fails({"kept"})

HelperRm(n) ==
    /\ HelperAt(n, "rm")
    /\ HelperGoto(n, "run")
    /\ \/ Remove(n, job, task) /\ NoFault
       \/ Fails({})

\* The container docker run makes.
Made(n, up) == [ct EXCEPT ![n] = [up |-> up, ver |-> 1, conf |-> n]]

\* Mutant: a run that fails is tried again instead of undone.
HelperRunAgain(n) ==
    /\ HelperAt(n, "run")
    /\ \/ /\ ~Exists(n) /\ ~Alive
          /\ ct' = Made(n, TRUE)
          /\ HelperGoto(n, "drop")
          /\ NoFault
       \/ /\ ~Exists(n)
          /\ Fault
          /\ ct' = Made(n, FALSE)
          /\ UNCHANGED helper
    /\ UNCHANGED <<job, task>>

\* docker run -d --name <name> -p ...: refused when the name is taken; a
\* container that cannot start (its port is taken, or anything else) is left
\* created, when it got so far.  One that starts and dies at once counts as run.
HelperRun(n) ==
    /\ HelperAt(n, "run")
    /\ \/ /\ ~Exists(n) /\ ~Alive
          /\ HelperGoto(n, "drop")
          /\ \/ ct' = Made(n, TRUE) /\ NoFault
             \/ ct' = Made(n, FALSE) /\ Faulted({"dies"})
       \/ /\ HelperGoto(n, "undo")
          /\ IF Exists(n) THEN UNCHANGED ct /\ NoFault
             ELSE IF Alive THEN ct' = Made(n, FALSE) /\ NoFault
             ELSE ct' \in {ct, Made(n, FALSE)} /\ Fault
    /\ UNCHANGED <<job, task>>

HelperDrop(n) ==
    /\ HelperAt(n, "drop")
    /\ HelperGoto(n, "none")
    /\ \/ Remove(n + 1, job, task) /\ NoFault
       \/ Fails({})

\* The way back: rm -f <name>, rename <name>-old <name>, start <name>.
HelperUndo(n) ==
    /\ HelperAt(n, "undo")
    /\ HelperGoto(n, "rename")
    /\ \/ Remove(n, job, task) /\ NoFault
       \/ Fails({"wayback"})

HelperRename(n) ==
    /\ HelperAt(n, "rename")
    /\ HelperGoto(n, "start")
    /\ \/ /\ Host(IF CanRename(n + 1, n) THEN Renamed(n + 1, n) ELSE ct, TRUE, job, task)
          /\ NoFault
       \/ Fails({"wayback"})

HelperStart(n) ==
    /\ HelperAt(n, "start")
    /\ HelperGoto(n, "none")
    /\ \/ /\ ct' = IF Exists(n) /\ ~Alive THEN [ct EXCEPT ![n].up = TRUE] ELSE ct
          /\ NoFault
          /\ UNCHANGED <<job, task>>
       \/ Fails({"wayback"})

-----------------------------------------------------------------------------
PipelineStep(p) ==
    Accept(p) \/ Pull(p) \/ running_container_name(p) \/ Finish(p)
TaskStep(t) == Clean(t) \/ Rename(t) \/ Schedule(t) \/ Unrename(t)
HelperStep(n) ==
    \/ HelperPull(n) \/ HelperUnpull(n) \/ HelperStop(n) \/ HelperRm(n)
    \/ HelperRun(n) \/ HelperDrop(n) \/ HelperUndo(n) \/ HelperRename(n)
    \/ HelperStart(n)

Next ==
    \/ \E p \in Starts : Start(p) \/ PipelineStep(p)
    \/ \E s \in Scripts : Align(s) \/ ScriptName(s)
    \/ \E t \in Tasks : TaskStep(t)
    \/ \E n \in Names : HelperStep(n)
    \/ Crash

Spec == Init /\ [][Next]_vars

\* Docker runs the helpers, and the runtime the tasks of a process that lives.
Fairness ==
    /\ \A n \in Names : WF_vars(HelperStep(n))
    /\ \A p \in Starts : WF_vars(PipelineStep(p))
    /\ \A s \in Scripts : WF_vars(ScriptName(s))
    /\ \A t \in Tasks : WF_vars(TaskStep(t))

FairSpec == Spec /\ Fairness
-----------------------------------------------------------------------------
(***************************************************************************)
(* Properties.                                                             *)
(***************************************************************************)

\* What strands an instance in the code: two updates at work on one name, an update
\* of another container than this one, a new container that dies once docker run has
\* answered, a way back that fails.  (A stop that fails does not.)
Excused == mishaps \cap {"overlap", "misnamed", "dies", "wayback"} # {}

\* Whatever else fails - a pull, a rename, a helper refused or lost without an answer,
\* the stop, the removals or the run of a helper, the process itself at any moment -
\* the instance runs; or a helper is still at work and the version that worked still
\* has its container, so that the way back of the helper's script has something to
\* start (recreate_docker_container: the helper stops the old container, then starts
\* the new one, "the current process can die").
NeverStranded ==
    \/ Excused
    \/ Alive
    \/ /\ \E n \in Names : helper[n] # "none"
       /\ \E n \in Names : Exists(n) /\ ct[n].ver = 0

\* The instance is back, however the update ends.
BackInService == []<>(Alive \/ Excused)

\* A job never stays `running` or `restarting` in a process that goes on: the
\* next start would be answered with it for ever (start returns a job in
\* progress instead of starting another).  A helper whose docker stop fails leaves
\* such a job, and so may an update begun over another, whose helper it removes.
JobSettles ==
    [](job.status \in {"running", "restarting"}
       => <>(\/ job.status \notin {"running", "restarting"}
             \/ mishaps \cap {"overlap", "kept"} # {}))
=============================================================================
