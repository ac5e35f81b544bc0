-------------------------------- MODULE Wakes --------------------------------
(***************************************************************************)
(* Who wakes an agent without being asked, and when: the scheduler of the  *)
(* projects' crons (commands, and routines an agent executes), the loop of *)
(* the agents with a cron, and the gate that compares what a wake observes *)
(* with what its last passage observed before a run is paid for.           *)
(*                                                                         *)
(* A schedule is one sequence of occurrences: the next one lies in the     *)
(* future until it has passed.  What a wake observes (deployment, draft,   *)
(* smoke test, instructions) is a fingerprint.                             *)
(***************************************************************************)
EXTENDS Naturals, FiniteSets

CONSTANTS
    Commands, Routines,   \* rows of project_crons, by kind
    Agents,               \* project_agents with trigger_type = 'cron'
    Slots,                \* bound: executions beside the two loops at once
    States,               \* fingerprints
    Scenarios,            \* which schedules exist together in an instance
    MaxEvents             \* bound: requests of the user, restarts and failed
                          \* statements, together

Crons   == Commands \cup Routines
Plans   == Crons \cup Agents
Keys    == Routines \cup Agents           \* wake keys routine:id, cron_agent:uuid
Loops   == {"tick", "agent_cron_tick"}
Runners == Loops \cup Slots
None    == "none"

ASSUME ConstantsAssumption ==
    /\ Commands \cap Routines = {} /\ Crons \cap Agents = {} /\ None \notin Plans
    /\ Loops \cap Slots = {} /\ None \notin States
    /\ Scenarios \subseteq SUBSET Plans
    /\ MaxEvents \in Nat

VARIABLES
    seen,         \* the fingerprint an observation gives now
    plan,         \* [Plans -> row, next]: enabled or not, and next_run_at
    gate,         \* agent_wake_state: [Keys -> state_hash]
    due,          \* [Loops -> what is left of the list the loop read]
    run,          \* [Runners -> pc, id, next (held to be written at the end), saw]
    sent,         \* agents with a message AGENT-WAKE:CRON of the minute of the last tick
    fresh,        \* the process started after them and has not yet looked for due agents
    left,         \* [Agents -> fingerprint of the run a crash left to its resumption]
    events,
    owed,         \* history: [Keys -> fingerprints launched on and not yet run]
    void,         \* history: [Keys -> fingerprints whose launch came to nothing]
    last,         \* history: [Keys -> fingerprint of the last launch]
    blur,         \* history: keys whose last launch was not alone, or not recorded
    started,      \* history: [Plans -> executions the loops began since an occurrence]
    disturbed     \* history: plans whose next_run_at was lost or taken back since then

vars == <<seen, plan, gate, due, run, sent, fresh, left, events,
          owed, void, last, blur, started, disturbed>>
minute   == <<sent, fresh>>               \* what the marker of a wake knows
launches == <<owed, void, last, blur>>    \* the history of the gate
passes   == <<started, disturbed>>        \* the history of the occurrences

Idle == [pc |-> "idle", id |-> None, next |-> "past", saw |-> None]

-----------------------------------------------------------------------------
\* A task of the program goes on.
Go(r, l) == run' = [run EXCEPT ![r].pc = l]
Stop(r)  == run' = [run EXCEPT ![r] = Idle]

\* A request, a restart, or a statement that fails.
Happens == events < MaxEvents /\ events' = events + 1

Due(S) == {p \in S : plan[p].row = "on" /\ plan[p].next = "past"}

\* Mutant: a schedule whose next occurrence is not computed.
update_cron_status_null(p, n) == [plan EXCEPT ![p].next = "NULL"]

\* Mutant: next_run_at of a routine is left alone.
update_cron_status_commands(p, n) ==
    IF p \in Routines \/ plan[p].row = "gone" THEN plan ELSE [plan EXCEPT ![p].next = n]

\* update_cron_status; the row may have been deleted meanwhile.
update_cron_status(p, n) ==
    IF plan[p].row = "gone" THEN plan ELSE [plan EXCEPT ![p].next = n]

\* A run of the loops begins for an occurrence.
Began(p) == started' = [started EXCEPT ![p] = IF @ < 2 THEN @ + 1 ELSE 2]

\* The occurrence of p may be executed once more.
Disturb(p) == disturbed' = disturbed \cup {p}

-----------------------------------------------------------------------------
(* Time and the project.                                                   *)

\* next_run_time: an occurrence is over.  Whoever had computed it holds the same one.
Holds(r, p) == run[r].id = p /\ run[r].next = "future"
Pass(p) ==
    /\ plan[p].row # "gone"
    /\ plan[p].next = "future" \/ \E r \in Runners : Holds(r, p)
    /\ plan' = [plan EXCEPT ![p].next = "past"]
    /\ run' = [r \in Runners |-> IF Holds(r, p) THEN [run[r] EXCEPT !.next = "past"]
                                 ELSE run[r]]
    /\ started' = [started EXCEPT ![p] = 0] /\ disturbed' = disturbed \ {p}
    /\ UNCHANGED <<seen, minute, gate, due, left, events, launches>>

\* A deployment, a draft, an answer of the site.
Change ==
    /\ seen' \in States \ {seen}
    /\ UNCHANGED <<plan, minute, gate, due, run, left, events, launches, passes>>

-----------------------------------------------------------------------------
(* The scheduler of the projects' crons (crates/cron/src/scheduler.rs).    *)

\* The ticks of one process for its agents are a minute apart or more; the first one
\* may fall in the minute of the last one of the process before it.
NextMinute ==
    /\ sent' \in IF fresh THEN {sent, {}} ELSE {{}}
    /\ fresh' = FALSE

\* get_due_crons, read once for the whole tick; the commands follow one another.
get_due(l, S) ==
    /\ run[l].pc = "idle" /\ due[l] = {}
    /\ due' = [due EXCEPT ![l] = Due(S)]
    /\ IF l = "agent_cron_tick" THEN NextMinute ELSE UNCHANGED minute
    /\ UNCHANGED <<seen, plan, gate, run, left, events, launches, passes>>

\* record_run_start, by the loop or at the user's request.
run_cron ==
    \E c \in due["tick"] :
        /\ run["tick"].pc = "idle"
        /\ due' = [due EXCEPT !["tick"] = @ \ {c}]
        /\ run' = [run EXCEPT !["tick"] = [Idle EXCEPT !.pc = "begun", !.id = c]]
        /\ Began(c)
        /\ UNCHANGED <<seen, minute, plan, gate, left, events, launches, disturbed>>

run_now(s, c) ==
    /\ Happens
    /\ run[s].pc = "idle" /\ plan[c].row # "gone"
    /\ run' = [run EXCEPT ![s] = [Idle EXCEPT !.pc = "begun", !.id = c]]
    /\ UNCHANGED <<seen, minute, plan, gate, due, left, launches, passes>>

\* A routine: the next passage is fixed at once, and the task that executes it keeps it.
HandOver(r) ==
    /\ run[r].pc = "begun" /\ run[r].id \in Routines
    /\ plan' = update_cron_status(run[r].id, "future")
    /\ \E s \in Slots :
        /\ s = r \/ (r \notin Slots /\ run[s].pc = "idle")
        /\ run' = [q \in Runners |->
                      IF q = s THEN [Idle EXCEPT !.pc = "observe", !.id = run[r].id,
                                                 !.next = "future"]
                      ELSE IF q = r THEN Idle ELSE run[q]]
    /\ UNCHANGED <<seen, minute, gate, due, left, events, launches, passes>>

\* docker exec in the container of the project.
Exec(r) ==
    /\ run[r].pc = "begun" /\ run[r].id \in Commands
    /\ Go(r, "ran")
    /\ UNCHANGED <<seen, minute, plan, gate, due, left, events, launches, passes>>

\* Mutant: without a container the scheduler returns at once.
EndCommandEarly(r) ==
    /\ run[r].pc \in {"begun", "ran"} /\ run[r].id \in Commands
    /\ plan' = IF run[r].pc = "begun" THEN plan ELSE update_cron_status(run[r].id, "future")
    /\ Stop(r)
    /\ UNCHANGED <<seen, minute, gate, due, left, events, launches, passes>>

\* record_run_finish and update_cron_status; without a container there is nothing to run.
EndCommand(r) ==
    /\ run[r].pc \in {"begun", "ran"} /\ run[r].id \in Commands
    /\ plan' = update_cron_status(run[r].id, "future")
    /\ Stop(r)
    /\ UNCHANGED <<seen, minute, gate, due, left, events, launches, passes>>

\* A statement fails before next_run_at is written: run_cron returns its error.
FailCron(r) ==
    /\ run[r].pc \in {"begun", "ran"} /\ Happens
    /\ Disturb(run[r].id) /\ Stop(r)
    /\ UNCHANGED <<seen, minute, plan, gate, due, left, launches, started>>

-----------------------------------------------------------------------------
(* The gate (wake_gate.rs), under the task of a routine and under the loop *)
(* of the agents.                                                          *)

\* Mutant: only the first passage launches.
decide_first(prev, hash) == prev = None

\* decide: the outcome of the last passage gives only the wording of the cause.
decide(prev, hash) == prev = None \/ prev # hash

\* Mutant: a passage is recorded once, ON CONFLICT DO NOTHING.
set_state_once(k, h) == IF gate[k] = None THEN [gate EXCEPT ![k] = h] ELSE gate

\* set_state.
set_state(k, h) == [gate EXCEPT ![k] = h]

\* Others who have read the gate of k and have not ended.
Beside(r, k) == \E q \in Runners \ {r} :
                    run[q].id = k /\ run[q].pc \in {"launch", "wake", "turn", "finish"}

\* observe, for a routine.
Observe(s) ==
    /\ run[s].pc = "observe"
    /\ run' = [run EXCEPT ![s].saw = seen, ![s].pc = "check"]
    /\ UNCHANGED <<seen, minute, plan, gate, due, left, events, launches, passes>>

\* check, its reading; one that fails events as the first passage.
Check(r) ==
    /\ run[r].pc = "check"
    /\ \/ /\ Go(r, IF decide(gate[run[r].id], run[r].saw) THEN "launch" ELSE "end")
          /\ UNCHANGED <<events, blur>>
       \/ /\ Go(r, "launch") /\ Happens
          /\ blur' = blur \cup {run[r].id}
    /\ UNCHANGED <<seen, minute, plan, gate, due, left, owed, void, last, passes>>

\* check, its writing: the state is recorded before the run exists.
Launch(r) ==
    LET k == run[r].id
        h == run[r].saw
    IN  /\ run[r].pc = "launch"
        /\ Go(r, IF r \in Slots THEN "turn" ELSE "wake")
        /\ \/ gate' = set_state(k, h) /\ UNCHANGED events
              /\ blur' = IF Beside(r, k) THEN blur \cup {k} ELSE blur \ {k}
           \/ UNCHANGED gate /\ Happens /\ blur' = blur \cup {k}
        /\ last' = [last EXCEPT ![k] = h]
        /\ owed' = [owed EXCEPT ![k] = @ \cup {h}]
        /\ void' = [void EXCEPT ![k] = @ \ {h}]
        /\ UNCHANGED <<seen, minute, plan, due, left, passes>>

\* The agent has executed the routine or has answered the wake.
Turn(r) ==
    /\ run[r].pc = "turn"
    /\ owed' = [owed EXCEPT ![run[r].id] = @ \ {run[r].saw}]
    /\ Go(r, "finish")
    /\ UNCHANGED <<seen, minute, plan, gate, due, left, events, void, last, blur, passes>>

\* finish, of the routine or by after_wake: the passage writes its state again.
Finish(r) ==
    /\ run[r].pc = "finish"
    /\ Go(r, "end")
    /\ \/ gate' = set_state(run[r].id, run[r].saw) /\ UNCHANGED events
       \/ UNCHANGED gate /\ Happens
    /\ UNCHANGED <<seen, minute, plan, due, left, launches, passes>>

\* The end of a routine writes the next passage it was started with, also when
\* another one was fixed since.
EndRoutine(s) ==
    LET c == run[s].id
    IN  /\ run[s].pc = "end" /\ s \in Slots
        /\ Stop(s)
        /\ \/ /\ plan' = update_cron_status(c, run[s].next)
              /\ disturbed' = IF plan'[c] = plan[c] THEN disturbed ELSE disturbed \cup {c}
              /\ UNCHANGED events
           \/ UNCHANGED <<plan, disturbed>> /\ Happens
        /\ UNCHANGED <<seen, minute, gate, due, left, launches, started>>

-----------------------------------------------------------------------------
(* The loop of the agents with a cron (routes.rs): one after the other,    *)
(* and a turn is waited for.                                               *)

agent_cron_tick ==
    \E a \in due["agent_cron_tick"] :
        /\ run["agent_cron_tick"].pc = "idle"
        /\ due' = [due EXCEPT !["agent_cron_tick"] = @ \ {a}]
        /\ run' = [run EXCEPT !["agent_cron_tick"] =
                      [Idle EXCEPT !.pc = "check", !.id = a, !.saw = seen]]
        /\ Began(a)
        /\ UNCHANGED <<seen, minute, plan, gate, left, events, launches, disturbed>>

\* wake_project_agent: the message and the run, unless a message of this minute is
\* there already, the agent was disabled meanwhile or a statement fails (the message
\* may then be there without its run); the gate has recorded the state already.
wake_project_agent ==
    LET r == "agent_cron_tick"
        a == run[r].id
    IN  /\ run[r].pc = "wake"
        /\ \/ /\ plan[a].row = "on"
              /\ IF a \in sent THEN Happens ELSE UNCHANGED events   \* the look for it fails
              /\ sent' = sent \cup {a}
              /\ Go(r, "turn") /\ UNCHANGED void
           \/ /\ \/ /\ a \in sent \/ plan[a].row # "on"
                    /\ UNCHANGED <<events, sent>>
                 \/ plan[a].row = "on" /\ Happens /\ sent' \in {sent, sent \cup {a}}
              /\ Go(r, "finish")
              /\ void' = [void EXCEPT ![a] = @ \cup {run[r].saw}]
        /\ UNCHANGED <<seen, fresh, plan, gate, due, left, owed, last, blur, passes>>

\* next_run_at, last.
EndAgent ==
    LET r == "agent_cron_tick"
        a == run[r].id
    IN  /\ run[r].pc = "end"
        /\ Stop(r)
        /\ \/ plan' = update_cron_status(a, "future") /\ UNCHANGED <<events, disturbed>>
           \/ UNCHANGED plan /\ Happens /\ Disturb(a)
        /\ UNCHANGED <<seen, minute, gate, due, left, launches, started>>

\* The run of a wake the process died in is taken up again (AgentRuns).
Resume(a) ==
    /\ left[a] # None
    /\ owed' = [owed EXCEPT ![a] = @ \ {left[a]}]
    /\ left' = [left EXCEPT ![a] = None]
    /\ UNCHANGED <<seen, minute, plan, gate, due, run, events, void, last, blur, passes>>

-----------------------------------------------------------------------------
(* The user, and the process.                                              *)

\* set_enabled, set_agent_enabled: next_run_at stays as it is.
set_enabled(p) ==
    /\ Happens /\ plan[p].row # "gone"
    /\ plan' = [plan EXCEPT ![p].row = IF @ = "on" THEN "off" ELSE "on"]
    /\ UNCHANGED <<seen, minute, gate, due, run, left, launches, passes>>

\* update: next_run_at is computed again.
update(p) ==
    /\ Happens /\ plan[p].row # "gone"
    /\ plan' = [plan EXCEPT ![p].next = "future"]
    /\ UNCHANGED <<seen, minute, gate, due, run, left, launches, passes>>

\* delete, delete_routine: the gate keeps what it knows.
delete(c) ==
    /\ Happens /\ plan[c].row # "gone"
    /\ plan' = [plan EXCEPT ![c].row = "gone"]
    /\ UNCHANGED <<seen, minute, gate, due, run, left, launches, passes>>

\* The process dies: the run of a wake is in the database, a routine is not resumed
\* (recover_expired fails it, it has no message).  A wake may have got as far as its
\* message.
Lost(k) == {run[r].saw : r \in {q \in Runners : /\ run[q].id = k
                                                /\ \/ run[q].pc = "wake"
                                                   \/ run[q].pc = "turn" /\ q \in Slots}}
Crash ==
    /\ Happens
    /\ run' = [r \in Runners |-> Idle]
    /\ due' = [l \in Loops |-> {}]
    /\ left' = [a \in Agents |->
                   IF run["agent_cron_tick"].pc = "turn" /\ run["agent_cron_tick"].id = a
                   THEN run["agent_cron_tick"].saw ELSE left[a]]
    /\ sent' \in {sent, sent \cup {a \in Agents : run["agent_cron_tick"].pc = "wake"
                                                 /\ run["agent_cron_tick"].id = a}}
    /\ fresh' = (sent' # {})
    /\ void' = [k \in Keys |-> void[k] \cup Lost(k)]
    /\ disturbed' = disturbed \cup {p \in Plans : \E r \in Runners : run[r].id = p}
    /\ UNCHANGED <<seen, plan, gate, owed, last, blur, started>>

-----------------------------------------------------------------------------
Init ==
    /\ seen \in States
    /\ \E S \in Scenarios :
          plan = [p \in Plans |-> [row |-> IF p \in S THEN "on" ELSE "gone",
                                   next |-> "future"]]
    /\ gate = [k \in Keys |-> None]
    /\ due = [l \in Loops |-> {}]
    /\ run = [r \in Runners |-> Idle]
    /\ sent = {} /\ fresh = FALSE
    /\ left = [a \in Agents |-> None]
    /\ events = 0
    /\ owed = [k \in Keys |-> {}] /\ void = [k \in Keys |-> {}]
    /\ last = [k \in Keys |-> None] /\ blur = {}
    /\ started = [p \in Plans |-> 0] /\ disturbed = {}

\* What the program does on its own, by task.
Lists == get_due("tick", Crons) \/ get_due("agent_cron_tick", Agents)
Steps(r) ==
    \/ HandOver(r) \/ Exec(r) \/ EndCommand(r) \/ FailCron(r)
    \/ Observe(r) \/ Check(r) \/ Launch(r) \/ Turn(r) \/ Finish(r) \/ EndRoutine(r)

Agent == agent_cron_tick \/ wake_project_agent \/ EndAgent

Users ==
    \/ \E p \in Plans : set_enabled(p) \/ update(p)
    \/ \E c \in Crons : delete(c) \/ \E s \in Slots : run_now(s, c)

Next ==
    \/ Change \/ \E p \in Plans : Pass(p)
    \/ Lists \/ run_cron \/ Agent \/ \E r \in Runners : Steps(r)
    \/ \E a \in Agents : Resume(a)
    \/ Users \/ Crash

Spec == Init /\ [][Next]_vars

\* Time passes, the loops turn, statements and turns of agents come to an end.
FairSpec ==
    /\ Spec
    /\ \A p \in Plans : WF_vars(Pass(p))
    /\ WF_vars(get_due("tick", Crons)) /\ WF_vars(get_due("agent_cron_tick", Agents))
    /\ WF_vars(run_cron) /\ WF_vars(Agent)
    /\ \A r \in Runners : WF_vars(Steps(r))
    /\ \A a \in Agents : WF_vars(Resume(a))

-----------------------------------------------------------------------------
RunnersTyped ==
    run \in [Runners -> [pc : {"idle", "begun", "ran", "observe", "check", "launch",
                               "wake", "turn", "finish", "end"},
                         id : Plans \cup {None}, next : {"future", "past"},
                         saw : States \cup {None}]]
PlansTyped ==
    /\ plan \in [Plans -> [row : {"on", "off", "gone"}, next : {"future", "past"}]]
    /\ due \in [Loops -> SUBSET Plans]
GateTyped ==
    /\ seen \in States
    /\ gate \in [Keys -> States \cup {None}] /\ last \in [Keys -> States \cup {None}]
    /\ left \in [Agents -> States \cup {None}]
    /\ owed \in [Keys -> SUBSET States] /\ void \in [Keys -> SUBSET States]
    /\ blur \subseteq Keys
CountersTyped ==
    /\ events \in 0..MaxEvents
    /\ started \in [Plans -> 0..2] /\ disturbed \subseteq Plans

MinuteTyped == sent \subseteq Agents /\ fresh \in BOOLEAN

TypeOK == MinuteTyped /\ RunnersTyped /\ PlansTyped /\ GateTyped /\ CountersTyped

\* "inchangée → pas de run" (wake_gate.rs:8): a key is launched again on the state of
\* its last launch only when that launch was not alone, or a statement about it failed.
RepeatNeedsOverlap ==
    [][\A r \in Runners :
         run[r].pc = "launch" /\ run'[r].pc \in {"turn", "wake"}
           => \/ run[r].saw # last[run[r].id]
              \/ run[r].id \in blur]_vars

\* An occurrence is executed once by the loops, unless the execution failed half-way,
\* the process died in it, or an earlier one took next_run_at back (run_cron, tick).
OncePerOccurrence == \A p \in Plans : started[p] > 1 => p \in disturbed

\* The words of the gate: "changée (ou jamais vue) → run", whatever happens.
Answered(k) == gate[k] = seen /\ seen \notin owed[k]
Calm == <>[][seen' = seen]_vars
EveryChangeIsRun == Calm => \A k \in Keys : []<>(plan[k].row # "on" \/ Answered(k))

\* A state that stays is one the agent has run on, or whose launch came to nothing:
\* the agent was disabled, its wake failed, the process died between the record of
\* the launch and the run, or a process that started within the minute of the last
\* wake found the message of that wake and sent none.
ChangeIsRun ==
    Calm => \A k \in Keys :
                []<>(plan[k].row # "on" \/ Answered(k) \/ seen \in void[k])

\* What is due is begun, however long the ones before it take (tick, agent_cron_tick).
DueIsRun == \A p \in Plans : []<>(plan[p].row # "on" \/ plan[p].next = "future")

\* next_run_at of a routine that ends is still to come ("prochain passage fixé tout de
\* suite", scheduler.rs:123).
NextIsAhead ==
    [][\A s \in Slots : run[s].pc = "end" /\ run'[s].pc = "idle"
          => \A c \in Crons : plan[c].next = "future" => plan'[c].next = "future"]_vars
=============================================================================
