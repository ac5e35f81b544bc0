----------------------------- MODULE WakesProofs -----------------------------
(***************************************************************************)
(* Proofs about Wakes: types, no second launch on a state, and one         *)
(* execution per occurrence, for any number of schedules, executions,      *)
(* states, requests and troubles.                                          *)
(***************************************************************************)
EXTENDS Wakes, TLAPS

Gated == {"check", "launch", "wake", "turn", "finish", "end"}
RunRec == [pc : {"idle", "begun", "ran", "observe"} \cup Gated,
           id : Plans \cup {None}, next : {"future", "past"}, saw : States \cup {None}]

\* What each task works on: the scheduler begins crons and hands routines over, the
\* other loop takes agents through the gate, a task beside them executes a cron.
SchedulerAt(x) == x.pc \in {"idle", "begun", "ran"} /\ (x.pc # "idle" => x.id \in Crons)
AgentLoopAt(x) == x.pc \in {"idle"} \cup Gated /\ (x.pc # "idle" => x.id \in Agents)
SlotAt(x) ==
    /\ x.pc # "wake"
    /\ x.pc # "idle" => x.id \in Crons
    /\ x.pc \in {"observe"} \cup Gated => x.id \in Routines

RunnerAt(r, x) ==
    /\ x \in RunRec
    /\ x.pc = "idle" => x.id = None
    /\ x.pc \in Gated => x.saw \in States
    /\ r = "tick" => SchedulerAt(x)
    /\ r = "agent_cron_tick" => AgentLoopAt(x)
    /\ r \in Slots => SlotAt(x)

RunsT == /\ run = [r \in Runners |-> run[r]]
         /\ \A r \in Runners : RunnerAt(r, run[r])
PlanT == plan \in [Plans -> [row : {"on", "off", "gone"}, next : {"future", "past"}]]
DueT  == /\ due \in [Loops -> SUBSET Plans]
         /\ due["tick"] \subseteq Crons /\ due["agent_cron_tick"] \subseteq Agents
TInv  == RunsT /\ PlanT /\ DueT /\ MinuteTyped /\ GateTyped /\ CountersTyped

-----------------------------------------------------------------------------
(* The types.                                                              *)

LEMMA Names ==
    /\ "tick" \in Runners /\ "agent_cron_tick" \in Runners /\ Slots \subseteq Runners
    /\ "tick" \notin Slots /\ "agent_cron_tick" \notin Slots
    /\ \A r \in Runners : r \in Slots \/ r = "tick" \/ r = "agent_cron_tick"
    /\ Crons \subseteq Plans /\ Agents \subseteq Plans /\ Routines \subseteq Crons
    /\ Keys \subseteq Plans /\ Routines \subseteq Keys /\ Agents \subseteq Keys
    /\ \A p \in Crons : p \notin Agents
    /\ \A p \in Routines : p \notin Commands
    /\ None \notin Plans /\ None \notin States /\ MaxEvents \in Nat
  BY ConstantsAssumption DEF Runners, Loops, Plans, Crons, Keys

\* A task takes one step and the others stay where they are.
LEMMA OneRuns ==
    ASSUME RunsT, NEW r \in Runners, NEW x, RunnerAt(r, x), run' = [run EXCEPT ![r] = x]
    PROVE  RunsT'
  BY DEF RunsT

LEMMA IdleAt == \A r : RunnerAt(r, Idle)
  BY DEF RunnerAt, Idle, RunRec, SchedulerAt, AgentLoopAt, SlotAt, Gated

LEMMA TInit == Init => TInv
<1> SUFFICES ASSUME Init PROVE TInv
  OBVIOUS
<1>1. RunsT  BY IdleAt DEF Init, RunsT
<1>2. PlanT /\ DueT  BY Names DEF Init, PlanT, DueT, Loops
<1>3. GateTyped /\ CountersTyped  BY Names DEF Init, GateTyped, CountersTyped
<1>4. MinuteTyped  BY DEF Init, MinuteTyped
<1> QED BY <1>1, <1>2, <1>3, <1>4 DEF TInv

LEMMA StatusType ==
    ASSUME PlanT, NEW p, NEW n \in {"future", "past"}
    PROVE  update_cron_status(p, n)
              \in [Plans -> [row : {"on", "off", "gone"}, next : {"future", "past"}]]
  BY DEF PlanT, update_cron_status

\* A task of r goes on at l with the work it has.
LEMMA GoesOn ==
    ASSUME RunsT, NEW r \in Runners, NEW l \in {"ran"} \cup Gated, Go(r, l),
           run[r].pc # "idle",
           l \in Gated => run[r].saw \in States,
           r = "tick" => l = "ran",
           r = "agent_cron_tick" => l \in Gated,
           r \in Slots => l # "wake" /\ (l \in Gated => run[r].id \in Routines)
    PROVE  RunsT'
<1> DEFINE x == [run[r] EXCEPT !.pc = l]
<1>1. RunnerAt(r, run[r])  BY DEF RunsT
<1>2. x.pc = l /\ x.id = run[r].id /\ x.saw = run[r].saw /\ x \in RunRec
  BY <1>1 DEF RunnerAt, RunRec, Gated
<1>3. RunnerAt(r, x)
  BY <1>1, <1>2, Names DEF RunnerAt, SchedulerAt, AgentLoopAt, SlotAt, Gated
<1>4. run' = [run EXCEPT ![r] = x]  BY DEF Go
<1> QED BY <1>3, <1>4, OneRuns

LEMMA Stops ==
    ASSUME RunsT, NEW r \in Runners, Stop(r)
    PROVE  RunsT'
  BY IdleAt, OneRuns DEF Stop

\* Where a task is says which task it is and what it has.
LEMMA Places ==
    ASSUME RunsT, NEW r \in Runners
    PROVE  /\ run[r].pc \in {"begun", "ran"} => r # "agent_cron_tick" /\ run[r].id \in Crons
           /\ run[r].pc = "observe" => r \in Slots /\ run[r].id \in Routines
           /\ run[r].pc \in Gated => /\ r # "tick" /\ run[r].saw \in States
                                     /\ run[r].id \in Keys
                                     /\ r \in Slots => run[r].id \in Routines
           /\ run[r].pc = "idle" => run[r].id = None
           /\ run[r] \in RunRec /\ RunnerAt(r, run[r])
  BY Names DEF RunsT, RunnerAt, SchedulerAt, AgentLoopAt, SlotAt, Gated

LEMMA StepsRuns == ASSUME TInv, NEW r \in Runners, Steps(r) PROVE RunsT'
<1>0. RunsT  BY DEF TInv
<1> USE DEF Gated
<1>1. CASE HandOver(r)
  <2> DEFINE y == [Idle EXCEPT !.pc = "observe", !.id = run[r].id, !.next = "future"]
  <2>1. RunnerAt(r, run[r]) /\ run[r].id \in Routines /\ r # "agent_cron_tick"
    BY <1>0, <1>1, Places DEF HandOver
  <2>2. y.pc = "observe" /\ y.id = run[r].id /\ y \in RunRec
    BY <2>1, Names DEF Idle, RunRec
  <2>3. \A s \in Slots : RunnerAt(s, y)
    BY <2>1, <2>2, Names DEF RunnerAt, SlotAt
  <2>4. PICK s \in Slots :
           run' = [q \in Runners |-> IF q = s THEN y ELSE IF q = r THEN Idle ELSE run[q]]
    BY <1>1 DEF HandOver
  <2> QED BY <1>0, <2>3, <2>4, IdleAt DEF RunsT
<1>2. CASE Exec(r)
  <2>1. run[r].id \in Crons /\ r # "agent_cron_tick"  BY <1>0, <1>2, Places DEF Exec
  <2> QED BY <1>0, <1>2, <2>1, GoesOn DEF Exec
<1>3. CASE EndCommand(r) \/ FailCron(r) \/ EndRoutine(r)
  BY <1>0, <1>3, Stops DEF EndCommand, FailCron, EndRoutine
<1>4. CASE Observe(r)
  <2> DEFINE x == [[run[r] EXCEPT !.saw = seen] EXCEPT !.pc = "check"]
  <2>1. r \in Slots /\ run[r].id \in Routines /\ RunnerAt(r, run[r]) /\ seen \in States
    BY <1>0, <1>4, Places DEF Observe, TInv, GateTyped
  <2>2. x.pc = "check" /\ x.id = run[r].id /\ x.saw = seen /\ x \in RunRec
    BY <2>1 DEF RunnerAt, RunRec
  <2>3. RunnerAt(r, x)  BY <2>1, <2>2, Names DEF RunnerAt, SlotAt
  <2>4. run' = [run EXCEPT ![r] = x]  BY <1>0, <1>4 DEF Observe, RunsT
  <2> QED BY <1>0, <2>3, <2>4, OneRuns
<1>5. CASE Check(r)
  <2>1. r # "tick" /\ run[r].saw \in States /\ (r \in Slots => run[r].id \in Routines)
    BY <1>0, <1>5, Places DEF Check
  <2>2. PICK l \in {"launch", "end"} : Go(r, l)  BY <1>5 DEF Check
  <2> QED BY <1>0, <1>5, <2>1, <2>2, GoesOn DEF Check
<1>6. CASE Launch(r)
  <2>1. r # "tick" /\ run[r].saw \in States /\ (r \in Slots => run[r].id \in Routines)
    BY <1>0, <1>6, Places DEF Launch
  <2>2. Go(r, IF r \in Slots THEN "turn" ELSE "wake")  BY <1>6 DEF Launch
  <2> QED BY <1>0, <1>6, <2>1, <2>2, GoesOn DEF Launch
<1>7. CASE Turn(r) \/ Finish(r)
  <2>1. /\ r # "tick" /\ run[r].saw \in States /\ (r \in Slots => run[r].id \in Routines)
        /\ run[r].pc # "idle"
    BY <1>0, <1>7, Places DEF Turn, Finish
  <2>2. PICK l \in {"finish", "end"} : Go(r, l)  BY <1>7 DEF Turn, Finish
  <2> QED BY <1>0, <2>1, <2>2, GoesOn
<1> QED BY <1>1, <1>2, <1>3, <1>4, <1>5, <1>6, <1>7 DEF Steps

\* The agents' loop.
LEMMA AgentRuns == ASSUME TInv, Agent PROVE RunsT'
<1> DEFINE r == "agent_cron_tick"
<1>0. RunsT /\ DueT /\ r \in Runners /\ r \notin Slots /\ seen \in States
  BY Names DEF TInv, GateTyped
<1>1. CASE agent_cron_tick
  <2>1. PICK a \in due[r] :
           run' = [run EXCEPT ![r] = [Idle EXCEPT !.pc = "check", !.id = a, !.saw = seen]]
    BY <1>1 DEF agent_cron_tick
  <2> DEFINE x == [Idle EXCEPT !.pc = "check", !.id = a, !.saw = seen]
  <2>2. a \in Agents  BY <1>0, <2>1 DEF DueT
  <2>3. x.pc = "check" /\ x.id = a /\ x.saw = seen /\ x \in RunRec
    BY <1>0, <2>2, Names DEF Idle, RunRec, Gated
  <2>4. RunnerAt(r, x)  BY <1>0, <2>2, <2>3 DEF RunnerAt, AgentLoopAt, Gated
  <2> QED BY <1>0, <2>1, <2>4, OneRuns
<1>2. CASE wake_project_agent
  <2>1. run[r].saw \in States /\ run[r].pc = "wake"
    BY <1>0, <1>2, Places DEF wake_project_agent, Gated
  <2>2. PICK l \in {"turn", "finish"} : Go(r, l)  BY <1>2 DEF wake_project_agent
  <2> QED BY <1>0, <2>1, <2>2, GoesOn DEF Gated
<1>3. CASE EndAgent
  BY <1>0, <1>3, Stops DEF EndAgent
<1> QED BY <1>1, <1>2, <1>3 DEF Agent

LEMMA RunsStep == ASSUME TInv, [Next]_vars PROVE RunsT'
<1>0. RunsT /\ DueT  BY DEF TInv
<1>1. ASSUME NEW p \in Plans, Pass(p) PROVE RunsT'
  <2>1. \A r \in Runners : RunnerAt(r, [run[r] EXCEPT !.next = "past"])
    <3> TAKE r \in Runners
    <3>1. RunnerAt(r, run[r])  BY <1>0 DEF RunsT
    <3> QED BY <3>1 DEF RunnerAt, RunRec, SchedulerAt, AgentLoopAt, SlotAt
  <2> QED BY <1>0, <1>1, <2>1 DEF Pass, RunsT
<1>2. CASE Change \/ Lists \/ vars' = vars
  BY <1>0, <1>2 DEF Change, Lists, get_due, vars, RunsT
<1>3. ASSUME NEW r \in Runners, NEW c \in Crons, r # "agent_cron_tick",
             run' = [run EXCEPT ![r] = [Idle EXCEPT !.pc = "begun", !.id = c]]
      PROVE  RunsT'
  <2> DEFINE x == [Idle EXCEPT !.pc = "begun", !.id = c]
  <2>1. x.pc = "begun" /\ x.id = c /\ x \in RunRec  BY Names DEF Idle, RunRec
  <2>2. RunnerAt(r, x)  BY <1>3, <2>1 DEF RunnerAt, SchedulerAt, SlotAt, Gated
  <2> QED BY <1>0, <1>3, <2>2, OneRuns
<1>4. CASE run_cron
  BY <1>0, <1>3, <1>4, Names DEF run_cron, DueT
<1>5. CASE Users
  <2>1. CASE \E p \in Plans : set_enabled(p) \/ update(p)
    BY <1>0, <2>1 DEF set_enabled, update, RunsT
  <2>2. ASSUME NEW c \in Crons, delete(c) PROVE RunsT'
    BY <1>0, <2>2 DEF delete, RunsT
  <2>3. ASSUME NEW c \in Crons, NEW s \in Slots, run_now(s, c) PROVE RunsT'
    BY <1>3, <2>3, Names DEF run_now
  <2> QED BY <1>5, <2>1, <2>2, <2>3 DEF Users
<1>6. CASE Crash
  BY <1>6, IdleAt DEF Crash, RunsT
<1>7. CASE \E a \in Agents : Resume(a)
  BY <1>0, <1>7 DEF Resume, RunsT
<1> QED BY <1>1, <1>2, <1>4, <1>5, <1>6, <1>7, StepsRuns, AgentRuns DEF Next

\* The tables and the lists of the loops.
LEMMA PlanStep == ASSUME TInv, [Next]_vars PROVE PlanT'
<1>0. RunsT /\ PlanT  BY DEF TInv
<1>1. ASSUME NEW r \in Runners, Steps(r) PROVE PlanT'
  <2>1. run[r].next \in {"future", "past"}  BY <1>0, Places DEF RunRec
  <2> QED BY <1>0, <1>1, <2>1, StatusType DEF Steps, HandOver, Exec, EndCommand, FailCron,
             Observe, Check, Launch, Turn, Finish, EndRoutine, PlanT
<1>2. CASE Agent
  <2>1. CASE agent_cron_tick \/ wake_project_agent
    BY <1>0, <2>1 DEF agent_cron_tick, wake_project_agent, PlanT
  <2>2. CASE EndAgent
    BY <1>0, <2>2, StatusType DEF EndAgent, PlanT
  <2> QED BY <1>2, <2>1, <2>2 DEF Agent
<1>3. ASSUME NEW p \in Plans, Pass(p) \/ set_enabled(p) \/ update(p) PROVE PlanT'
  BY <1>0, <1>3 DEF Pass, set_enabled, update, PlanT
<1>4. ASSUME NEW c \in Crons, delete(c) \/ \E s \in Slots : run_now(s, c) PROVE PlanT'
  BY <1>0, <1>4, Names DEF delete, run_now, PlanT
<1>5. CASE Change \/ Lists \/ run_cron \/ Crash \/ vars' = vars \/ \E a \in Agents : Resume(a)
  BY <1>0, <1>5 DEF Change, Lists, get_due, run_cron, Crash, vars, Resume, PlanT
<1> QED BY <1>1, <1>2, <1>3, <1>4, <1>5 DEF Next, Users

LEMMA DueStep == ASSUME TInv, [Next]_vars PROVE DueT'
<1>0. DueT  BY DEF TInv
<1>1. CASE Lists
  <2>1. \A S : Due(S) \subseteq S  BY DEF Due
  <2>2. PICK l \in Loops, S \in {Crons, Agents} :
          /\ due' = [due EXCEPT ![l] = Due(S)]
          /\ (l = "tick" /\ S = Crons) \/ (l = "agent_cron_tick" /\ S = Agents)
    BY <1>1 DEF Lists, get_due, Loops
  <2>3. Due(S) \subseteq S  BY <2>1
  <2> QED BY <1>0, <2>2, <2>3, Names DEF DueT, Loops
<1>2. CASE run_cron \/ agent_cron_tick
  BY <1>0, <1>2 DEF run_cron, agent_cron_tick, DueT, Loops
<1>3. CASE Crash
  BY <1>3 DEF Crash, DueT, Loops
<1>4. CASE due' = due
  BY <1>0, <1>4 DEF DueT
<1>5. ASSUME [Next]_vars, ~Lists, ~run_cron, ~agent_cron_tick, ~Crash PROVE due' = due
  BY <1>5 DEF Next, Change, Pass, Agent, wake_project_agent, EndAgent, Steps, HandOver, Exec,
     EndCommand, FailCron, Observe, Check, Launch, Turn, Finish, EndRoutine, Resume, Users,
     set_enabled, update, delete, run_now, vars
<1> QED BY <1>1, <1>2, <1>3, <1>4, <1>5

\* The gate and its history.
LEMMA GateStep == ASSUME TInv, [Next]_vars PROVE GateTyped'
<1>0. RunsT /\ DueT /\ GateTyped  BY DEF TInv
<1> USE <1>0, Names DEF GateTyped, set_state
<1>1. ASSUME NEW r \in Runners, Check(r) \/ Launch(r) \/ Turn(r) \/ Finish(r) PROVE GateTyped'
  <2>1. run[r].saw \in States /\ run[r].id \in Keys
    BY <1>1, Places DEF Check, Launch, Turn, Finish, Gated
  <2>2. CASE Check(r)
    BY <2>1, <2>2 DEF Check
  <2>3. CASE Launch(r)
    BY <2>1, <2>3 DEF Launch
  <2>4. CASE Turn(r)
    BY <2>1, <2>4 DEF Turn
  <2>5. CASE Finish(r)
    BY <2>1, <2>5 DEF Finish, launches
  <2> QED BY <1>1, <2>2, <2>3, <2>4, <2>5
<1>2. CASE wake_project_agent
  <2>1. run["agent_cron_tick"].saw \in States /\ run["agent_cron_tick"].id \in Keys
    BY <1>2, Places DEF wake_project_agent, Gated
  <2> QED BY <1>2, <2>1 DEF wake_project_agent
<1>3. CASE Crash
  <2>1. \A k \in Keys : Lost(k) \subseteq States
    <3> SUFFICES ASSUME NEW r \in Runners, run[r].pc \in {"wake", "turn"}
                 PROVE  run[r].saw \in States
      BY DEF Lost
    <3> QED BY Places DEF Gated
  <2>2. run["agent_cron_tick"].pc = "turn" => run["agent_cron_tick"].saw \in States
    BY Places DEF Gated
  <2>3. left' \in [Agents -> States \cup {None}] /\ void' \in [Keys -> SUBSET States]
    BY <1>3, <2>1, <2>2 DEF Crash
  <2> QED BY <1>3, <2>3 DEF Crash
<1>4. ASSUME NEW a \in Agents, Resume(a) PROVE GateTyped'
  BY <1>4 DEF Resume
<1>5. CASE Change
  BY <1>5 DEF Change, launches
<1>6. CASE UNCHANGED <<seen, gate, left, launches>>
  BY <1>6 DEF launches
<1>7. ASSUME NEW r \in Runners, Steps(r) PROVE GateTyped'
  BY <1>1, <1>6, <1>7 DEF Steps, HandOver, Exec, EndCommand, FailCron, Observe, EndRoutine
<1>8. CASE (\E p \in Plans : Pass(p)) \/ Lists \/ run_cron \/ Agent \/ Users \/ vars' = vars
  BY <1>2, <1>6, <1>8 DEF Pass, Lists, get_due, run_cron, Agent, agent_cron_tick, EndAgent,
     Users, set_enabled, update, delete, run_now, vars, launches
<1> QED BY <1>3, <1>4, <1>5, <1>7, <1>8 DEF Next

LEMMA CountersStep == ASSUME TInv, [Next]_vars PROVE CountersTyped'
<1>0. RunsT /\ DueT /\ CountersTyped  BY DEF TInv
<1> USE <1>0, Names DEF CountersTyped
<1>1. Happens \/ events' = events => events' \in 0..MaxEvents
  BY DEF Happens
<1>2. ASSUME NEW p \in Plans, Pass(p) \/ Began(p) \/ Disturb(p) \/ UNCHANGED passes
      PROVE  /\ (Pass(p) \/ Began(p)) => started' \in [Plans -> 0..2]
             /\ (Pass(p) \/ Disturb(p)) => disturbed' \subseteq Plans
  <2>1. (IF started[p] < 2 THEN started[p] + 1 ELSE 2) \in 0..2  OBVIOUS
  <2> QED BY <2>1 DEF Pass, Began, Disturb
<1>3. ASSUME NEW r \in Runners, Steps(r) PROVE CountersTyped'
  <2>1. run[r].pc # "idle" => run[r].id \in Plans
    BY Places DEF RunRec, RunnerAt, SchedulerAt, AgentLoopAt, SlotAt
  <2>2. CASE FailCron(r)
    BY <1>1, <1>2, <2>1, <2>2 DEF FailCron
  <2>3. CASE EndRoutine(r)
    BY <1>1, <2>1, <2>3 DEF EndRoutine
  <2>4. CASE ~FailCron(r) /\ ~EndRoutine(r)
    <3>1. UNCHANGED passes /\ (Happens \/ events' = events)
      BY <1>3, <2>4 DEF Steps, HandOver, Exec, EndCommand, Observe, Check, Launch, Turn, Finish,
         passes
    <3> QED BY <1>1, <3>1 DEF passes
  <2> QED BY <2>2, <2>3, <2>4
<1>4. CASE Agent
  <2>1. CASE agent_cron_tick
    BY <1>1, <1>2, <2>1 DEF agent_cron_tick, DueT
  <2>2. CASE wake_project_agent
    BY <1>1, <2>2 DEF wake_project_agent, passes
  <2>3. CASE EndAgent
    <3>1. run["agent_cron_tick"].id \in Plans
      BY <2>3, Places DEF EndAgent, Gated
    <3> QED BY <1>1, <1>2, <2>3, <3>1 DEF EndAgent
  <2> QED BY <1>4, <2>1, <2>2, <2>3 DEF Agent
<1>5. CASE run_cron
  BY <1>1, <1>2, <1>5 DEF run_cron, DueT
<1>6. CASE Crash
  BY <1>1, <1>6 DEF Crash
<1>7. ASSUME NEW p \in Plans, Pass(p) PROVE CountersTyped'
  BY <1>1, <1>2, <1>7 DEF Pass
<1>8. CASE Change \/ Lists \/ Users \/ vars' = vars \/ \E a \in Agents : Resume(a)
  <2>1. UNCHANGED passes /\ (Happens \/ events' = events)
    BY <1>8 DEF Change, Lists, get_due, Users, set_enabled, update, delete, run_now, vars, Resume,
       passes
  <2> QED BY <1>1, <2>1 DEF passes
<1> QED BY <1>3, <1>4, <1>5, <1>6, <1>7, <1>8 DEF Next

\* The messages of the minute are of agents that were woken.
LEMMA MinuteStep == ASSUME TInv, [Next]_vars PROVE MinuteTyped'
<1>0. RunsT /\ MinuteTyped  BY DEF TInv
<1> USE <1>0, Names DEF MinuteTyped
<1>1. CASE wake_project_agent
  <2>1. run["agent_cron_tick"].id \in Agents
    BY <1>1 DEF wake_project_agent, RunsT, RunnerAt, AgentLoopAt
  <2> QED BY <1>1, <2>1 DEF wake_project_agent
<1>2. CASE Crash
  BY <1>2 DEF Crash
<1>3. CASE Lists
  BY <1>3 DEF Lists, get_due, NextMinute, minute
<1>4. CASE UNCHANGED minute
  BY <1>4 DEF minute
<1>5. ASSUME [Next]_vars, ~wake_project_agent, ~Crash, ~Lists PROVE UNCHANGED minute
  BY <1>5 DEF Next, Change, Pass, Agent, run_cron, agent_cron_tick, EndAgent, Steps, HandOver,
     Exec, EndCommand, FailCron, Observe, Check, Launch, Turn, Finish, EndRoutine, Resume,
     Users, set_enabled, update, delete, run_now, minute, vars
<1> QED BY <1>1, <1>2, <1>3, <1>4, <1>5

LEMMA TStep == TInv /\ [Next]_vars => TInv'
  BY MinuteStep, RunsStep, PlanStep, DueStep, GateStep, CountersStep DEF TInv

\* Every variable keeps its type: in particular only routines and agents reach the
\* gate, and with a state they observed.
THEOREM TypeCorrect == Spec => []TypeOK
<1>1. TInv => TypeOK
  <2> SUFFICES ASSUME TInv PROVE TypeOK
    OBVIOUS
  <2>1. RunnersTyped
    <3>1. \A r \in Runners : run[r] \in RunRec  BY Places DEF TInv
    <3> QED BY <3>1 DEF TInv, RunsT, RunnersTyped, RunRec, Gated
  <2> QED BY <2>1 DEF TInv, PlanT, DueT, PlansTyped, TypeOK
<1> QED BY <1>1, TInit, TStep, PTL DEF Spec

-----------------------------------------------------------------------------
(* One execution per occurrence.                                           *)

LoopOf(p) == IF p \in Agents THEN "agent_cron_tick" ELSE "tick"

\* What may be begun has not been: the rest of a loop's list, and what the next list
\* would hold, unless its loop is still at it and will fix the next passage.
ListInv == \A l \in Loops : \A p \in due[l] \ disturbed : started[p] = 0
PastInv ==
    \A p \in Plans \ disturbed :
        plan[p].row # "gone" /\ plan[p].next = "past" /\ started[p] # 0
            => run[LoopOf(p)].id = p
OInv == ListInv /\ PastInv /\ OncePerOccurrence

LEMMA OInit == Init => OInv
<1> SUFFICES ASSUME Init PROVE OInv
  OBVIOUS
<1>1. \A p \in Plans : started[p] = 0  BY DEF Init
<1>2. \A l \in Loops : due[l] = {}  BY DEF Init
<1> QED BY <1>1, <1>2 DEF OInv, ListInv, PastInv, OncePerOccurrence

\* Which loop a task of the loops is, and that a loop at rest is at nothing.
LEMMA LoopsAt ==
    ASSUME TInv
    PROVE  /\ \A p \in Plans : LoopOf(p) \in Runners /\ LoopOf(p) \in Loops
                               /\ LoopOf(p) \notin Slots
           /\ \A p \in Crons : LoopOf(p) = "tick"
           /\ \A p \in Agents : LoopOf(p) = "agent_cron_tick"
           /\ \A p \in Plans : run[LoopOf(p)].pc = "idle" => run[LoopOf(p)].id # p
           /\ due["tick"] \subseteq Crons /\ due["agent_cron_tick"] \subseteq Agents
           /\ \A l \in Loops : due[l] \subseteq Plans
<1>1. \A p \in Plans : LoopOf(p) \in Runners /\ LoopOf(p) \in Loops /\ LoopOf(p) \notin Slots
  BY Names DEF LoopOf, Loops
<1>2. ASSUME NEW p \in Plans, run[LoopOf(p)].pc = "idle" PROVE run[LoopOf(p)].id # p
  BY <1>1, <1>2, Places, Names DEF TInv
<1> QED BY <1>1, <1>2, Names DEF LoopOf, TInv, DueT, Loops

\* Time: an occurrence is over, and nothing has been begun for the next one.
LEMMA PassOnce == ASSUME TInv, OInv, NEW p \in Plans, Pass(p) PROVE OInv'
<1> USE DEF OInv, ListInv, PastInv, OncePerOccurrence
<1>1. started' = [started EXCEPT ![p] = 0] /\ disturbed' = disturbed \ {p} /\ due' = due
  BY DEF Pass
<1>2. \A q \in Plans \ {p} : started'[q] = started[q] /\ plan'[q] = plan[q]
  BY <1>1 DEF Pass, TInv, CountersTyped, PlanT
<1>3. started'[p] = 0
  BY <1>1 DEF TInv, CountersTyped
<1>4. \A r \in Runners : run'[r].id = run[r].id
  <2> TAKE r \in Runners
  <2>1. run[r] \in RunRec  BY Places DEF TInv
  <2> QED BY <2>1 DEF Pass, RunRec
<1>5. ListInv' /\ OncePerOccurrence'
  BY <1>1, <1>2, <1>3, LoopsAt
<1>6. PastInv'
  BY <1>1, <1>2, <1>3, <1>4, LoopsAt
<1> QED BY <1>5, <1>6

\* A loop begins what its list holds.
LEMMA BeginOnce ==
    ASSUME TInv, OInv, NEW l \in Loops, NEW p \in due[l], l = LoopOf(p),
           run[l].pc = "idle", due' = [due EXCEPT ![l] = @ \ {p}],
           NEW x, x.id = p, run' = [run EXCEPT ![l] = x],
           Began(p), UNCHANGED <<plan, disturbed>>
    PROVE  OInv'
<1> USE DEF OInv, ListInv, PastInv, OncePerOccurrence
<1>1. p \in Plans /\ l \in Runners  BY LoopsAt
<1>2. \A q \in Plans \ {p} : started'[q] = started[q]
  BY <1>1 DEF Began
<1>3. p \notin disturbed => started'[p] = 1
  BY <1>1 DEF Began, TInv, CountersTyped
<1>4. \A q \in Plans \ {p} : q \in disturbed \/ plan[q].row = "gone" \/ plan[q].next # "past"
                             \/ started[q] = 0 \/ LoopOf(q) # l
  BY <1>1, LoopsAt
<1>5. \A m \in Loops : p \notin due'[m]
  BY LoopsAt, <1>1, Names DEF TInv, DueT, Loops, LoopOf
<1>6. ListInv'
  BY <1>2, <1>5, LoopsAt DEF TInv, DueT
<1>7. PastInv'
  <2> SUFFICES ASSUME NEW q \in Plans, q \notin disturbed, plan[q].row # "gone",
                      plan[q].next = "past", started'[q] # 0
               PROVE  run'[LoopOf(q)].id = q
    OBVIOUS
  <2>1. CASE q = p  BY <1>1, <2>1 DEF TInv, RunsT
  <2>2. CASE q # p
    BY <1>1, <1>2, <1>4, <2>2, LoopsAt DEF TInv, RunsT
  <2> QED BY <2>1, <2>2
<1>8. OncePerOccurrence'
  BY <1>2, <1>3
<1> QED BY <1>6, <1>7, <1>8

\* A step that begins nothing leaves the schedules alone, except for one that it
\* disturbs, or whose next passage lies ahead, or that is gone.
LEMMA RestOnce ==
    ASSUME TInv, OInv, NEW s, started' = started, disturbed \subseteq disturbed',
           \A l \in Loops : due'[l] \subseteq due[l],
           \A p \in Plans \ {s} : /\ plan'[p].next = plan[p].next
                                  /\ plan[p].row = "gone" => plan'[p].row = "gone"
                                  /\ run[LoopOf(p)].id = p => run'[LoopOf(p)].id = p,
           s \in disturbed' \/ plan'[s].next = "future" \/ plan'[s].row = "gone"
    PROVE  OInv'
<1> USE DEF OInv, ListInv, PastInv, OncePerOccurrence
<1>1. ListInv' /\ OncePerOccurrence'  BY LoopsAt
<1>2. PastInv'
  <2> SUFFICES ASSUME NEW p \in Plans, p \notin disturbed', plan'[p].row # "gone",
                      plan'[p].next = "past", started[p] # 0
               PROVE  run'[LoopOf(p)].id = p
    OBVIOUS
  <2>1. p # s  OBVIOUS
  <2>2. p \notin disturbed /\ plan[p].row # "gone" /\ plan[p].next = "past"  BY <2>1
  <2> QED BY <2>1, <2>2
<1> QED BY <1>1, <1>2

LEMMA QuietOnce ==
    ASSUME TInv, OInv, started' = started, disturbed \subseteq disturbed',
           \A l \in Loops : due'[l] \subseteq due[l],
           \A p \in Plans : /\ plan'[p].next = plan[p].next
                            /\ plan[p].row = "gone" => plan'[p].row = "gone"
                            /\ run[LoopOf(p)].id = p => run'[LoopOf(p)].id = p
    PROVE  OInv'
<1> USE DEF OInv, ListInv, PastInv, OncePerOccurrence
<1>1. ListInv' /\ OncePerOccurrence'  BY LoopsAt
<1>2. PastInv'
  <2> SUFFICES ASSUME NEW p \in Plans, p \notin disturbed', plan'[p].row # "gone",
                      plan'[p].next = "past", started[p] # 0
               PROVE  run'[LoopOf(p)].id = p
    OBVIOUS
  <2>1. p \notin disturbed /\ plan[p].row # "gone" /\ plan[p].next = "past"  OBVIOUS
  <2> QED BY <2>1
<1> QED BY <1>1, <1>2

LEMMA StatusAt ==
    ASSUME PlanT, NEW p \in Plans, NEW n \in {"future", "past"}, plan' = update_cron_status(p, n)
    PROVE  /\ \A q \in Plans \ {p} : plan'[q] = plan[q]
           /\ plan'[p].row = "gone" \/ plan'[p].next = n
           /\ plan[p].row = "gone" => plan' = plan
           /\ plan'[p].row = plan[p].row
           /\ plan' # plan => plan'[p] # plan[p]
<1>1. plan[p] \in [row : {"on", "off", "gone"}, next : {"future", "past"}]  BY DEF PlanT
<1>2. CASE plan[p].row = "gone"
  BY <1>2 DEF update_cron_status
<1>3. CASE plan[p].row # "gone"
  <2>1. plan' = [plan EXCEPT ![p] = [plan[p] EXCEPT !.next = n]]
    BY <1>3 DEF update_cron_status, PlanT
  <2>2. /\ [plan[p] EXCEPT !.next = n].next = n
        /\ [plan[p] EXCEPT !.next = n].row = plan[p].row
    BY <1>1
  <2> QED BY <1>3, <2>1, <2>2 DEF PlanT
<1> QED BY <1>2, <1>3

\* A task r goes on or stops: it leaves the other loops where they are.
LEMMA OthersStay ==
    ASSUME TInv, NEW r \in Runners, NEW x, run' = [run EXCEPT ![r] = x]
    PROVE  \A p \in Plans : run[LoopOf(p)].id = p
              => run'[LoopOf(p)].id = p \/ (run[r].id = p /\ r = LoopOf(p) /\ run'[r] = x)
  BY LoopsAt DEF TInv, RunsT

LEMMA StepsOnce == ASSUME TInv, OInv, NEW r \in Runners, Steps(r) PROVE OInv'
<1>0. RunsT /\ PlanT /\ run[r] \in RunRec
  BY Places DEF TInv
<1>1. ASSUME NEW l, Go(r, l), UNCHANGED <<plan, due, passes>> PROVE OInv'
  <2>1. [run[r] EXCEPT !.pc = l].id = run[r].id  BY <1>0 DEF RunRec
  <2>2. run' = [run EXCEPT ![r] = [run[r] EXCEPT !.pc = l]]  BY <1>0, <1>1 DEF Go, RunsT
  <2>3. \A p \in Plans : run[LoopOf(p)].id = p => run'[LoopOf(p)].id = p
    BY <2>1, <2>2, OthersStay
  <2> QED BY <1>1, <2>3, QuietOnce DEF passes
<1>2. CASE Exec(r)
  BY <1>1, <1>2 DEF Exec
<1>3. CASE Check(r)
  <2>1. PICK l \in {"launch", "end"} : Go(r, l)  BY <1>3 DEF Check
  <2> QED BY <1>1, <1>3, <2>1 DEF Check
<1>4. CASE Launch(r)
  BY <1>1, <1>4 DEF Launch
<1>5. CASE Turn(r) \/ Finish(r)
  <2>1. PICK l \in {"finish", "end"} : Go(r, l)  BY <1>5 DEF Turn, Finish
  <2> QED BY <1>1, <1>5, <2>1 DEF Turn, Finish
<1>6. CASE Observe(r)
  <2>1. r \in Slots  BY <1>0, <1>6, Places DEF Observe
  <2>2. \A p \in Plans : run'[LoopOf(p)] = run[LoopOf(p)]
    BY <1>0, <1>6, <2>1, LoopsAt DEF Observe, RunsT
  <2> QED BY <1>6, <2>2, QuietOnce DEF Observe, passes
<1>7. CASE EndCommand(r)
  <2>1. run[r].id \in Plans  BY <1>0, <1>7, Places, Names DEF EndCommand
  <2>2. /\ \A q \in Plans \ {run[r].id} : plan'[q] = plan[q]
        /\ plan'[run[r].id].row = "gone" \/ plan'[run[r].id].next = "future"
    BY <1>0, <1>7, <2>1, StatusAt DEF EndCommand
  <2>3. \A q \in Plans \ {run[r].id} : run[LoopOf(q)].id = q => run'[LoopOf(q)].id = q
    BY <1>7, OthersStay DEF EndCommand, Stop
  <2> QED BY <1>7, <2>1, <2>2, <2>3, RestOnce DEF EndCommand, passes
<1>8. CASE FailCron(r)
  <2>1. run[r].id \in Plans  BY <1>0, <1>8, Places, Names DEF FailCron
  <2>2. \A q \in Plans \ {run[r].id} : run[LoopOf(q)].id = q => run'[LoopOf(q)].id = q
    BY <1>8, OthersStay DEF FailCron, Stop
  <2> QED BY <1>8, <2>1, <2>2, RestOnce DEF FailCron, Disturb
<1>9. CASE EndRoutine(r)
  <2>1. r \in Slots /\ run[r].id \in Plans
    BY <1>0, <1>9, Places, Names DEF EndRoutine, Gated
  <2>2. \A q \in Plans : run'[LoopOf(q)] = run[LoopOf(q)]
    BY <1>0, <1>9, <2>1, LoopsAt DEF EndRoutine, Stop, RunsT
  <2>3. CASE UNCHANGED <<plan, disturbed>>
    BY <1>9, <2>2, <2>3, QuietOnce DEF EndRoutine
  <2>4. CASE /\ plan' = update_cron_status(run[r].id, run[r].next)
             /\ disturbed' = IF plan'[run[r].id] = plan[run[r].id] THEN disturbed
                             ELSE disturbed \cup {run[r].id}
    <3>1. run[r].next \in {"future", "past"}  BY <1>0 DEF RunRec
    <3>2. /\ \A q \in Plans \ {run[r].id} : plan'[q] = plan[q]
          /\ plan' # plan => plan'[run[r].id] # plan[run[r].id]
      BY <1>0, <2>1, <2>4, <3>1, StatusAt
    <3>3. CASE plan' = plan
      BY <1>9, <2>2, <2>4, <3>3, QuietOnce DEF EndRoutine
    <3>4. CASE plan' # plan
      BY <1>9, <2>1, <2>2, <2>4, <3>2, <3>4, RestOnce DEF EndRoutine
    <3> QED BY <3>3, <3>4
  <2> QED BY <1>9, <2>3, <2>4 DEF EndRoutine
<1>10. CASE HandOver(r)
  <2>1. run[r].id \in Plans  BY <1>0, <1>10, Places, Names DEF HandOver
  <2>2. /\ \A q \in Plans \ {run[r].id} : plan'[q] = plan[q]
        /\ plan'[run[r].id].row = "gone" \/ plan'[run[r].id].next = "future"
    BY <1>0, <1>10, <2>1, StatusAt DEF HandOver
  <2>3. PICK s \in Slots :
           run' = [q \in Runners |->
                     IF q = s THEN [Idle EXCEPT !.pc = "observe", !.id = run[r].id,
                                                !.next = "future"]
                     ELSE IF q = r THEN Idle ELSE run[q]]
    BY <1>10 DEF HandOver
  <2>4. \A q \in Plans \ {run[r].id} : run[LoopOf(q)].id = q => run'[LoopOf(q)].id = q
    BY <2>3, LoopsAt
  <2> QED BY <1>10, <2>1, <2>2, <2>4, RestOnce DEF HandOver, passes
<1> QED BY <1>2, <1>3, <1>4, <1>5, <1>6, <1>7, <1>8, <1>9, <1>10 DEF Steps

\* A loop reads its list when it has ended what it had begun.
LEMMA ListsOnce == ASSUME TInv, OInv, Lists PROVE OInv'
<1> USE DEF OInv, ListInv, PastInv, OncePerOccurrence
<1>1. PICK l \in Loops, S \in {Crons, Agents} :
         get_due(l, S) /\ \A p \in S : LoopOf(p) = l
  BY LoopsAt DEF Lists, Loops
<1>2. S \subseteq Plans  BY Names
<1>3. \A p \in Due(S) \ disturbed : started[p] = 0
  <2> TAKE p \in Due(S) \ disturbed
  <2>1. p \in Plans /\ plan[p].row = "on" /\ plan[p].next = "past" /\ LoopOf(p) = l
    BY <1>1, <1>2 DEF Due
  <2>2. run[LoopOf(p)].id # p  BY <1>1, <2>1, LoopsAt DEF get_due
  <2> QED BY <2>1, <2>2
<1>4. UNCHANGED <<started, disturbed, plan, run>> /\ due' = [due EXCEPT ![l] = Due(S)]
  BY <1>1 DEF get_due, passes
<1>5. ListInv'
  BY <1>3, <1>4 DEF TInv, DueT
<1> QED BY <1>4, <1>5

LEMMA AgentOnce == ASSUME TInv, OInv, Agent PROVE OInv'
<1> DEFINE r == "agent_cron_tick"
<1>0. RunsT /\ PlanT /\ DueT /\ r \in Runners /\ r \in Loops  BY Names DEF TInv, Loops
<1>1. CASE agent_cron_tick
  <2>1. PICK a \in due[r] :
          /\ run[r].pc = "idle" /\ due' = [due EXCEPT ![r] = @ \ {a}]
          /\ run' = [run EXCEPT ![r] = [Idle EXCEPT !.pc = "check", !.id = a, !.saw = seen]]
          /\ Began(a)
          /\ UNCHANGED <<plan, disturbed>>
    BY <1>1 DEF agent_cron_tick
  <2> DEFINE x == [Idle EXCEPT !.pc = "check", !.id = a, !.saw = seen]
  <2>2. x.id = a /\ LoopOf(a) = r  BY <1>0, <2>1, LoopsAt DEF Idle
  <2> HIDE DEF x
  <2> QED BY <1>0, <2>1, <2>2, BeginOnce DEF x
<1>2. CASE wake_project_agent
  <2>1. PICK l : Go(r, l)  BY <1>2 DEF wake_project_agent
  <2>2. run[r] \in RunRec  BY <1>0, Places
  <2>3. [run[r] EXCEPT !.pc = l].id = run[r].id  BY <2>2 DEF RunRec
  <2>4. run' = [run EXCEPT ![r] = [run[r] EXCEPT !.pc = l]]  BY <1>0, <2>1 DEF Go, RunsT
  <2>5. \A p \in Plans : run[LoopOf(p)].id = p => run'[LoopOf(p)].id = p
    BY <1>0, <2>3, <2>4, OthersStay
  <2> QED BY <1>2, <2>5, QuietOnce DEF wake_project_agent, passes
<1>3. CASE EndAgent
  <2> DEFINE a == run[r].id
  <2>1. a \in Plans  BY <1>0, <1>3, Places, Names DEF EndAgent, Gated
  <2>2. \A q \in Plans \ {a} : run[LoopOf(q)].id = q => run'[LoopOf(q)].id = q
    BY <1>0, <1>3, OthersStay DEF EndAgent, Stop
  <2>3. UNCHANGED <<due, started>> /\ disturbed \subseteq disturbed'
    BY <1>3 DEF EndAgent, Disturb
  <2>4. /\ \A q \in Plans \ {a} : plan'[q] = plan[q]
        /\ a \in disturbed' \/ plan'[a].row = "gone" \/ plan'[a].next = "future"
    BY <1>0, <1>3, <2>1, StatusAt DEF EndAgent, Disturb
  <2> QED BY <2>1, <2>2, <2>3, <2>4, RestOnce
<1> QED BY <1>1, <1>2, <1>3 DEF Agent

LEMMA UsersOnce == ASSUME TInv, OInv, Users PROVE OInv'
<1>0. RunsT /\ PlanT  BY DEF TInv
<1>1. ASSUME NEW p \in Plans, update(p) PROVE OInv'
  BY <1>0, <1>1, RestOnce DEF update, passes, PlanT
<1>2. ASSUME NEW p \in Plans, set_enabled(p) PROVE OInv'
  <2>1. plan[p] \in [row : {"on", "off", "gone"}, next : {"future", "past"}]
    BY <1>0 DEF PlanT
  <2>2. \A q \in Plans : plan'[q].next = plan[q].next
                         /\ (plan[q].row = "gone" => plan'[q].row = "gone")
    BY <1>0, <1>2, <2>1 DEF set_enabled, PlanT
  <2> QED BY <1>2, <2>2, QuietOnce DEF set_enabled, passes
<1>3. ASSUME NEW c \in Crons, delete(c) PROVE OInv'
  BY <1>0, <1>3, Names, RestOnce DEF delete, passes, PlanT
<1>4. ASSUME NEW c \in Crons, NEW s \in Slots, run_now(s, c) PROVE OInv'
  <2>1. \A q \in Plans : run'[LoopOf(q)] = run[LoopOf(q)]
    BY <1>0, <1>4, LoopsAt DEF run_now, RunsT
  <2> QED BY <1>4, <2>1, QuietOnce DEF run_now, passes
<1> QED BY <1>1, <1>2, <1>3, <1>4 DEF Users

LEMMA OStep == ASSUME TInv, OInv, [Next]_vars PROVE OInv'
<1>1. CASE run_cron
  <2>1. PICK c \in due["tick"] :
          /\ run["tick"].pc = "idle" /\ due' = [due EXCEPT !["tick"] = @ \ {c}]
          /\ run' = [run EXCEPT !["tick"] = [Idle EXCEPT !.pc = "begun", !.id = c]]
          /\ Began(c)
          /\ UNCHANGED <<plan, disturbed>>
    BY <1>1 DEF run_cron
  <2> DEFINE x == [Idle EXCEPT !.pc = "begun", !.id = c]
  <2>2. x.id = c /\ LoopOf(c) = "tick" /\ "tick" \in Loops
    BY <2>1, LoopsAt DEF Idle, Loops
  <2> HIDE DEF x
  <2> QED BY <2>1, <2>2, BeginOnce DEF x
<1>2. CASE Crash
  <2>1. /\ UNCHANGED <<plan, started>> /\ due' = [l \in Loops |-> {}]
        /\ disturbed' = disturbed \cup {p \in Plans : \E r \in Runners : run[r].id = p}
    BY <1>2 DEF Crash
  <2>2. ListInv' /\ OncePerOccurrence'
    BY <2>1 DEF OInv, ListInv, OncePerOccurrence
  <2>3. \A p \in Plans \ disturbed' : p \notin disturbed /\ run[LoopOf(p)].id # p
    BY <2>1, LoopsAt
  <2>4. PastInv'
    BY <2>1, <2>3 DEF OInv, PastInv
  <2> QED BY <2>2, <2>4 DEF OInv
<1>3. CASE Change \/ vars' = vars \/ \E a \in Agents : Resume(a)
  <2>1. UNCHANGED <<plan, run, due, started, disturbed>>
    BY <1>3 DEF Change, vars, Resume, passes
  <2> QED BY <2>1, QuietOnce
<1> QED BY <1>1, <1>2, <1>3, PassOnce, ListsOnce, AgentOnce, StepsOnce, UsersOnce DEF Next

\* However the lists of the two loops, the passages a routine holds until its end, the
\* user's changes and the restarts fall together, an occurrence that nothing disturbed
\* is begun once: the loop that has begun it is still at it, or has fixed the next.
THEOREM OncePerOccurrenceHolds == Spec => []OncePerOccurrence
<1>1. OInv => OncePerOccurrence  BY DEF OInv
<1> QED BY <1>1, TInit, TStep, OInit, OStep, PTL DEF Spec

-----------------------------------------------------------------------------
(* No second launch on a state.                                            *)

\* While nothing blurred a key: whoever has launched it saw the state of its last
\* launch, whoever is about to launch it saw another one, and the gate knows that one.
Launched(r) == run[r].pc \in {"wake", "turn", "finish"}
SawLast  == \A r \in Runners : Launched(r) /\ run[r].id \notin blur
                                 => run[r].saw = last[run[r].id]
SawNew   == \A r \in Runners : run[r].pc = "launch" /\ run[r].id \notin blur
                                 => run[r].saw # last[run[r].id]
GateLast == \A k \in Keys \ blur : gate[k] = last[k]
GInv == SawLast /\ SawNew /\ GateLast

LEMMA GInit == Init => GInv
<1> SUFFICES ASSUME Init PROVE GInv
  OBVIOUS
<1>1. \A r \in Runners : run[r].pc = "idle"  BY DEF Init, Idle
<1> QED BY <1>1 DEF Init, GInv, SawLast, SawNew, GateLast, Launched

\* Where a task ends up when it goes on, and the others.
LEMMA GoAt ==
    ASSUME TInv, NEW r \in Runners, NEW l, Go(r, l)
    PROVE  /\ run'[r].pc = l /\ run'[r].id = run[r].id /\ run'[r].saw = run[r].saw
           /\ \A q \in Runners \ {r} : run'[q] = run[q]
<1>1. run[r] \in RunRec  BY Places DEF TInv
<1>2. run' = [run EXCEPT ![r] = [run[r] EXCEPT !.pc = l]]  BY DEF Go, TInv, RunsT
<1> QED BY <1>1, <1>2 DEF TInv, RunsT, RunRec

\* A step outside the gate: no task launches or has launched that did not before.
LEMMA OutsideGate ==
    ASSUME TInv, GInv, UNCHANGED <<gate, last, blur>>,
           \A r \in Runners :
               \/ run'[r].pc \notin {"launch", "wake", "turn", "finish"}
               \/ /\ run'[r].id = run[r].id /\ run'[r].saw = run[r].saw
                  /\ run'[r].pc = "launch" => run[r].pc = "launch"
                  /\ Launched(r)' => Launched(r)
    PROVE  GInv'
  BY DEF GInv, SawLast, SawNew, GateLast, Launched

LEMMA CheckGate == ASSUME TInv, GInv, NEW r \in Runners, Check(r) PROVE GInv'
<1> DEFINE k == run[r].id
<1>1. k \in Keys /\ run[r].saw \in States /\ run[r].pc = "check"
  BY Places DEF Check, TInv, Gated
<1>2. UNCHANGED <<gate, last>> /\ blur \subseteq blur'
  BY DEF Check
<1>3. \A q \in Runners \ {r} : run'[q] = run[q]
  BY GoAt DEF Check
<1>4. /\ run'[r].pc \in {"launch", "end"} /\ run'[r].id = k /\ run'[r].saw = run[r].saw
      /\ run'[r].pc = "launch" => k \in blur' \/ decide(gate[k], run[r].saw)
  BY GoAt DEF Check
<1>5. run'[r].pc = "launch" /\ k \notin blur' => run[r].saw # last[k]
  BY <1>1, <1>2, <1>4, Names DEF decide, GInv, GateLast
<1> QED BY <1>1, <1>2, <1>3, <1>4, <1>5 DEF GInv, SawLast, SawNew, GateLast, Launched

LEMMA LaunchGate == ASSUME TInv, GInv, NEW r \in Runners, Launch(r) PROVE GInv'
<1> DEFINE k == run[r].id
           h == run[r].saw
<1>1. k \in Keys /\ h \in States  BY Places DEF Launch, TInv, Gated
<1>2. /\ last'[k] = h /\ \A m \in Keys \ {k} : last'[m] = last[m] /\ gate'[m] = gate[m]
      /\ \A m \in Keys \ {k} : m \in blur <=> m \in blur'
      /\ k \in blur' \/ (gate'[k] = h /\ ~Beside(r, k))
  BY <1>1 DEF Launch, set_state, TInv, GateTyped
<1>3. /\ \A q \in Runners \ {r} : run'[q] = run[q]
      /\ run'[r].id = k /\ run'[r].saw = h /\ run'[r].pc \in {"turn", "wake"}
  BY GoAt DEF Launch
<1>4. \A q \in Runners \ {r} :
         run[q].pc \in {"launch", "wake", "turn", "finish"} /\ run[q].id \notin blur'
            => run[q].id \in Keys \ {k}
  BY <1>2, Places DEF Beside, TInv, Gated
<1>5. SawLast'
  BY <1>2, <1>3, <1>4 DEF GInv, SawLast, Launched
<1>6. SawNew'
  BY <1>2, <1>3, <1>4 DEF GInv, SawNew
<1>7. GateLast'
  BY <1>2 DEF GInv, GateLast
<1> QED BY <1>5, <1>6, <1>7 DEF GInv

LEMMA FinishGate == ASSUME TInv, GInv, NEW r \in Runners, Finish(r) PROVE GInv'
<1> DEFINE k == run[r].id
<1>1. k \in Keys /\ run[r].pc = "finish" /\ UNCHANGED <<last, blur>>
  BY Places DEF Finish, TInv, Gated, launches
<1>2. k \notin blur => run[r].saw = last[k]
  BY <1>1 DEF GInv, SawLast, Launched
<1>3. \A m \in Keys : gate'[m] = gate[m] \/ (m = k /\ gate'[m] = run[r].saw)
  BY <1>1 DEF Finish, set_state, TInv, GateTyped
<1>4. GateLast'
  BY <1>1, <1>2, <1>3 DEF GInv, GateLast
<1>5. run'[r].pc = "end" /\ \A q \in Runners \ {r} : run'[q] = run[q]
  BY GoAt DEF Finish
<1>6. SawLast' /\ SawNew'
  BY <1>1, <1>5 DEF GInv, SawLast, SawNew, Launched
<1> QED BY <1>4, <1>6 DEF GInv

LEMMA GStep == ASSUME TInv, GInv, [Next]_vars PROVE GInv'
<1>0. RunsT  BY DEF TInv
<1>1. ASSUME NEW r \in Runners, Steps(r) PROVE GInv'
  <2>1. CASE HandOver(r)
    <3>1. \A q \in Runners : run'[q] = run[q] \/ run'[q].pc \in {"idle", "observe"}
      BY <2>1 DEF HandOver, Idle
    <3> QED BY <2>1, <3>1, OutsideGate DEF HandOver, launches, Launched
  <2>2. CASE Exec(r)
    BY <2>2, GoAt, OutsideGate DEF Exec, launches, Launched
  <2>3. CASE EndCommand(r) \/ FailCron(r) \/ EndRoutine(r)
    <3>1. Stop(r) /\ UNCHANGED <<gate, last, blur>>
      BY <2>3 DEF EndCommand, FailCron, EndRoutine, launches
    <3>2. \A q \in Runners : run'[q] = run[q] \/ run'[q].pc = "idle"
      BY <1>0, <3>1 DEF Stop, RunsT, Idle
    <3> QED BY <3>1, <3>2, OutsideGate DEF Launched
  <2>4. CASE Observe(r)
    <3>1. run[r] \in RunRec  BY <1>0, Places
    <3>2. \A q \in Runners : run'[q] = run[q] \/ run'[q].pc = "check"
      BY <1>0, <2>4, <3>1 DEF Observe, RunsT, RunRec
    <3> QED BY <2>4, <3>2, OutsideGate DEF Observe, launches, Launched
  <2>5. CASE Turn(r)
    BY <2>5, GoAt, OutsideGate DEF Turn, Launched
  <2> QED BY <1>1, <2>1, <2>2, <2>3, <2>4, <2>5, CheckGate, LaunchGate, FinishGate DEF Steps
<1>2. CASE Agent
  <2> DEFINE r == "agent_cron_tick"
  <2>1. CASE agent_cron_tick
    <3>1. \A q \in Runners : run'[q] = run[q] \/ run'[q].pc = "check"
      BY <1>0, <2>1 DEF agent_cron_tick, RunsT, Idle
    <3> QED BY <2>1, <3>1, OutsideGate DEF agent_cron_tick, launches, Launched
  <2>2. CASE wake_project_agent
    <3>1. PICK l \in {"turn", "finish"} : Go(r, l)  BY <2>2 DEF wake_project_agent
    <3> QED BY <2>2, <3>1, GoAt, Names, OutsideGate DEF wake_project_agent, Launched
  <2>3. CASE EndAgent
    <3>1. \A q \in Runners : run'[q] = run[q] \/ run'[q].pc = "idle"
      BY <1>0, <2>3 DEF EndAgent, Stop, RunsT, Idle
    <3> QED BY <2>3, <3>1, OutsideGate DEF EndAgent, launches, Launched
  <2> QED BY <1>2, <2>1, <2>2, <2>3 DEF Agent
<1>3. ASSUME NEW p \in Plans, Pass(p) PROVE GInv'
  <2>1. \A q \in Runners : /\ run'[q].pc = run[q].pc /\ run'[q].id = run[q].id
                            /\ run'[q].saw = run[q].saw
    <3> TAKE q \in Runners
    <3>1. run[q] \in RunRec  BY <1>0, Places
    <3> QED BY <1>3, <3>1 DEF Pass, RunRec
  <2> QED BY <1>3, <2>1, OutsideGate DEF Pass, launches, Launched
<1>4. ASSUME NEW c \in Crons, NEW r \in Runners,
             run' = [run EXCEPT ![r] = [Idle EXCEPT !.pc = "begun", !.id = c]],
             UNCHANGED <<gate, launches>>
      PROVE  GInv'
  <2>1. \A q \in Runners : run'[q] = run[q] \/ run'[q].pc = "begun"
    BY <1>0, <1>4 DEF RunsT, Idle
  <2> QED BY <1>4, <2>1, OutsideGate DEF launches, Launched
<1>5. CASE run_cron
  BY <1>4, <1>5, Names, LoopsAt DEF run_cron
<1>6. CASE Users
  <2>1. CASE \E s \in Slots : \E c \in Crons : run_now(s, c)
    BY <1>4, <2>1, Names DEF run_now
  <2>2. CASE UNCHANGED <<run, gate, launches>>
    BY <2>2, OutsideGate DEF launches, Launched
  <2> QED BY <1>6, <2>1, <2>2 DEF Users, set_enabled, update, delete
<1>7. CASE Crash
  <2>1. \A q \in Runners : run'[q].pc = "idle"  BY <1>7 DEF Crash, Idle
  <2> QED BY <1>7, <2>1, OutsideGate DEF Crash
<1>8. CASE Change \/ Lists \/ vars' = vars \/ \E a \in Agents : Resume(a)
  <2>1. UNCHANGED <<run, gate, last, blur>>
    BY <1>8 DEF Change, Lists, get_due, vars, Resume, launches
  <2> QED BY <2>1, OutsideGate DEF Launched
<1> QED BY <1>1, <1>2, <1>3, <1>5, <1>6, <1>7, <1>8 DEF Next

\* What the gate promises of an unchanged state: check compares with what the last
\* launch recorded, and finish records nothing else, so that a second launch on the
\* same state needs two executions of one key at once or a failed statement.
THEOREM RepeatNeedsOverlapHolds == Spec => RepeatNeedsOverlap
<1>1. GInv => [\A r \in Runners :
                  run[r].pc = "launch" /\ run'[r].pc \in {"turn", "wake"}
                    => \/ run[r].saw # last[run[r].id]
                       \/ run[r].id \in blur]_vars
  BY DEF GInv, SawNew
<1> QED BY <1>1, TInit, TStep, GInit, GStep, PTL DEF Spec, RepeatNeedsOverlap
=============================================================================
