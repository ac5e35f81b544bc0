-------------------------- MODULE CorrectionsProofs --------------------------
(***************************************************************************)
(* Proofs about Corrections: types, what can disappear from the checkout,  *)
(* the finality of closed corrections and the bound on the turns of a      *)
(* repair, for any number of rows, verifications, writes and commits.      *)
(***************************************************************************)
EXTENDS Corrections, FiniteSetTheorems, TLAPS

VerifyRec == [pc : {"idle", "test", "judge"}, id : Ids, ok : BOOLEAN, n : Nat]
RunRec == [pc : {"idle", "work", "find", "note"}, own : SUBSET Writes, id : Ids]
JobRec ==
    {x \in [pc : {"idle", "gate", "insert", "backup", "enter", "reset", "build"},
            target : Commits \cup {NoSha}, built : Commits \cup {NoSha},
            newer : SUBSET Commits, todo : SUBSET Rows] : x.pc = "build" => x.built \in Commits}
SortRec == [pc : {"idle", "backup", "discard", "mark"}, snap : SUBSET Writes]
HandRec == [pc : {"idle", "find", "commit", "push", "conflict", "backup", "discard", "mark"},
            op : {"none", "apply", "reject", "redo"}, id : Ids,
            sha : Commits \cup {NoSha}]

\* The types, by the variables an action changes together.  A verification at
\* work has a row, a build a commit, and an application has room for its own.
RowT == rows \in [Rows -> Row] /\ retried \in [Rows -> Nat]
VerifyT == verify \in [Verifies -> {x \in VerifyRec : x.pc # "idle" => x.id \in Rows}]
AgentT ==
    /\ run \in [Agents -> RunRec]
    /\ due \in [Agents -> BOOLEAN]
    /\ writes \in 0 .. MaxWrites
FileT == /\ wd \subseteq Writes /\ ahead \subseteq Writes /\ saved \subseteq Writes
         /\ repo \subseteq Writes /\ missed \subseteq Writes /\ traced \subseteq Writes
GitT ==
    /\ tip \in Commits /\ live \in Commits /\ failed \subseteq Commits
    /\ last \in [Commits -> {"none", "active", "success", "failed", "cancelled"}]
JobT == job \in [Tasks -> JobRec]
HandT ==
    /\ hand \in HandRec
    /\ hand.pc \in {"commit", "push", "conflict"} => hand.op = "apply"
    /\ hand.pc \in {"find", "commit", "push"} /\ hand.op = "apply" => tip < MaxTip
TInv == /\ RowT /\ VerifyT /\ AgentT /\ FileT /\ GitT /\ JobT /\ HandT
        /\ sort \in SortRec /\ events \in 0 .. MaxEvents

-----------------------------------------------------------------------------
(* The types.                                                              *)

LEMMA Bounds == MaxTip \in Nat /\ MaxWrites \in Nat /\ MaxEvents \in Nat
                /\ NoRow \notin Rows /\ "repair" \in Agents
                /\ ("chat" \in Ops => "feature" \in Agents) /\ Agents \subseteq Kinds
                /\ MAX_ATTEMPTS \in Nat \ {0}
  BY CorrectionsAssumption DEF NoRow, Kinds

LEMMA EventType ==
    ASSUME events \in 0 .. MaxEvents, Event \/ NoEvent
    PROVE  events' \in 0 .. MaxEvents
<1>1. MaxEvents \in Nat  BY Bounds
<1> QED BY <1>1 DEF Event, NoEvent

LEMMA Empties ==
    /\ NoVerify \in {x \in VerifyRec : x.pc # "idle" => x.id \in Rows}
    /\ NoRun \in RunRec /\ NoJob \in JobRec /\ NoSort \in SortRec /\ NoHand \in HandRec
  BY Bounds DEF NoVerify, NoRun, NoJob, NoSort, NoHand, VerifyRec, RunRec, JobRec, SortRec,
        HandRec, Ids, NoRow, Commits, NoSha, Writes

LEMMA SetStateType ==
    ASSUME RowT, NEW r, NEW s \in OpenStates \cup ClosedStates \cup {"deploying"}
    PROVE  set_state(r, s) \in [Rows -> Row]
<1>1. CASE r \in Rows
  <2>1. rows[r] \in Row /\ (s = "testing") \in BOOLEAN  BY <1>1 DEF RowT
  <2>2. [rows[r] EXCEPT !.state = s, !.fresh = (s = "testing")] \in Row
    BY <2>1 DEF Row
  <2>3. set_state(r, s) = [rows EXCEPT ![r] = [rows[r] EXCEPT !.state = s,
                                                             !.fresh = (s = "testing")]]
    BY <1>1 DEF RowT, set_state
  <2> QED BY <2>2, <2>3 DEF RowT
<1>2. CASE r \notin Rows  BY <1>2 DEF RowT, set_state
<1> QED BY <1>1, <1>2

LEMMA InsertedType ==
    ASSUME RowT, NEW r, NEW s \in {"testing", "proposed"}, NEW k \in Kinds
    PROVE  Inserted(r, s, k) \in [Rows -> Row]
<1>1. [state |-> s, kind |-> k, fresh |-> (s = "testing"), attempts |-> 0, sha |-> NoSha] \in Row
  BY DEF Row, OpenStates, Commits
<1> QED BY <1>1 DEF RowT, Inserted

LEMMA NotedType ==
    ASSUME RowT, NEW r, NEW a \in Kinds
    PROVE  Noted(r, a) \in [Rows -> Row]
<1>1. CASE r \in Rows
  <2>1. rows[r] \in Row  BY <1>1 DEF RowT
  <2>2. [rows[r] EXCEPT !.state = IF a = "repair" THEN "testing" ELSE "proposed",
                        !.kind = a, !.fresh = (a = "repair")] \in Row
    BY <2>1 DEF Row, OpenStates
  <2> QED BY <2>2 DEF RowT, Noted
<1>2. CASE r \notin Rows  BY <1>2 DEF RowT, Noted
<1> QED BY <1>1, <1>2

LEMMA SetIfAnyType ==
    ASSUME RowT, NEW r, NEW s \in OpenStates \cup ClosedStates \cup {"deploying"},
           SetIfAny(r, s), UNCHANGED retried
    PROVE  RowT'
  BY SetStateType DEF SetIfAny, RowT

LEMMA FreeRow ==
    ASSUME FreeRows # {}
    PROVE  /\ (CHOOSE f \in FreeRows : TRUE) \in Rows
           /\ rows[CHOOSE f \in FreeRows : TRUE].state = "none"
  BY DEF FreeRows

LEMMA open_rowType ==
    ASSUME NEW r \in open_row
    PROVE  r \in Ids /\ (r # NoRow => r \in Rows /\ rows[r].state \in OpenStates)
  BY DEF open_row, OpenRows, Ids

LEMMA InitType == Init => TInv
<1> SUFFICES ASSUME Init PROVE TInv  OBVIOUS
<1>1. RowT  BY DEF Init, RowT, Row, Kinds
<1>2. VerifyT /\ AgentT /\ FileT /\ JobT /\ sort \in SortRec
  BY Empties, Bounds DEF Init, VerifyT, AgentT, FileT, JobT
<1>3. GitT /\ events \in 0 .. MaxEvents  BY Bounds DEF Init, GitT, Commits
<1>4. HandT  BY Empties DEF Init, HandT, NoHand
<1> QED BY <1>1, <1>2, <1>3, <1>4 DEF TInv

\* The turns of the agents and the verifications.
LEMMA TurnTypes ==
    ASSUME TInv, NEW a \in Agents, StartTurn(a) \/ Write(a) \/ TurnStep(a)
    PROVE  TInv'
<1> USE DEF TInv
<1>1. CASE StartTurn(a)
  <2>1. [NoRun EXCEPT !.pc = "work"] \in RunRec  BY Empties DEF RunRec
  <2>2. AgentT'  BY <1>1, <2>1 DEF StartTurn, AgentT
  <2> QED BY <1>1, <2>2
        DEF StartTurn, RowT, VerifyT, FileT, GitT, JobT, HandT, rowVars, fileVars, gitVars
<1>2. CASE Write(a)
  <2>1. writes + 1 \in Writes /\ writes' \in 0 .. MaxWrites
    BY <1>2, Bounds DEF Write, AgentT, Writes
  <2>2. FileT'  BY <1>2, <2>1 DEF Write, FileT
  <2>3. \A b \in Agents : [run[b] EXCEPT !.own = @ \cup {writes + 1}] \in RunRec
    BY <2>1 DEF AgentT, RunRec
  <2>4. run' \in [Agents -> RunRec]  BY <1>2, <2>3 DEF Write, AgentT
  <2>5. AgentT'  BY <1>2, <2>1, <2>4 DEF Write, AgentT
  <2> QED BY <1>2, <2>2, <2>5
        DEF Write, RowT, VerifyT, GitT, JobT, HandT, rowVars, gitVars
<1>3. CASE record_run(a)
  <2>1. run[a].own \cap Dirty \subseteq Writes  BY DEF AgentT, RunRec
  <2>2. [pc |-> "find", own |-> run[a].own \cap Dirty, id |-> NoRow] \in RunRec
    BY <2>1 DEF RunRec, Ids
  <2>3. AgentT'  BY <1>3, <2>2, Empties DEF record_run, AgentT
  <2>4. FileT'  BY <1>3, <2>1 DEF record_run, FileT
  <2> QED BY <1>3, <2>3, <2>4
        DEF record_run, RowT, VerifyT, GitT, JobT, HandT, rowVars, gitVars
<1>4. CASE FindOpen(a)
  <2>1. PICK r \in open_row : run' = [run EXCEPT ![a] = [pc |-> "note", own |-> {}, id |-> r]]
    BY <1>4 DEF FindOpen
  <2>2. [pc |-> "note", own |-> {}, id |-> r] \in RunRec  BY open_rowType DEF RunRec
  <2>3. AgentT'  BY <1>4, <2>1, <2>2 DEF FindOpen, AgentT
  <2> QED BY <1>4, <2>3
        DEF FindOpen, RowT, VerifyT, FileT, GitT, JobT, HandT, rowVars, fileVars, gitVars
<1>5. CASE note_proposed(a)
  <2> DEFINE r == IF run[a].id = NoRow THEN CHOOSE f \in FreeRows : TRUE ELSE run[a].id
  <2>1. r \in Rows
    BY <1>5, FreeRow DEF note_proposed, AgentT, RunRec, Ids
  <2>2. RowT'
    <3>1. a \in Kinds  BY Bounds
    <3>2. rows' \in [Rows -> Row]
      BY <1>5, <3>1, InsertedType, NotedType DEF note_proposed
    <3> QED BY <1>5, <3>2 DEF note_proposed, RowT
  <2>3. VerifyT'
    <3>1. [pc |-> "test", id |-> r, ok |-> FALSE, n |-> 0]
             \in {x \in VerifyRec : x.pc # "idle" => x.id \in Rows}
      BY <2>1 DEF VerifyRec, Ids
    <3>2. CASE a = "repair"
      <4> DEFINE v == CHOOSE f \in Verifies : verify[f].pc = "idle"
      <4>1. verify' = [verify EXCEPT ![v] = [pc |-> "test", id |-> r, ok |-> FALSE, n |-> 0]]
        BY <1>5, <3>2 DEF note_proposed
      <4> HIDE DEF v, r
      <4> QED BY <4>1, <3>1 DEF VerifyT
    <3>3. CASE a # "repair"  BY <1>5, <3>3 DEF note_proposed, VerifyT
    <3> QED BY <3>2, <3>3
  <2>4. AgentT'  BY <1>5, Empties DEF note_proposed, AgentT
  <2> QED BY <1>5, <2>2, <2>3, <2>4
        DEF note_proposed, FileT, GitT, JobT, HandT, fileVars, gitVars
<1> QED BY <1>1, <1>2, <1>3, <1>4, <1>5 DEF TurnStep

LEMMA VerifyTypes ==
    ASSUME TInv, NEW v \in Verifies, VerifyStep(v)
    PROVE  TInv'
<1> USE DEF TInv
<1> DEFINE r == verify[v].id
<1>1. CASE VerifyTest(v)
  <2>1. r \in Rows /\ rows[r] \in Row /\ rows[r].attempts + 1 \in Nat
    BY <1>1 DEF VerifyTest, VerifyT, RowT, Row
  <2>2. RowT'
    <3>1. [rows[r] EXCEPT !.attempts = rows[r].attempts + 1,
                          !.fresh = (rows[r].state = "testing")] \in Row
      BY <2>1 DEF Row
    <3>2. rows' = [rows EXCEPT ![r] = [rows[r] EXCEPT !.attempts = rows[r].attempts + 1,
                                                     !.fresh = (rows[r].state = "testing")]]
      BY <1>1, <2>1 DEF VerifyTest, RowT
    <3>3. rows' \in [Rows -> Row]
      <4> HIDE DEF r
      <4> QED BY <2>1, <3>1, <3>2 DEF RowT
    <3>4. UNCHANGED retried  BY <1>1 DEF VerifyTest
    <3> QED BY <3>3, <3>4 DEF RowT
  <2>3. PICK ok \in BOOLEAN :
          verify' = [verify EXCEPT ![v] = [@ EXCEPT !.pc = "judge", !.ok = ok,
                                                    !.n = rows[r].attempts + 1]]
    BY <1>1 DEF VerifyTest
  <2>4. [verify[v] EXCEPT !.pc = "judge", !.ok = ok, !.n = rows[r].attempts + 1]
          \in {x \in VerifyRec : x.pc # "idle" => x.id \in Rows}
    BY <2>1 DEF VerifyT, VerifyRec
  <2>5. VerifyT'  BY <2>3, <2>4 DEF VerifyT
  <2> QED BY <1>1, <2>2, <2>5
        DEF VerifyTest, AgentT, FileT, GitT, JobT, HandT, agentVars, fileVars, gitVars
<1>2. CASE VerifyJudge(v)
  <2>1. \A s \in {"proposed", "failed"} : set_state(r, s) \in [Rows -> Row]
    BY SetStateType DEF OpenStates, ClosedStates
  <2>2. RowT'
    <3>1. CASE rows' = rows /\ retried' = [retried EXCEPT ![r] = @ + 1]
      <4>1. r \in Rows /\ retried[r] + 1 \in Nat
        BY <1>2 DEF VerifyJudge, VerifyT, VerifyRec, RowT
      <4> QED BY <3>1, <4>1 DEF RowT
    <3>2. CASE /\ rows' = set_state(r, IF verify[v].ok THEN "proposed" ELSE "failed")
               /\ UNCHANGED retried
      BY <3>2, <2>1 DEF RowT
    <3> QED BY <1>2, <3>1, <3>2 DEF VerifyJudge
  <2>3. VerifyT'  BY <1>2, Empties DEF VerifyJudge, VerifyT
  <2>4. AgentT'  BY <1>2 DEF VerifyJudge, AgentT, Wake
  <2> QED BY <1>2, <2>2, <2>3, <2>4
        DEF VerifyJudge, FileT, GitT, JobT, HandT, fileVars, gitVars
<1> QED BY <1>1, <1>2 DEF VerifyStep

\* The requests of the user.
LEMMA HandTypes ==
    ASSUME TInv, HandStep \/ \E op \in Requests : Request(op)
    PROVE  TInv'
<1> USE DEF TInv
<1>1. ASSUME NEW op \in Requests, Request(op) PROVE TInv'
  <2>1. HandT'  BY <1>1, Bounds, Empties DEF Request, NoHand, HandT, HandRec, Requests, gitVars
  <2>2. events' \in 0 .. MaxEvents  BY <1>1, EventType DEF Request
  <2> QED BY <1>1, <2>1, <2>2
        DEF Request, RowT, VerifyT, AgentT, FileT, GitT, JobT, rowVars, agentVars, fileVars,
            gitVars
<1>2. CASE ensure_row
  <2>1. AfterRow \in {"commit", "backup"} /\ (AfterRow = "commit" <=> hand.op = "apply")
    BY DEF AfterRow
  <2>2. ASSUME NEW r \in Ids, hand' = [hand EXCEPT !.id = r, !.pc = AfterRow] PROVE HandT'
    BY <1>2, <2>1, <2>2 DEF HandT, HandRec, ensure_row, gitVars
  <2>3. CASE hand.op = "redo" \/ OpenRows # {}
    <3>1. HandT'  BY <1>2, <2>2, <2>3, open_rowType DEF ensure_row
    <3>2. UNCHANGED rows  BY <1>2, <2>3 DEF ensure_row
    <3> QED BY <1>2, <3>1, <3>2
          DEF ensure_row, RowT, VerifyT, AgentT, FileT, GitT, JobT, agentVars, fileVars, gitVars
  <2>4. CASE ~(hand.op = "redo" \/ OpenRows # {})
    <3> DEFINE r == CHOOSE f \in FreeRows : TRUE
    <3>1. r \in Ids  BY <1>2, <2>4, FreeRow DEF ensure_row, Ids
    <3>2. hand' = [hand EXCEPT !.id = r, !.pc = AfterRow]  BY <1>2, <2>4 DEF ensure_row
    <3>3. PICK k \in Kinds : rows' = Inserted(r, "proposed", k)
      BY <1>2, <2>4 DEF ensure_row, Kinds
    <3>4. RowT'  BY <1>2, <3>3, InsertedType DEF RowT, ensure_row
    <3>5. HandT'
      <4> HIDE DEF r
      <4> QED BY <3>1, <3>2, <2>2
    <3> QED BY <1>2, <3>4, <3>5
          DEF ensure_row, VerifyT, AgentT, FileT, GitT, JobT, agentVars, fileVars, gitVars
  <2> QED BY <2>3, <2>4
<1>3. CASE ApplyCommit
  <2>1. HandT'  BY <1>3, Empties DEF ApplyCommit, HandT, HandRec, HandGoto, NoHand, gitVars
  <2>2. FileT'  BY <1>3 DEF ApplyCommit, FileT, Dirty
  <2> QED BY <1>3, <2>1, <2>2
        DEF ApplyCommit, RowT, VerifyT, AgentT, GitT, JobT, rowVars, agentVars, gitVars
<1>4. CASE ApplyPush
  <2>1. FileT'  BY <1>4 DEF ApplyPush, FileT, Dirty
  <2>2. tip' \in Commits
    BY <1>4, Bounds DEF ApplyPush, GitT, HandT, Commits
  <2>3. HandT'
    BY <1>4, <2>2, Empties DEF ApplyPush, HandT, HandRec, HandGoto, NoHand
  <2>4. events' \in 0 .. MaxEvents  BY <1>4, EventType DEF ApplyPush
  <2> QED BY <1>4, <2>1, <2>2, <2>3, <2>4
        DEF ApplyPush, RowT, VerifyT, AgentT, GitT, JobT, rowVars, agentVars
<1>5. CASE ApplyConflict
  <2>1. RowT'  BY <1>5, SetStateType DEF ApplyConflict, RowT, OpenStates
  <2>2. HandT'  BY <1>5, Empties DEF ApplyConflict, HandT, NoHand
  <2> QED BY <1>5, <2>1, <2>2
        DEF ApplyConflict, VerifyT, AgentT, FileT, GitT, JobT, agentVars, fileVars, gitVars
<1>6. CASE ApplyMark
  <2>1. ASSUME NEW s \in {"failed", "deploying"},
               rows' = [set_state(hand.id, s) EXCEPT ![hand.id].sha = hand.sha]
        PROVE  rows' \in [Rows -> Row]
    <3>1. set_state(hand.id, s) \in [Rows -> Row]  BY SetStateType DEF ClosedStates
    <3>2. CASE hand.id \in Rows
      <4> DEFINE x == set_state(hand.id, s)
      <4>1. [x[hand.id] EXCEPT !.sha = hand.sha] \in Row
        BY <3>1, <3>2 DEF Row, HandT, HandRec
      <4> HIDE DEF x
      <4>2. [x EXCEPT ![hand.id].sha = hand.sha] \in [Rows -> Row]
        BY <3>1, <3>2, <4>1 DEF x
      <4> QED BY <2>1, <4>2 DEF x
    <3>3. CASE hand.id \notin Rows  BY <2>1, <3>1, <3>3
    <3> QED BY <3>2, <3>3
  <2>2. RowT'  BY <1>6, <2>1 DEF ApplyMark, RowT
  <2>3. [NoJob EXCEPT !.pc = "gate", !.target = hand.sha] \in JobRec
    BY Empties DEF JobRec, HandT, HandRec
  <2>4. JobT'  BY <1>6, <2>3 DEF ApplyMark, JobT
  <2>5. HandT'  BY <1>6, Empties DEF ApplyMark, HandT, NoHand
  <2> QED BY <1>6, <2>2, <2>4, <2>5
        DEF ApplyMark, VerifyT, AgentT, FileT, GitT, agentVars, gitVars
<1>7. CASE HandBackup
  <2>1. HandT'  BY <1>7, Empties DEF HandBackup, HandT, HandRec, HandGoto, NoHand, gitVars
  <2>2. FileT'  BY <1>7 DEF HandBackup, FileT, Dirty
  <2>3. events' \in 0 .. MaxEvents  BY <1>7, EventType DEF HandBackup
  <2> QED BY <1>7, <2>1, <2>2, <2>3
        DEF HandBackup, RowT, VerifyT, AgentT, GitT, JobT, rowVars, agentVars, gitVars
<1>8. CASE HandDiscard
  <2>1. HandT'  BY <1>8 DEF HandDiscard, HandT, HandRec, HandGoto, gitVars
  <2>2. FileT'  BY <1>8 DEF HandDiscard, FileT, Erase
  <2> QED BY <1>8, <2>1, <2>2
        DEF HandDiscard, RowT, VerifyT, AgentT, GitT, JobT, rowVars, agentVars, gitVars
<1>9. CASE HandMark
  <2>1. RowT'  BY <1>9, SetIfAnyType DEF HandMark, ClosedStates
  <2>2. HandT'  BY <1>9, Empties DEF HandMark, HandT, NoHand
  <2>3. AgentT'  BY <1>9 DEF HandMark, AgentT, Wake
  <2> QED BY <1>9, <2>1, <2>2, <2>3
        DEF HandMark, VerifyT, FileT, GitT, JobT, gitVars
<1> QED BY <1>1, <1>2, <1>3, <1>4, <1>5, <1>6, <1>7, <1>8, <1>9 DEF HandStep

\* The sorter and the clock.
LEMMA SortTypes ==
    ASSUME TInv, SortLook \/ SortStep \/ (\E r \in Rows : refresh_deploying(r) \/ Age(r))
    PROVE  TInv'
<1> USE DEF TInv
<1>1. CASE SortLook
  <2>1. Dirty \subseteq Writes  BY DEF FileT, Dirty
  <2>2. sort' \in SortRec  BY <1>1, <2>1, Empties DEF SortLook, SortRec
  <2>3. events' \in 0 .. MaxEvents  BY <1>1, EventType DEF SortLook
  <2> QED BY <1>1, <2>2, <2>3
        DEF SortLook, RowT, VerifyT, AgentT, FileT, GitT, JobT, HandT, rowVars, agentVars,
            fileVars, gitVars
<1>2. CASE SortBackup
  <2>1. sort' \in SortRec  BY <1>2, Empties DEF SortBackup, SortRec
  <2>2. FileT'  BY <1>2 DEF SortBackup, FileT, Dirty
  <2>3. events' \in 0 .. MaxEvents  BY <1>2, EventType DEF SortBackup
  <2> QED BY <1>2, <2>1, <2>2, <2>3
        DEF SortBackup, RowT, VerifyT, AgentT, GitT, JobT, HandT, rowVars, agentVars, gitVars
<1>3. CASE SortDiscard
  <2>1. sort' \in SortRec  BY <1>3 DEF SortDiscard, SortRec
  <2>2. FileT'  BY <1>3 DEF SortDiscard, FileT, Erase
  <2> QED BY <1>3, <2>1, <2>2
        DEF SortDiscard, RowT, VerifyT, AgentT, GitT, JobT, HandT, rowVars, agentVars, gitVars
<1>4. CASE SortMark
  <2>1. FileT'  BY <1>4 DEF SortMark, FileT
  <2>2. RowT'  BY <1>4, SetIfAnyType DEF SortMark, ClosedStates
  <2> QED BY <1>4, <2>1, <2>2, Empties
        DEF SortMark, VerifyT, AgentT, GitT, JobT, HandT, agentVars, gitVars
<1>5. ASSUME NEW r \in Rows, refresh_deploying(r) PROVE TInv'
  <2>1. RowT'  BY <1>5, SetStateType DEF refresh_deploying, RowT, ClosedStates
  <2> QED BY <1>5, <2>1
        DEF refresh_deploying, VerifyT, AgentT, FileT, GitT, JobT, HandT, agentVars, fileVars,
            gitVars
<1>6. ASSUME NEW r \in Rows, Age(r) PROVE TInv'
  <2>1. [rows[r] EXCEPT !.fresh = FALSE] \in Row  BY DEF RowT, Row
  <2>2. RowT'  BY <1>6, <2>1 DEF Age, RowT
  <2> QED BY <1>6, <2>2
        DEF Age, VerifyT, AgentT, FileT, GitT, JobT, HandT, agentVars, fileVars, gitVars
<1> QED BY <1>1, <1>2, <1>3, <1>4, <1>5, <1>6 DEF SortStep

\* What a deployment that is inserted, or that ends, does to the deployments.
LEMMA InsertsType ==
    ASSUME TInv, NEW t \in Tasks, NEW s \in Commits \cup {NoSha}, Inserts(t, s)
    PROVE  JobT' /\ last' \in [Commits -> {"none", "active", "success", "failed", "cancelled"}]
<1> USE DEF TInv
<1>1. [NoJob EXCEPT !.pc = "backup", !.target = s] \in JobRec  BY Empties DEF JobRec
<1>2. \A o \in Tasks : [job[o] EXCEPT !.newer = @ \cup ({s} \cap Commits)] \in JobRec
  BY DEF JobT, JobRec
<1>3. JobT'  BY <1>1, <1>2 DEF Inserts, JobT
<1>4. last' \in [Commits -> {"none", "active", "success", "failed", "cancelled"}]
  BY DEF Inserts, GitT
<1> QED BY <1>3, <1>4

LEMMA VerdictType ==
    ASSUME TInv, NEW ts, NEW v \in {"success", "failed", "cancelled"}
    PROVE  Verdict(ts, v) \in [Commits -> {"none", "active", "success", "failed", "cancelled"}]
  BY DEF TInv, GitT, Verdict

\* Deployments, pushes and crashes.
LEMMA JobTypes ==
    ASSUME TInv, tick \/ ForeignPush \/ Direct \/ (\E t \in Tasks : JobStep(t)) \/ Chat \/ Crash
    PROVE  TInv'
<1> USE DEF TInv
<1>1. CASE tick
  <2>1. [NoJob EXCEPT !.pc = "gate", !.target = tip] \in JobRec
    BY Empties DEF JobRec, GitT
  <2>2. JobT'  BY <1>1, <2>1 DEF tick, JobT
  <2> QED BY <1>1, <2>2
        DEF tick, RowT, VerifyT, AgentT, FileT, GitT, HandT, rowVars, agentVars, fileVars,
            gitVars
<1>2. CASE ForeignPush
  <2>1. tip' \in Commits  BY <1>2, Bounds DEF ForeignPush, GitT, Commits
  <2>2. HandT'  BY <1>2, Bounds DEF ForeignPush, HandT, GitT, Commits
  <2>3. events' \in 0 .. MaxEvents  BY <1>2, EventType DEF ForeignPush
  <2> QED BY <1>2, <2>1, <2>2, <2>3
        DEF ForeignPush, RowT, VerifyT, AgentT, FileT, GitT, JobT, rowVars, agentVars, fileVars
<1>3. CASE Direct
  <2>1. PICK s \in Commits \cup {NoSha} : Inserts("direct", s)
    BY <1>3 DEF Direct, GitT
  <2>2. events' \in 0 .. MaxEvents  BY <1>3, EventType DEF Direct
  <2> QED BY <1>3, <2>1, <2>2, InsertsType
        DEF Direct, RowT, VerifyT, AgentT, FileT, GitT, HandT, rowVars, agentVars, fileVars,
            Tasks
<1>4. CASE Chat
  <2>1. AgentT'  BY <1>4 DEF Chat, AgentT, Wake
  <2>2. events' \in 0 .. MaxEvents  BY <1>4, EventType DEF Chat
  <2> QED BY <1>4, <2>1, <2>2
        DEF Chat, RowT, VerifyT, FileT, GitT, JobT, HandT, rowVars, fileVars, gitVars
<1>5. CASE Crash
  <2>1. VerifyT'  BY <1>5, Empties DEF Crash, VerifyT
  <2>2. AgentT'  BY <1>5, Empties DEF Crash, AgentT
  <2>3. \A t \in Tasks : [job[t] EXCEPT !.pc = "backup", !.built = NoSha] \in JobRec
    BY DEF JobT, JobRec
  <2>4. JobT'  BY <1>5, <2>3, Empties DEF Crash, JobT
  <2>5. HandT'  BY <1>5, Empties DEF Crash, HandT, NoHand
  <2>6. events' \in 0 .. MaxEvents  BY <1>5, EventType DEF Crash
  <2> QED BY <1>5, <2>1, <2>2, <2>4, <2>5, <2>6, Empties
        DEF Crash, RowT, FileT, GitT, rowVars, fileVars, gitVars
<1>6. ASSUME NEW t \in Tasks, gate_deploy_on_repair(t) PROVE TInv'
  <2>1. \A S \in SUBSET Rows : [job[t] EXCEPT !.pc = "insert", !.todo = S] \in JobRec
    BY DEF JobT, JobRec
  <2>2. {r \in OpenRows : rows[r].kind = "repair"} \in SUBSET Rows  BY DEF OpenRows
  <2>3. JobT'  BY <1>6, <2>1, <2>2, Empties DEF gate_deploy_on_repair, JobT
  <2> QED BY <1>6, <2>3
        DEF gate_deploy_on_repair, RowT, VerifyT, AgentT, FileT, GitT, HandT, rowVars,
            agentVars, fileVars, gitVars
<1>7. ASSUME NEW t \in Tasks, deploy_project(t) PROVE TInv'
  <2>1. \A r \in Rows : set_state(r, "archived")[r] \in Row
    BY SetStateType DEF ClosedStates
  <2>2. RowT'  BY <1>7, <2>1 DEF deploy_project, RowT
  <2>3. job[t].target \in Commits \cup {NoSha}  BY DEF JobT, JobRec
  <2>4. Inserts(t, job[t].target)  BY <1>7 DEF deploy_project
  <2> QED BY <1>7, <2>2, <2>3, <2>4, InsertsType
        DEF deploy_project, VerifyT, AgentT, FileT, GitT, HandT, agentVars, fileVars
<1>8. ASSUME NEW t \in Tasks, backup_draft_before_reset(t) PROVE TInv'
  <2>1. FileT'  BY <1>8 DEF backup_draft_before_reset, FileT, Dirty
  <2>2. [job[t] EXCEPT !.pc = "enter"] \in JobRec  BY DEF JobT, JobRec
  <2>3. JobT'  BY <1>8, <2>2 DEF backup_draft_before_reset, JobT
  <2>4. events' \in 0 .. MaxEvents  BY <1>8, EventType DEF backup_draft_before_reset
  <2> QED BY <1>8, <2>1, <2>3, <2>4
        DEF backup_draft_before_reset, RowT, VerifyT, AgentT, GitT, HandT, rowVars, agentVars,
            gitVars
<1>9. ASSUME NEW t \in Tasks, Enter(t) PROVE TInv'
  <2>1. [job[t] EXCEPT !.pc = "reset"] \in JobRec  BY DEF JobT, JobRec
  <2>2. JobT'  BY <1>9, <2>1, Empties DEF Enter, JobT
  <2>3. GitT'  BY <1>9, VerdictType DEF Enter, GitT
  <2> QED BY <1>9, <2>2, <2>3
        DEF Enter, RowT, VerifyT, AgentT, FileT, HandT, rowVars, agentVars, fileVars
<1>10. ASSUME NEW t \in Tasks, Reset(t) PROVE TInv'
  <2>1. [job[t] EXCEPT !.pc = "build", !.built = tip] \in JobRec  BY DEF JobT, JobRec, GitT
  <2>2. job' = [job EXCEPT ![t] = [job[t] EXCEPT !.pc = "build", !.built = tip]]
    BY <1>10 DEF Reset, JobT
  <2>3. JobT'  BY <2>1, <2>2 DEF JobT
  <2>4. FileT'  BY <1>10 DEF Reset, FileT, Erase
  <2> QED BY <1>10, <2>3, <2>4
        DEF Reset, RowT, VerifyT, AgentT, GitT, HandT, rowVars, agentVars, gitVars
<1>11. ASSUME NEW t \in Tasks, Succeed(t) \/ Fail(t) PROVE TInv'
  <2>1. JobT'  BY <1>11, Empties DEF Succeed, Fail, JobT
  <2>2. AgentT'  BY <1>11 DEF Succeed, Fail, AgentT, Wake, agentVars
  <2>3. GitT' /\ UNCHANGED tip
    <3>1. CASE Succeed(t)
      <4>1. last' = Verdict({t}, "success")  BY <3>1 DEF Succeed
      <4>2. live' \in Commits  BY <3>1 DEF Succeed, JobT, JobRec
      <4> QED BY <3>1, <4>1, <4>2, VerdictType DEF Succeed, GitT
    <3>2. CASE Fail(t)
      <4>1. last' = Verdict({t}, "failed")  BY <3>2 DEF Fail
      <4> QED BY <3>2, <4>1, VerdictType DEF Fail, GitT
    <3> QED BY <1>11, <3>1, <3>2
  <2> QED BY <1>11, <2>1, <2>2, <2>3
        DEF Succeed, Fail, RowT, VerifyT, FileT, HandT, rowVars, fileVars
<1> QED BY <1>1, <1>2, <1>3, <1>4, <1>5, <1>6, <1>7, <1>8, <1>9, <1>10, <1>11 DEF JobStep

LEMMA NextTypes == TInv /\ [Next]_vars => TInv'
<1> SUFFICES ASSUME TInv, [Next]_vars PROVE TInv'  OBVIOUS
<1>1. CASE UNCHANGED vars
  BY <1>1 DEF vars, rowVars, agentVars, fileVars, gitVars, TInv, RowT, VerifyT, AgentT, FileT,
        GitT, JobT, HandT
<1>2. CASE Next
  BY <1>2, TurnTypes, VerifyTypes, HandTypes, SortTypes, JobTypes DEF Next
<1> QED BY <1>1, <1>2

LEMMA TypesHold == Spec => []TInv
  BY InitType, NextTypes, PTL DEF Spec

\* Every variable stays within its type: no row, verification, deployment or
\* request ever takes a status, a place or a commit the code does not know.
THEOREM TypeCorrect == Spec => []TypeOK
<1>1. TInv => TypeOK
  BY DEF TInv, RowT, VerifyT, AgentT, FileT, GitT, JobT, HandT, TypeOK, VerifyRec, RunRec,
        JobRec, SortRec, HandRec
<1> QED BY <1>1, TypesHold, PTL

-----------------------------------------------------------------------------
(* What disappears from the checkout.                                      *)

\* Who is about to erase the checkout has saved what it holds, except for what
\* was missed; who is about to save a list of files has all of them in it.
Covered ==
    \/ sort.pc = "discard"
    \/ hand.pc = "discard"
    \/ \E t \in Tasks : job[t].pc \in {"enter", "reset"}
DInv ==
    /\ OnlyMissedIsLost
    /\ sort.pc = "backup" => Dirty \subseteq sort.snap \cup missed
    /\ Covered => Dirty \subseteq saved \cup repo \cup missed

LEMMA DInvInit == Init => DInv
  BY DEF Init, DInv, OnlyMissedIsLost, Covered, Dirty, NoSort, NoHand, NoJob

\* A step that leaves the files alone and brings nobody to an erasure.
LEMMA DInvQuiet ==
    ASSUME DInv, UNCHANGED <<fileVars, writes>>,
           sort'.pc = "backup" => UNCHANGED sort,
           Covered' => Covered
    PROVE  DInv'
  BY DEF DInv, OnlyMissedIsLost, Dirty, fileVars

LEMMA DInvTurns ==
    ASSUME TInv, DInv, NEW a \in Agents, StartTurn(a) \/ Write(a) \/ TurnStep(a)
    PROVE  DInv'
<1>1. CASE StartTurn(a) \/ FindOpen(a) \/ note_proposed(a)
  BY <1>1, DInvQuiet DEF StartTurn, FindOpen, note_proposed, Covered, fileVars
<1>2. CASE Write(a)
  <2>1. UNCHANGED <<sort, hand, job, ahead, saved, repo>>  BY <1>2 DEF Write
  <2>2. Dirty' = Dirty \cup {writes + 1}  BY <1>2 DEF Write, Dirty
  <2>3. missed \subseteq missed' /\ (Erasing => missed' = missed \cup {writes + 1})
    BY <1>2 DEF Write
  <2>4. 1 .. writes' = 1 .. writes \cup {writes + 1}
    BY <1>2, Bounds DEF Write, TInv, AgentT
  <2>5. Covered' = Covered /\ (Covered \/ sort.pc = "backup" => Erasing)
    BY <2>1 DEF Covered, Erasing
  <2> QED BY <2>1, <2>2, <2>3, <2>4, <2>5 DEF DInv, OnlyMissedIsLost
<1>3. CASE record_run(a)
  BY <1>3 DEF record_run, DInv, OnlyMissedIsLost, Covered, Dirty
<1> QED BY <1>1, <1>2, <1>3 DEF TurnStep

LEMMA DInvHand ==
    ASSUME TInv, DInv, HandStep \/ \E op \in Requests : Request(op)
    PROVE  DInv'
<1>1. ASSUME NEW op \in Requests, Request(op) PROVE DInv'
  BY <1>1, DInvQuiet DEF Request, Covered, NoHand, fileVars, agentVars
<1>2. CASE ensure_row
  <2>1. hand'.pc \in {"commit", "backup"}
    BY <1>2 DEF ensure_row, AfterRow, TInv, HandT, HandRec
  <2> QED BY <1>2, <2>1, DInvQuiet DEF ensure_row, Covered, fileVars, agentVars
<1>3. CASE ApplyCommit
  <2>1. hand'.pc # "discard"
    BY <1>3 DEF ApplyCommit, HandGoto, NoHand, TInv, HandT, HandRec
  <2>2. Dirty' = Dirty  BY <1>3 DEF ApplyCommit, Dirty
  <2> QED BY <1>3, <2>1, <2>2
        DEF ApplyCommit, DInv, OnlyMissedIsLost, Covered, agentVars
<1>4. CASE ApplyPush
  <2>1. hand'.pc # "discard"
    <3>1. \/ hand' = NoHand \/ hand' = [hand EXCEPT !.pc = "conflict"]
          \/ \E x : hand' = [hand EXCEPT !.pc = "mark", !.sha = x]
      BY <1>4, Zenon DEF ApplyPush, HandGoto
    <3>2. ASSUME hand' = [hand EXCEPT !.pc = "conflict"] PROVE hand'.pc = "conflict"
      BY <3>2 DEF TInv, HandT, HandRec
    <3>3. ASSUME NEW x, hand' = [hand EXCEPT !.pc = "mark", !.sha = x] PROVE hand'.pc = "mark"
      BY <3>3 DEF TInv, HandT, HandRec
    <3>4. hand' = NoHand => hand'.pc = "idle"  BY DEF NoHand
    <3> QED BY <3>1, <3>2, <3>3, <3>4
  <2>2. /\ repo \subseteq repo' /\ Dirty' \subseteq Dirty
        /\ Dirty \subseteq Dirty' \cup repo'
    BY <1>4 DEF ApplyPush, Dirty
  <2>3. UNCHANGED <<saved, missed, writes, sort, job>>  BY <1>4 DEF ApplyPush, agentVars
  <2>4. Covered' => Covered  BY <2>1, <2>3 DEF Covered
  <2> QED BY <2>2, <2>3, <2>4 DEF DInv, OnlyMissedIsLost
<1>5. CASE ApplyConflict \/ ApplyMark
  <2>1. hand'.pc # "discard"  BY <1>5 DEF ApplyConflict, ApplyMark, NoHand
  <2>2. UNCHANGED <<wd, ahead, saved, repo, missed, writes, sort>>
    BY <1>5 DEF ApplyConflict, ApplyMark, agentVars, fileVars
  <2>3. \A t \in Tasks : job'[t].pc \in {"enter", "reset"} => job[t].pc \in {"enter", "reset"}
    BY <1>5 DEF ApplyConflict, ApplyMark, TInv, JobT, NoJob
  <2> QED BY <2>1, <2>2, <2>3 DEF DInv, OnlyMissedIsLost, Covered, Dirty
<1>6. CASE HandBackup
  <2>1. UNCHANGED <<wd, ahead, repo, missed, writes, sort, job>>
    BY <1>6 DEF HandBackup, agentVars
  <2>2. saved \subseteq saved' /\ (hand'.pc = "discard" => Dirty \subseteq saved')
    BY <1>6 DEF HandBackup, HandGoto, NoHand, TInv, HandT, HandRec
  <2>3. Covered' => Covered \/ hand'.pc = "discard"  BY <2>1 DEF Covered
  <2> QED BY <2>1, <2>2, <2>3 DEF DInv, OnlyMissedIsLost, Dirty
<1>7. CASE HandDiscard
  <2>1. Dirty' = {} /\ UNCHANGED <<saved, repo, missed, writes>>
    BY <1>7 DEF HandDiscard, Erase, Dirty, agentVars
  <2>2. Dirty \subseteq saved \cup repo \cup missed
    BY <1>7 DEF HandDiscard, DInv, Covered
  <2> QED BY <2>1, <2>2 DEF DInv, OnlyMissedIsLost
<1>8. CASE HandMark
  BY <1>8 DEF HandMark, NoHand, DInv, OnlyMissedIsLost, Covered, Dirty
<1> QED BY <1>1, <1>2, <1>3, <1>4, <1>5, <1>6, <1>7, <1>8 DEF HandStep

LEMMA DInvSort ==
    ASSUME TInv, DInv, SortLook \/ SortStep \/ (\E r \in Rows : refresh_deploying(r) \/ Age(r))
    PROVE  DInv'
<1>1. CASE SortLook
  <2>1. UNCHANGED <<wd, ahead, saved, repo, missed, writes, job, hand>>
    BY <1>1 DEF SortLook, agentVars, fileVars
  <2>2. sort'.pc # "discard" /\ (sort'.pc = "backup" => sort'.snap = Dirty)
    BY <1>1 DEF SortLook, NoSort
  <2> QED BY <2>1, <2>2 DEF DInv, OnlyMissedIsLost, Covered, Dirty
<1>2. CASE SortBackup
  <2>1. UNCHANGED <<wd, ahead, repo, missed, writes, job, hand>>
    BY <1>2 DEF SortBackup, agentVars
  <2>2. /\ sort'.pc # "backup" /\ saved \subseteq saved'
        /\ sort'.pc = "discard" => Dirty \subseteq saved' \cup missed
    BY <1>2 DEF SortBackup, NoSort, TInv, SortRec, DInv
  <2> QED BY <2>1, <2>2 DEF DInv, OnlyMissedIsLost, Covered, Dirty
<1>3. CASE SortDiscard
  <2>1. Dirty' = {} /\ UNCHANGED <<saved, repo, missed, writes>>
    BY <1>3 DEF SortDiscard, Erase, Dirty, agentVars
  <2>2. Dirty \subseteq saved \cup repo \cup missed
    BY <1>3 DEF SortDiscard, DInv, Covered
  <2> QED BY <2>1, <2>2 DEF DInv, OnlyMissedIsLost
<1>4. CASE SortMark
  BY <1>4 DEF SortMark, NoSort, DInv, OnlyMissedIsLost, Covered, Dirty, agentVars
<1>5. CASE \E r \in Rows : refresh_deploying(r) \/ Age(r)
  BY <1>5, DInvQuiet DEF refresh_deploying, Age, Covered, agentVars
<1> QED BY <1>1, <1>2, <1>3, <1>4, <1>5 DEF SortStep

LEMMA DInvJobs ==
    ASSUME TInv, DInv,
           \/ tick \/ ForeignPush \/ Direct \/ Chat \/ Crash
           \/ \E t \in Tasks : JobStep(t)
           \/ \E v \in Verifies : VerifyStep(v)
    PROVE  DInv'
<1> DEFINE Erases(k) == k.pc \in {"enter", "reset"}
<1>1. CASE \/ tick \/ ForeignPush \/ Direct \/ Chat \/ Crash
           \/ \E v \in Verifies : VerifyStep(v)
           \/ \E t \in Tasks : gate_deploy_on_repair(t) \/ deploy_project(t)
  <2>1. UNCHANGED <<fileVars, writes>>
    BY <1>1 DEF tick, ForeignPush, Direct, Chat, Crash, VerifyStep, VerifyTest, VerifyJudge,
          gate_deploy_on_repair, deploy_project, agentVars
  <2>2. (UNCHANGED sort \/ sort' = NoSort) /\ (UNCHANGED hand \/ hand' = NoHand)
    BY <1>1 DEF tick, ForeignPush, Direct, Chat, Crash, VerifyStep, VerifyTest, VerifyJudge,
          gate_deploy_on_repair, deploy_project
  <2>3. \A t \in Tasks : Erases(job'[t]) => Erases(job[t])
    <3>1. CASE \/ ForeignPush \/ Chat \/ \E v \in Verifies : VerifyStep(v)
      BY <3>1 DEF ForeignPush, Chat, VerifyStep, VerifyTest, VerifyJudge
    <3>2. CASE tick  BY <3>2 DEF tick, NoJob, TInv, JobT
    <3>5. CASE Crash
      <4>1. \A t \in Tasks : [job[t] EXCEPT !.pc = "backup", !.built = NoSha].pc = "backup"
        BY DEF TInv, JobT, JobRec
      <4> QED BY <3>5, <4>1 DEF Crash, NoJob
    <3>3. ASSUME NEW t \in Tasks, gate_deploy_on_repair(t)
          PROVE  \A o \in Tasks : Erases(job'[o]) => Erases(job[o])
      BY <3>3 DEF gate_deploy_on_repair, NoJob, TInv, JobT, JobRec
    <3>4. ASSUME NEW t \in Tasks, NEW s, Inserts(t, s)
          PROVE  \A o \in Tasks : Erases(job'[o]) => Erases(job[o])
      BY <3>4 DEF Inserts, NoJob, TInv, JobT, JobRec
    <3> QED BY <1>1, <3>1, <3>2, <3>5, <3>3, <3>4 DEF Direct, deploy_project, Tasks
  <2>4. Covered' => Covered  BY <2>2, <2>3 DEF Covered, NoSort, NoHand
  <2> QED BY <2>1, <2>2, <2>4, DInvQuiet DEF NoSort
<1>2. ASSUME NEW t \in Tasks, backup_draft_before_reset(t) PROVE DInv'
  <2>1. UNCHANGED <<wd, ahead, repo, writes, sort, hand>>
    BY <1>2 DEF backup_draft_before_reset, agentVars
  <2>2. saved \subseteq saved' /\ missed \subseteq missed' /\ Dirty \subseteq saved' \cup missed'
    BY <1>2 DEF backup_draft_before_reset
  <2> QED BY <2>1, <2>2 DEF DInv, OnlyMissedIsLost, Dirty
<1>3. ASSUME NEW t \in Tasks, Enter(t) PROVE DInv'
  <2>1. UNCHANGED <<fileVars, writes, sort, hand>>  BY <1>3 DEF Enter, agentVars
  <2>2. Covered  BY <1>3 DEF Enter, Covered
  <2> QED BY <2>1, <2>2, DInvQuiet
<1>4. ASSUME NEW t \in Tasks, Reset(t) PROVE DInv'
  <2>1. Dirty' = {} /\ UNCHANGED <<saved, repo, missed, writes>>
    BY <1>4 DEF Reset, Erase, Dirty, agentVars
  <2>2. Dirty \subseteq saved \cup repo \cup missed  BY <1>4 DEF Reset, DInv, Covered
  <2> QED BY <2>1, <2>2 DEF DInv, OnlyMissedIsLost
<1>5. ASSUME NEW t \in Tasks, Succeed(t) \/ Fail(t) PROVE DInv'
  <2>1. UNCHANGED <<fileVars, writes, sort, hand>>  BY <1>5 DEF Succeed, Fail, agentVars
  <2>2. \A o \in Tasks : Erases(job'[o]) => Erases(job[o])
    BY <1>5 DEF Succeed, Fail, NoJob, TInv, JobT
  <2>3. Covered' => Covered  BY <2>1, <2>2 DEF Covered
  <2> QED BY <2>1, <2>3, DInvQuiet
<1> QED BY <1>1, <1>2, <1>3, <1>4, <1>5 DEF JobStep

\* Whoever erases the checkout of a project - a deployment, the sorter, a
\* rejection, a new request - and in whatever order, a change of an agent only
\* disappears when a save missed it: it was made after the save, or the save of
\* a deployment failed (routes.rs:1509, correction.rs:788).
THEOREM OnlyMissedIsLostHolds == Spec => []OnlyMissedIsLost
<1>1. TInv /\ DInv /\ [Next]_vars => DInv'
  <2> SUFFICES ASSUME TInv, DInv, [Next]_vars PROVE DInv'  OBVIOUS
  <2>1. CASE UNCHANGED vars
    BY <2>1, DInvQuiet DEF vars, agentVars, Covered
  <2>2. CASE Next
    BY <2>2, DInvTurns, DInvHand, DInvSort, DInvJobs DEF Next
  <2> QED BY <2>1, <2>2
<1>2. DInv => OnlyMissedIsLost  BY DEF DInv
<1> QED BY <1>1, <1>2, DInvInit, TypesHold, PTL DEF Spec

-----------------------------------------------------------------------------
(* The turns a correction may ask for.                                     *)

\* The verifications that may still ask for another turn of r's agent.
Pending(r) == {v \in Verifies : verify[v].pc = "judge" /\ verify[v].id = r
                                /\ verify[v].n < MAX_ATTEMPTS}

\* Each turn asked for, or still to be asked for, has an attempt of its own
\* below the limit; a row not inserted yet has none and is not verified.
RInv ==
    \A r \in Rows :
        /\ retried[r] + Cardinality(Pending(r)) <= rows[r].attempts
        /\ retried[r] + Cardinality(Pending(r)) < MAX_ATTEMPTS
        /\ rows[r].state = "none" =>
              retried[r] = 0 /\ \A v \in Verifies : verify[v].pc # "idle" => verify[v].id # r

LEMMA PendingFinite ==
    ASSUME NEW r
    PROVE  IsFiniteSet(Pending(r)) /\ Cardinality(Pending(r)) \in Nat
<1>1. IsFiniteSet(Verifies)  BY CorrectionsAssumption
<1>2. Pending(r) \subseteq Verifies  BY DEF Pending
<1> QED BY <1>1, <1>2, FS_Subset, FS_CardinalityType

LEMMA RInvInit == Init => RInv
<1> SUFFICES ASSUME Init PROVE RInv  OBVIOUS
<1>1. \A r : Pending(r) = {}  BY DEF Init, Pending, NoVerify
<1>2. \A r : Cardinality(Pending(r)) = 0  BY <1>1, FS_EmptySet
<1>3. \A r \in Rows : retried[r] = 0 /\ rows[r].attempts = 0  BY DEF Init
<1>4. \A v \in Verifies : verify[v].pc = "idle"  BY DEF Init, NoVerify
<1>5. MAX_ATTEMPTS \in Nat \ {0}  BY Bounds
<1> QED BY <1>2, <1>3, <1>4, <1>5 DEF RInv

\* A step that counts no attempt, asks for no turn and takes no row away.
LEMMA RInvQuiet ==
    ASSUME TInv, TInv', RInv, UNCHANGED retried,
           \A v \in Verifies : \/ verify'[v] = verify[v] \/ verify'[v].pc = "idle"
                               \/ /\ verify'[v].pc = "test"
                                  /\ rows'[verify'[v].id].state # "none",
           \A r \in Rows : \/ /\ rows'[r].attempts = rows[r].attempts
                              /\ rows'[r].state = "none" => rows[r].state = "none"
                           \/ rows[r].state = "none" /\ rows'[r].state # "none"
    PROVE  RInv'
<1> SUFFICES ASSUME NEW r \in Rows
             PROVE  /\ retried'[r] + Cardinality(Pending(r)') <= rows'[r].attempts
                    /\ retried'[r] + Cardinality(Pending(r)') < MAX_ATTEMPTS
                    /\ rows'[r].state = "none" =>
                          /\ retried'[r] = 0
                          /\ \A v \in Verifies : verify'[v].pc # "idle" => verify'[v].id # r
  BY DEF RInv
<1>1. Pending(r)' \subseteq Pending(r)  BY DEF Pending
<1>2. Cardinality(Pending(r)') <= Cardinality(Pending(r)) /\ Cardinality(Pending(r)') \in Nat
  BY <1>1, PendingFinite, FS_Subset, FS_CardinalityType
<1>3. /\ retried[r] \in Nat /\ retried'[r] = retried[r] /\ Cardinality(Pending(r)) \in Nat
      /\ rows[r].attempts \in Nat /\ rows'[r].attempts \in Nat /\ MAX_ATTEMPTS \in Nat
  BY PendingFinite, Bounds DEF TInv, RowT, Row
<1>4. CASE rows[r].state = "none" /\ rows'[r].state # "none"
  <2>1. Pending(r) = {}  BY <1>4 DEF RInv, Pending
  <2>2. Cardinality(Pending(r)) = 0  BY <2>1, FS_EmptySet
  <2>3. retried[r] = 0  BY <1>4 DEF RInv
  <2>4. retried[r] + Cardinality(Pending(r)) < MAX_ATTEMPTS  BY DEF RInv
  <2> QED BY <1>2, <1>3, <1>4, <2>2, <2>3, <2>4
<1>5. CASE /\ rows'[r].attempts = rows[r].attempts
           /\ rows'[r].state = "none" => rows[r].state = "none"
  <2>1. /\ retried[r] + Cardinality(Pending(r)) <= rows[r].attempts
        /\ retried[r] + Cardinality(Pending(r)) < MAX_ATTEMPTS
    BY DEF RInv
  <2>2. rows'[r].state = "none" => /\ retried[r] = 0
          /\ \A v \in Verifies : verify'[v].pc # "idle" => verify'[v].id # r
    BY <1>5 DEF RInv
  <2> QED BY <1>2, <1>3, <1>5, <2>1, <2>2
<1> QED BY <1>4, <1>5

LEMMA SetStateKeeps ==
    ASSUME TInv, NEW x, NEW s \in OpenStates \cup ClosedStates \cup {"deploying"}, NEW r \in Rows
    PROVE  /\ set_state(x, s)[r].attempts = rows[r].attempts
           /\ set_state(x, s)[r].state \in {s, rows[r].state}
           /\ x # r => set_state(x, s)[r] = rows[r]
  BY DEF TInv, RowT, Row, set_state

LEMMA RInvTurns ==
    ASSUME TInv, TInv', RInv, NEW a \in Agents, StartTurn(a) \/ Write(a) \/ TurnStep(a)
    PROVE  RInv'
<1>1. CASE StartTurn(a) \/ Write(a) \/ record_run(a) \/ FindOpen(a)
  <2>1. UNCHANGED <<rows, retried, verify>>
    BY <1>1 DEF StartTurn, Write, record_run, FindOpen, rowVars
  <2> QED BY <2>1, RInvQuiet
<1>2. CASE note_proposed(a)
  <2> DEFINE x == IF run[a].id = NoRow THEN CHOOSE f \in FreeRows : TRUE ELSE run[a].id
  <2>1. x \in Rows  BY <1>2, FreeRow DEF note_proposed, TInv, AgentT, RunRec, Ids
  <2>2. /\ \A r \in Rows \ {x} : rows'[r] = rows[r]
        /\ rows'[x].state # "none"
        /\ rows[x].state = "none" \/ rows'[x].attempts = rows[x].attempts
    <3>1. CASE run[a].id = NoRow
      <4>1. rows[x].state = "none"  BY <1>2, <3>1, FreeRow DEF note_proposed
      <4>2. rows' = Inserted(x, IF a = "repair" THEN "testing" ELSE "proposed", a)
        BY <1>2, <3>1 DEF note_proposed
      <4> HIDE DEF x
      <4> QED BY <2>1, <4>1, <4>2 DEF Inserted, TInv, RowT
    <3>2. CASE run[a].id # NoRow
      <4>1. rows' = Noted(x, a)  BY <1>2, <3>2 DEF note_proposed
      <4> HIDE DEF x
      <4> QED BY <2>1, <4>1 DEF Noted, TInv, RowT, Row
    <3> QED BY <3>1, <3>2
  <2>3. \A v \in Verifies : \/ verify'[v] = verify[v]
                            \/ verify'[v].pc = "test" /\ verify'[v].id = x
    <3>1. CASE a = "repair"
      <4> DEFINE f == CHOOSE f \in Verifies : verify[f].pc = "idle"
      <4>1. verify' = [verify EXCEPT ![f] = [pc |-> "test", id |-> x, ok |-> FALSE, n |-> 0]]
        BY <1>2, <3>1 DEF note_proposed
      <4> HIDE DEF f, x
      <4> QED BY <4>1 DEF TInv, VerifyT
    <3>2. CASE a # "repair"  BY <1>2, <3>2 DEF note_proposed
    <3> QED BY <3>1, <3>2
  <2>4. UNCHANGED retried  BY <1>2 DEF note_proposed
  <2> HIDE DEF x
  <2>5. \A r \in Rows : \/ /\ rows'[r].attempts = rows[r].attempts
                           /\ rows'[r].state = "none" => rows[r].state = "none"
                        \/ rows[r].state = "none" /\ rows'[r].state # "none"
    BY <2>2
  <2>6. \A v \in Verifies : \/ verify'[v] = verify[v] \/ verify'[v].pc = "idle"
                            \/ /\ verify'[v].pc = "test"
                               /\ rows'[verify'[v].id].state # "none"
    BY <2>2, <2>3
  <2> QED BY <2>4, <2>5, <2>6, RInvQuiet
<1> QED BY <1>1, <1>2 DEF TurnStep

LEMMA RInvVerify ==
    ASSUME TInv, TInv', RInv, NEW v \in Verifies, VerifyStep(v)
    PROVE  RInv'
<1>1. verify[v].id \in Rows /\ verify[v].pc # "idle"
  BY DEF VerifyStep, VerifyTest, VerifyJudge, TInv, VerifyT
<1>2. PICK x \in Rows : x = verify[v].id  BY <1>1
<1>3. /\ verify \in [Verifies -> VerifyRec] /\ rows \in [Rows -> Row]
      /\ rows[x].attempts \in Nat /\ rows[x].state # "none"
  <2>1. verify \in [Verifies -> VerifyRec] /\ rows \in [Rows -> Row]
    BY DEF TInv, VerifyT, RowT
  <2>2. rows[x].attempts \in Nat  BY <2>1 DEF Row
  <2>3. rows[x].state # "none"  BY <1>1, <1>2 DEF RInv
  <2> QED BY <2>1, <2>2, <2>3
<1>4. \A r \in Rows : /\ retried[r] \in Nat /\ Cardinality(Pending(r)) \in Nat
                      /\ Cardinality(Pending(r)') \in Nat /\ rows[r].attempts \in Nat
  <2>1. \A r \in Rows : retried[r] \in Nat /\ rows[r].attempts \in Nat
    BY DEF TInv, RowT, Row
  <2>2. \A r : Cardinality(Pending(r)) \in Nat  BY PendingFinite
  <2>3. \A r : Cardinality(Pending(r)') \in Nat
    <3>1. SUFFICES ASSUME NEW r PROVE Cardinality(Pending(r)') \in Nat  OBVIOUS
    <3>2. IsFiniteSet(Verifies) /\ Pending(r)' \subseteq Verifies
      BY CorrectionsAssumption DEF Pending
    <3> QED BY <3>2, FS_Subset, FS_CardinalityType
  <2> QED BY <2>1, <2>2, <2>3
<1>5. MAX_ATTEMPTS \in Nat  BY Bounds
<1>6. CASE VerifyTest(v)
  <2> DEFINE n == rows[x].attempts + 1
  <2>1. PICK ok \in BOOLEAN :
          verify' = [verify EXCEPT ![v] = [@ EXCEPT !.pc = "judge", !.ok = ok, !.n = n]]
    BY <1>6, <1>2 DEF VerifyTest
  <2>2. /\ verify'[v].pc = "judge" /\ verify'[v].id = x /\ verify'[v].n = n
        /\ \A u \in Verifies \ {v} : verify'[u] = verify[u]
    BY <1>3, <1>2, <2>1 DEF VerifyRec
  <2>3. UNCHANGED retried  BY <1>6 DEF VerifyTest
  <2>4. /\ rows'[x].attempts = n /\ rows'[x].state = rows[x].state
        /\ \A r \in Rows \ {x} : rows'[r] = rows[r]
    BY <1>3, <1>6, <1>2 DEF VerifyTest, Row
  <2>5. v \notin Pending(x)  BY <1>6 DEF VerifyTest, Pending
  <2>6. \A r \in Rows \ {x} : Pending(r)' = Pending(r)
    BY <1>2, <2>2 DEF Pending
  <2>7. Pending(x)' = IF n < MAX_ATTEMPTS THEN Pending(x) \cup {v} ELSE Pending(x)
    BY <1>6, <1>2, <2>2 DEF Pending, VerifyTest
  <2>8. /\ retried[x] + Cardinality(Pending(x)) <= rows[x].attempts
        /\ retried[x] + Cardinality(Pending(x)) < MAX_ATTEMPTS
    BY <1>3 DEF RInv
  <2>9. /\ retried'[x] + Cardinality(Pending(x)') <= rows'[x].attempts
        /\ retried'[x] + Cardinality(Pending(x)') < MAX_ATTEMPTS
    <3>1. CASE n < MAX_ATTEMPTS
      <4>1. Pending(x)' = Pending(x) \cup {v}  BY <2>7, <3>1
      <4>2. Cardinality(Pending(x)') = Cardinality(Pending(x)) + 1
        BY <2>5, <4>1, PendingFinite, FS_AddElement
      <4> QED BY <1>3, <1>4, <1>5, <2>3, <2>4, <2>8, <3>1, <4>2
    <3>2. CASE ~(n < MAX_ATTEMPTS)
      <4>1. Pending(x)' = Pending(x)  BY <2>7, <3>2
      <4> QED BY <1>3, <1>4, <1>5, <2>3, <2>4, <2>8, <4>1
    <3> QED BY <3>1, <3>2
  <2> SUFFICES ASSUME NEW r \in Rows
               PROVE  /\ retried'[r] + Cardinality(Pending(r)') <= rows'[r].attempts
                      /\ retried'[r] + Cardinality(Pending(r)') < MAX_ATTEMPTS
                      /\ rows'[r].state = "none" =>
                            /\ retried'[r] = 0
                            /\ \A u \in Verifies : verify'[u].pc # "idle" => verify'[u].id # r
    BY DEF RInv
  <2>10. CASE r = x  BY <1>3, <2>4, <2>9, <2>10
  <2>11. CASE r # x
    <3>1. /\ retried'[r] = retried[r] /\ Pending(r)' = Pending(r) /\ rows'[r] = rows[r]
      BY <2>3, <2>4, <2>6, <2>11
    <3>2. \A u \in Verifies : verify'[u].id # r \/ verify'[u] = verify[u]
      BY <2>2, <2>11
    <3> QED BY <3>1, <3>2 DEF RInv
  <2> QED BY <2>10, <2>11
<1>7. CASE VerifyJudge(v)
  <2>1. verify' = [verify EXCEPT ![v] = NoVerify] /\ verify'[v].pc = "idle"
    BY <1>3, <1>7 DEF VerifyJudge, NoVerify
  <2>2. CASE UNCHANGED retried
    <3>1. \A r \in Rows : /\ rows'[r].attempts = rows[r].attempts
                          /\ rows'[r].state = "none" => rows[r].state = "none"
      <4>1. \/ rows' = rows \/ rows' = set_state(x, "proposed")
            \/ rows' = set_state(x, "failed")
        BY <1>7, <1>2 DEF VerifyJudge
      <4> QED BY <4>1, SetStateKeeps DEF OpenStates, ClosedStates
    <3> QED BY <2>1, <2>2, <3>1, RInvQuiet DEF TInv, VerifyT
  <2>3. CASE ~UNCHANGED retried
    <3>1. /\ retried' = [retried EXCEPT ![x] = @ + 1] /\ UNCHANGED rows
          /\ verify[v].n < MAX_ATTEMPTS /\ verify[v].pc = "judge"
      BY <1>7, <1>2, <2>3 DEF VerifyJudge
    <3>2. v \in Pending(x)  BY <1>2, <3>1 DEF Pending
    <3>3. \A r : Pending(r)' = Pending(r) \ {v}
      BY <1>3, <2>1 DEF Pending, NoVerify
    <3>4. \A r \in Rows \ {x} : Pending(r)' = Pending(r)  BY <1>2, <3>3 DEF Pending
    <3>5. Cardinality(Pending(x)') = Cardinality(Pending(x)) - 1
      <4>1. Pending(x)' = Pending(x) \ {v}  BY <3>3
      <4>2. IsFiniteSet(Pending(x))  BY PendingFinite
      <4> QED BY <3>2, <4>1, <4>2, FS_RemoveElement
    <3>6. retried'[x] = retried[x] + 1 /\ \A r \in Rows \ {x} : retried'[r] = retried[r]
      BY <1>3, <3>1 DEF TInv, RowT
    <3>7. \A u \in Verifies : verify'[u].pc # "idle" => verify'[u] = verify[u]
      BY <1>3, <2>1
    <3>8. /\ retried'[x] + Cardinality(Pending(x)') = retried[x] + Cardinality(Pending(x))
          /\ \A r \in Rows \ {x} :
                retried'[r] + Cardinality(Pending(r)') = retried[r] + Cardinality(Pending(r))
      BY <1>3, <1>4, <3>4, <3>5, <3>6
    <3>9. UNCHANGED rows  BY <3>1
    <3>10. \A r \in Rows : rows[r].state = "none" =>
             retried'[r] = 0 /\ \A u \in Verifies : verify'[u].pc # "idle" => verify'[u].id # r
      BY <1>3, <3>6, <3>7 DEF RInv
    <3> QED
      <4> SUFFICES ASSUME NEW r \in Rows
                   PROVE  /\ retried'[r] + Cardinality(Pending(r)') <= rows'[r].attempts
                          /\ retried'[r] + Cardinality(Pending(r)') < MAX_ATTEMPTS
        BY <3>9, <3>10 DEF RInv
      <4>1. retried'[r] + Cardinality(Pending(r)') = retried[r] + Cardinality(Pending(r))
        BY <3>8
      <4> QED BY <3>9, <4>1 DEF RInv
  <2> QED BY <2>2, <2>3
<1> QED BY <1>6, <1>7 DEF VerifyStep

LEMMA RInvOthers ==
    ASSUME TInv, TInv', RInv,
           \/ HandStep \/ SortLook \/ SortStep \/ Chat \/ tick \/ ForeignPush \/ Direct \/ Crash
           \/ \E op \in Requests : Request(op)
           \/ \E r \in Rows : refresh_deploying(r) \/ Age(r)
           \/ \E t \in Tasks : JobStep(t)
    PROVE  RInv'
<1> DEFINE Keeps ==
        \A r \in Rows : \/ /\ rows'[r].attempts = rows[r].attempts
                           /\ rows'[r].state = "none" => rows[r].state = "none"
                        \/ rows[r].state = "none" /\ rows'[r].state # "none"
<1> DEFINE Still ==
        /\ UNCHANGED retried
        /\ \A v \in Verifies : verify'[v] = verify[v] \/ verify'[v].pc = "idle"
<1>1. Still
  <2>1. CASE HandStep
    BY <2>1 DEF HandStep, ensure_row, ApplyCommit, ApplyPush, ApplyConflict, ApplyMark,
          HandBackup, HandDiscard, HandMark, rowVars
  <2>2. CASE SortLook \/ SortStep \/ Chat \/ tick \/ ForeignPush \/ Direct
    BY <2>2 DEF SortLook, SortStep, SortBackup, SortDiscard, SortMark, Chat, tick, ForeignPush,
          Direct, rowVars
  <2>3. CASE Crash  BY <2>3 DEF Crash, rowVars, NoVerify
  <2>4. CASE \/ \E op \in Requests : Request(op)
             \/ \E r \in Rows : refresh_deploying(r) \/ Age(r)
    BY <2>4 DEF Request, refresh_deploying, Age, rowVars
  <2>5. CASE \E t \in Tasks : JobStep(t)
    BY <2>5 DEF JobStep, gate_deploy_on_repair, deploy_project, backup_draft_before_reset,
          Enter, Reset, Succeed, Fail, rowVars
  <2> QED BY <2>1, <2>2, <2>3, <2>4, <2>5
<1>2. UNCHANGED rows => Keeps  OBVIOUS
<1>3. ASSUME NEW x, NEW s \in OpenStates \cup ClosedStates \cup {"deploying"},
             rows' = set_state(x, s)
      PROVE  Keeps
  BY <1>3, SetStateKeeps DEF OpenStates, ClosedStates
<1>4. ASSUME ensure_row PROVE Keeps
  <2>1. ASSUME rows' # rows PROVE Keeps
    <3> DEFINE x == CHOOSE f \in FreeRows : TRUE
    <3>1. x \in Rows /\ rows[x].state = "none"
      BY <1>4, <2>1, FreeRow DEF ensure_row
    <3>2. PICK k : rows' = Inserted(x, "proposed", k)  BY <1>4, <2>1 DEF ensure_row
    <3> HIDE DEF x
    <3>3. rows'[x].state # "none" /\ \A r \in Rows \ {x} : rows'[r] = rows[r]
      BY <3>1, <3>2 DEF Inserted, TInv, RowT
    <3> QED BY <3>1, <3>3
  <2> QED BY <1>2, <2>1
<1>5. ASSUME ApplyMark PROVE Keeps
  <2>1. PICK s \in {"failed", "deploying"} :
          rows' = [set_state(hand.id, s) EXCEPT ![hand.id].sha = hand.sha]
    BY <1>5 DEF ApplyMark
  <2>2. set_state(hand.id, s) \in [Rows -> Row]
    BY SetStateType DEF TInv, ClosedStates
  <2>3. \A r \in Rows : /\ rows'[r].attempts = set_state(hand.id, s)[r].attempts
                        /\ rows'[r].state = set_state(hand.id, s)[r].state
    BY <2>1, <2>2 DEF Row
  <2> QED BY <2>3, SetStateKeeps DEF ClosedStates
<1>6. ASSUME NEW r \in Rows, Age(r) PROVE Keeps
  BY <1>6 DEF Age, TInv, RowT, Row
<1>7. ASSUME NEW t \in Tasks, deploy_project(t) PROVE Keeps
  BY <1>7, SetStateKeeps DEF deploy_project, ClosedStates
<1>8. ASSUME ApplyConflict \/ HandMark \/ SortMark \/ \E r \in Rows : refresh_deploying(r)
      PROVE  Keeps
  BY <1>2, <1>3, <1>8
     DEF ApplyConflict, HandMark, SortMark, refresh_deploying, SetIfAny, OpenStates, ClosedStates
<1>10. Keeps
  <2>1. CASE HandStep
    BY <1>4, <1>5, <1>8, <1>2, <2>1
       DEF HandStep, ApplyCommit, ApplyPush, HandBackup, HandDiscard, rowVars
  <2>2. CASE SortLook \/ SortStep
    BY <1>8, <1>2, <2>2 DEF SortLook, SortStep, SortBackup, SortDiscard, rowVars
  <2>3. CASE Chat \/ tick \/ ForeignPush \/ Direct \/ Crash \/ \E op \in Requests : Request(op)
    BY <1>2, <2>3 DEF Chat, tick, ForeignPush, Direct, Crash, Request, rowVars
  <2>4. CASE \E r \in Rows : refresh_deploying(r) \/ Age(r)
    BY <1>6, <1>8, <2>4
  <2>5. CASE \E t \in Tasks : JobStep(t)
    BY <1>7, <1>2, <2>5
       DEF JobStep, gate_deploy_on_repair, backup_draft_before_reset, Enter, Reset, Succeed,
           Fail, rowVars
  <2> QED BY <2>1, <2>2, <2>3, <2>4, <2>5
<1> QED BY <1>1, <1>10, RInvQuiet

\* However its verifications overlap, are lost with the process, or its row is
\* completed by another turn, rejected or deployed: a correction asks for
\* another turn less than MAX_ATTEMPTS times (verify, correction.rs:411).
THEOREM RetriesBoundedHolds == Spec => []RetriesBounded
<1>1. TInv /\ TInv' /\ RInv /\ [Next]_vars => RInv'
  <2> SUFFICES ASSUME TInv, TInv', RInv, [Next]_vars PROVE RInv'  OBVIOUS
  <2>1. CASE UNCHANGED vars  BY <2>1, RInvQuiet DEF vars, rowVars
  <2>2. CASE Next
    BY <2>2, RInvTurns, RInvVerify, RInvOthers DEF Next
  <2> QED BY <2>1, <2>2
<1>2. TInv /\ RInv => RetriesBounded
  <2> SUFFICES ASSUME TInv, RInv, NEW r \in Rows PROVE retried[r] < MAX_ATTEMPTS
    BY DEF RetriesBounded
  <2>1. retried[r] \in Nat /\ Cardinality(Pending(r)) \in Nat /\ MAX_ATTEMPTS \in Nat
    BY PendingFinite, Bounds DEF TInv, RowT
  <2>2. retried[r] + Cardinality(Pending(r)) < MAX_ATTEMPTS  BY DEF RInv
  <2> QED BY <2>1, <2>2
<1> QED BY <1>1, <1>2, RInvInit, TypesHold, PTL DEF Spec

-----------------------------------------------------------------------------
(* Closed corrections.                                                     *)

\* Only a row being tested is fresh: time changes nothing in a closed one.
FInv == \A r \in Rows : rows[r].fresh => rows[r].state = "testing"

\* The ways the statements change rows.
LEMMA FInvSet ==
    ASSUME TInv, FInv, NEW x, NEW s \in OpenStates \cup ClosedStates \cup {"deploying"},
           NEW r \in Rows
    PROVE  set_state(x, s)[r].fresh => set_state(x, s)[r].state = "testing"
<1>1. rows \in [Rows -> Row] /\ rows[r] \in Row  BY DEF TInv, RowT
<1>2. CASE x = r
  <2>1. set_state(x, s)[r] = [rows[r] EXCEPT !.state = s, !.fresh = (s = "testing")]
    BY <1>1, <1>2 DEF set_state
  <2> QED BY <1>1, <2>1 DEF Row
<1>3. CASE x # r  BY <1>3, SetStateKeeps DEF FInv
<1> QED BY <1>2, <1>3

LEMMA FInvTurns ==
    ASSUME TInv, FInv, NEW a \in Agents, StartTurn(a) \/ Write(a) \/ TurnStep(a)
    PROVE  FInv'
<1>1. CASE UNCHANGED rows  BY <1>1 DEF FInv
<1>2. CASE note_proposed(a)
  <2>1. rows \in [Rows -> Row] /\ a \in Kinds  BY Bounds DEF TInv, RowT
  <2>2. ASSUME NEW x, NEW r \in Rows, rows' = Noted(x, a)
        PROVE  rows'[r].fresh => rows'[r].state = "testing"
    <3>1. CASE x # r  BY <2>1, <2>2, <3>1 DEF Noted, FInv
    <3>2. CASE x = r
      <4>1. rows'[r] = [rows[r] EXCEPT !.state = IF a = "repair" THEN "testing" ELSE "proposed",
                                       !.kind = a, !.fresh = (a = "repair")]
        BY <2>1, <2>2, <3>2 DEF Noted
      <4> QED BY <2>1, <4>1 DEF Row
    <3> QED BY <3>1, <3>2
  <2>3. ASSUME NEW x, NEW r \in Rows,
               rows' = Inserted(x, IF a = "repair" THEN "testing" ELSE "proposed", a)
        PROVE  rows'[r].fresh => rows'[r].state = "testing"
    <3>1. CASE x # r  BY <2>1, <2>3, <3>1 DEF Inserted, FInv
    <3>2. CASE x = r  BY <2>1, <2>3, <3>2 DEF Inserted
    <3> QED BY <3>1, <3>2
  <2> QED BY <1>2, <2>2, <2>3 DEF note_proposed, FInv
<1> QED BY <1>1, <1>2 DEF StartTurn, Write, TurnStep, record_run, FindOpen, rowVars

LEMMA FInvVerify ==
    ASSUME TInv, FInv, NEW v \in Verifies, VerifyStep(v)
    PROVE  FInv'
<1>1. CASE VerifyTest(v)
  <2>1. rows \in [Rows -> Row]  BY DEF TInv, RowT
  <2>2. PICK x : rows' = [rows EXCEPT ![x].attempts = rows[x].attempts + 1,
                                      ![x].fresh = (rows[x].state = "testing")]
    BY <1>1 DEF VerifyTest
  <2> SUFFICES ASSUME NEW r \in Rows PROVE rows'[r].fresh => rows'[r].state = "testing"
    BY DEF FInv
  <2>3. CASE x # r  BY <2>1, <2>2, <2>3 DEF FInv
  <2>4. CASE x = r
    <3>1. rows'[r] = [rows[r] EXCEPT !.attempts = rows[r].attempts + 1,
                                     !.fresh = (rows[r].state = "testing")]
      BY <2>1, <2>2, <2>4
    <3> QED BY <2>1, <3>1 DEF Row
  <2> QED BY <2>3, <2>4
<1>2. CASE VerifyJudge(v)
  BY <1>2, FInvSet DEF VerifyJudge, FInv, OpenStates, ClosedStates
<1> QED BY <1>1, <1>2 DEF VerifyStep

LEMMA FInvOthers ==
    ASSUME TInv, FInv,
           \/ HandStep \/ SortLook \/ SortStep \/ Chat \/ tick \/ ForeignPush \/ Direct \/ Crash
           \/ \E op \in Requests : Request(op)
           \/ \E r \in Rows : refresh_deploying(r) \/ Age(r)
           \/ \E t \in Tasks : JobStep(t)
    PROVE  FInv'
<1>1. UNCHANGED rows => FInv'  BY DEF FInv
<1>2. ASSUME NEW x, NEW s \in OpenStates \cup ClosedStates \cup {"deploying"},
             rows' = set_state(x, s)
      PROVE  FInv'
  BY <1>2, FInvSet DEF FInv
<1>3. ASSUME ensure_row PROVE FInv'
  <2>1. ASSUME NEW x, NEW k, rows' = Inserted(x, "proposed", k) PROVE FInv'
    BY <2>1 DEF Inserted, FInv, TInv, RowT
  <2> QED BY <1>1, <1>3, <2>1 DEF ensure_row
<1>4. ASSUME ApplyMark PROVE FInv'
  <2>1. PICK s \in {"failed", "deploying"} :
          rows' = [set_state(hand.id, s) EXCEPT ![hand.id].sha = hand.sha]
    BY <1>4 DEF ApplyMark
  <2>2. set_state(hand.id, s) \in [Rows -> Row]
    BY SetStateType DEF TInv, ClosedStates
  <2>3. \A r \in Rows : /\ rows'[r].fresh = set_state(hand.id, s)[r].fresh
                        /\ rows'[r].state = set_state(hand.id, s)[r].state
    BY <2>1, <2>2 DEF Row
  <2> QED BY <2>3, FInvSet DEF ClosedStates, FInv
<1>5. ASSUME NEW r \in Rows, Age(r) PROVE FInv'
  BY <1>5 DEF Age, FInv, TInv, RowT, Row
<1>6. ASSUME NEW t \in Tasks, deploy_project(t) PROVE FInv'
  BY <1>6, FInvSet DEF deploy_project, FInv, ClosedStates
<1>7. ASSUME ApplyConflict \/ HandMark \/ SortMark \/ \E r \in Rows : refresh_deploying(r)
      PROVE  FInv'
  BY <1>1, <1>2, <1>7
     DEF ApplyConflict, HandMark, SortMark, refresh_deploying, SetIfAny, OpenStates, ClosedStates
<1>8. CASE HandStep
  BY <1>1, <1>3, <1>4, <1>7, <1>8
     DEF HandStep, ApplyCommit, ApplyPush, HandBackup, HandDiscard, rowVars
<1>9. CASE SortLook \/ SortStep
  BY <1>1, <1>7, <1>9 DEF SortLook, SortStep, SortBackup, SortDiscard, rowVars
<1>10. CASE Chat \/ tick \/ ForeignPush \/ Direct \/ Crash \/ \E op \in Requests : Request(op)
  BY <1>1, <1>10 DEF Chat, tick, ForeignPush, Direct, Crash, Request, rowVars
<1>11. CASE \E r \in Rows : refresh_deploying(r) \/ Age(r)
  BY <1>5, <1>7, <1>11
<1>12. CASE \E t \in Tasks : JobStep(t)
  BY <1>1, <1>6, <1>12
     DEF JobStep, gate_deploy_on_repair, backup_draft_before_reset, Enter, Reset, Succeed,
         Fail, rowVars
<1> QED BY <1>8, <1>9, <1>10, <1>11, <1>12

\* What a step may not do to a closed row nobody holds.
Final(r) == rows'[r] = rows[r] /\ ~Held(r)'
Out(r) ==
    /\ r \in Rows /\ rows[r].state \in ClosedStates
    /\ \A v \in Verifies : verify[v].id # r
    /\ \A a \in Agents : run[a].id # r
    /\ hand.id # r
    /\ \A t \in Tasks : r \notin job[t].todo

LEMMA FinalTurns ==
    ASSUME TInv, NEW r, Out(r), NEW a \in Agents, StartTurn(a) \/ Write(a) \/ TurnStep(a)
    PROVE  Final(r)
<1>1. run \in [Agents -> RunRec] /\ r # NoRow /\ rows[r].state \notin OpenStates
      /\ rows[r].state # "none" /\ r \in Rows
  BY Bounds DEF TInv, AgentT, Out, OpenStates, ClosedStates
<1>2. CASE StartTurn(a) \/ record_run(a) \/ FindOpen(a)
  <2>1. UNCHANGED <<rows, verify, hand, job>>
    BY <1>2 DEF StartTurn, record_run, FindOpen, rowVars
  <2>2. \A o \in open_row : o # r  BY <1>1, open_rowType
  <2>3. \A b \in Agents : run'[b].id # r
    BY <1>1, <1>2, <2>2 DEF StartTurn, record_run, FindOpen, NoRun, Out, RunRec
  <2> QED BY <2>1, <2>3 DEF Final, Held, Out
<1>3. CASE Write(a)
  <2>1. UNCHANGED <<rows, verify, hand, job>>  BY <1>3 DEF Write, rowVars
  <2>2. \A b \in Agents : run'[b].id = run[b].id  BY <1>1, <1>3 DEF Write, RunRec
  <2> QED BY <2>1, <2>2 DEF Final, Held, Out
<1>4. CASE note_proposed(a)
  <2> DEFINE x == IF run[a].id = NoRow THEN CHOOSE f \in FreeRows : TRUE ELSE run[a].id
  <2>1. x # r  BY <1>1, <1>4, FreeRow DEF note_proposed, Out
  <2>2. rows'[r] = rows[r]
    <3>1. rows' = Inserted(x, IF a = "repair" THEN "testing" ELSE "proposed", a)
          \/ rows' = Noted(x, a)
      BY <1>4 DEF note_proposed
    <3> HIDE DEF x
    <3> QED BY <1>1, <2>1, <3>1 DEF Inserted, Noted, TInv, RowT
  <2>3. \A v \in Verifies : verify'[v].id # r
    <3>1. CASE a = "repair"
      <4> DEFINE f == CHOOSE f \in Verifies : verify[f].pc = "idle"
      <4>1. verify' = [verify EXCEPT ![f] = [pc |-> "test", id |-> x, ok |-> FALSE, n |-> 0]]
        BY <1>4, <3>1 DEF note_proposed
      <4> HIDE DEF f, x
      <4> QED BY <2>1, <4>1 DEF Out, TInv, VerifyT
    <3>2. CASE a # "repair"  BY <1>4, <3>2 DEF note_proposed, Out
    <3> QED BY <3>1, <3>2
  <2>4. UNCHANGED <<hand, job>> /\ \A b \in Agents : run'[b].id # r
    BY <1>1, <1>4 DEF note_proposed, NoRun, Out
  <2> HIDE DEF x
  <2> QED BY <2>2, <2>3, <2>4 DEF Final, Held, Out
<1> QED BY <1>2, <1>3, <1>4 DEF TurnStep

LEMMA FinalVerify ==
    ASSUME TInv, NEW r, Out(r), NEW v \in Verifies, VerifyStep(v)
    PROVE  Final(r)
<1>1. /\ rows \in [Rows -> Row] /\ verify \in [Verifies -> VerifyRec]
      /\ r \in Rows /\ verify[v].id # r /\ r # NoRow
  BY Bounds DEF TInv, RowT, VerifyT, Out
<1>2. UNCHANGED <<run, hand, job>>
  BY DEF VerifyStep, VerifyTest, VerifyJudge, agentVars
<1>3. rows'[r] = rows[r]
  <2>1. CASE VerifyTest(v)  BY <1>1, <2>1 DEF VerifyTest
  <2>2. CASE VerifyJudge(v)  BY <1>1, <2>2 DEF VerifyJudge, set_state
  <2> QED BY <2>1, <2>2 DEF VerifyStep
<1>4. \A u \in Verifies : verify'[u].id # r
  <2>1. CASE VerifyTest(v)
    <3>1. PICK ok \in BOOLEAN, n \in {rows[verify[v].id].attempts + 1} :
            verify' = [verify EXCEPT ![v] = [@ EXCEPT !.pc = "judge", !.ok = ok, !.n = n]]
      BY <2>1 DEF VerifyTest
    <3> QED BY <1>1, <3>1 DEF VerifyRec, Out
  <2>2. CASE VerifyJudge(v)  BY <1>1, <2>2 DEF VerifyJudge, NoVerify, Out
  <2> QED BY <2>1, <2>2 DEF VerifyStep
<1> QED BY <1>2, <1>3, <1>4 DEF Final, Held, Out

LEMMA FinalHand ==
    ASSUME TInv, NEW r, Out(r), HandStep \/ \E op \in Requests : Request(op)
    PROVE  Final(r)
<1>1. /\ rows \in [Rows -> Row] /\ hand \in HandRec /\ hand.id # r /\ r \in Rows /\ r # NoRow
      /\ rows[r].state \notin OpenStates /\ rows[r].state # "none" /\ NoHand.id # r
  BY Bounds DEF TInv, RowT, HandT, Out, OpenStates, ClosedStates, NoHand
<1>2. UNCHANGED <<verify, run>>
  BY DEF HandStep, Request, ensure_row, ApplyCommit, ApplyPush, ApplyConflict, ApplyMark,
         HandBackup, HandDiscard, HandMark, agentVars
<1>3. ASSUME ensure_row PROVE rows'[r] = rows[r] /\ hand'.id # r /\ UNCHANGED job
  <2>1. \A o \in open_row : o # r  BY <1>1, open_rowType
  <2>2. ASSUME NEW x, x # r, hand' = [hand EXCEPT !.id = x, !.pc = AfterRow] PROVE hand'.id # r
    BY <1>1, <2>2 DEF HandRec
  <2>3. CASE hand.op = "redo" \/ OpenRows # {}  BY <1>3, <2>1, <2>2, <2>3 DEF ensure_row
  <2>4. CASE ~(hand.op = "redo" \/ OpenRows # {})
    <3> DEFINE x == CHOOSE f \in FreeRows : TRUE
    <3>1. x # r  BY <1>1, <1>3, <2>4, FreeRow DEF ensure_row
    <3>2. PICK k : rows' = Inserted(x, "proposed", k)  BY <1>3, <2>4 DEF ensure_row
    <3>3. hand' = [hand EXCEPT !.id = x, !.pc = AfterRow]  BY <1>3, <2>4 DEF ensure_row
    <3> HIDE DEF x
    <3>4. rows'[r] = rows[r]  BY <1>1, <3>1, <3>2 DEF Inserted
    <3> QED BY <1>3, <2>2, <3>1, <3>3, <3>4 DEF ensure_row
  <2> QED BY <2>3, <2>4
<1>4. ASSUME ApplyMark
      PROVE  rows'[r] = rows[r] /\ hand'.id # r /\ \A t \in Tasks : r \notin job'[t].todo
  <2>1. rows'[r] = rows[r]  BY <1>1, <1>4 DEF ApplyMark, set_state
  <2>2. \A t \in Tasks : r \notin job'[t].todo
    BY <1>4 DEF ApplyMark, NoJob, TInv, JobT, Out
  <2> QED BY <1>1, <1>4, <2>1, <2>2 DEF ApplyMark
<1>5. ASSUME \/ ApplyCommit \/ ApplyPush \/ ApplyConflict \/ HandBackup \/ HandDiscard \/ HandMark
             \/ \E op \in Requests : Request(op)
      PROVE  rows'[r] = rows[r] /\ hand'.id # r /\ UNCHANGED job
  <2>1. rows'[r] = rows[r]
    <3>1. CASE ApplyConflict \/ HandMark
      BY <1>1, <3>1 DEF ApplyConflict, HandMark, SetIfAny, set_state
    <3>2. CASE ~(ApplyConflict \/ HandMark)
      BY <1>5, <3>2 DEF ApplyCommit, ApplyPush, HandBackup, HandDiscard, Request, rowVars
    <3> QED BY <3>1, <3>2
  <2>2. \/ hand' = NoHand
        \/ \E c : hand' = [hand EXCEPT !.pc = c]
        \/ \E c : hand' = [hand EXCEPT !.pc = "mark", !.sha = c]
        \/ \E op : hand' = [NoHand EXCEPT !.pc = "find", !.op = op]
    BY <1>5, Zenon DEF ApplyCommit, ApplyPush, ApplyConflict, HandBackup, HandDiscard, HandMark,
       Request, HandGoto
  <2>3. hand'.id # r
    <3>1. ASSUME NEW c, hand' = [hand EXCEPT !.pc = c] PROVE hand'.id # r
      BY <1>1, <3>1 DEF HandRec
    <3>2. ASSUME NEW c, hand' = [hand EXCEPT !.pc = "mark", !.sha = c] PROVE hand'.id # r
      BY <1>1, <3>2 DEF HandRec
    <3>3. ASSUME NEW op, hand' = [NoHand EXCEPT !.pc = "find", !.op = op] PROVE hand'.id # r
      BY <1>1, <3>3 DEF NoHand
    <3> QED BY <1>1, <2>2, <3>1, <3>2, <3>3
  <2>4. UNCHANGED job
    BY <1>5 DEF ApplyCommit, ApplyPush, ApplyConflict, HandBackup, HandDiscard, HandMark, Request
  <2> QED BY <2>1, <2>3, <2>4
<1>6. rows'[r] = rows[r] /\ hand'.id # r /\ \A t \in Tasks : r \notin job'[t].todo
  BY <1>3, <1>4, <1>5 DEF HandStep, Out
<1> QED BY <1>2, <1>6 DEF Final, Held, Out

LEMMA FinalOthers ==
    ASSUME TInv, FInv, NEW r, Out(r),
           \/ SortLook \/ SortStep \/ Chat \/ tick \/ ForeignPush \/ Direct \/ Crash
           \/ \E x \in Rows : refresh_deploying(x) \/ Age(x)
           \/ \E t \in Tasks : JobStep(t)
    PROVE  Final(r)
<1>1. /\ rows \in [Rows -> Row] /\ r \in Rows /\ r # NoRow /\ job \in [Tasks -> JobRec]
      /\ rows[r].state \notin OpenStates /\ rows[r].state # "deploying"
      /\ rows[r].state \in ClosedStates /\ rows[r].fresh # TRUE
  BY Bounds DEF TInv, RowT, JobT, Out, OpenStates, ClosedStates, FInv
<1>2. CASE SortLook \/ SortStep
  <2>1. rows'[r] = rows[r]
    <3>1. CASE SortMark
      BY <1>1, <3>1, open_rowType DEF SortMark, SetIfAny, set_state
    <3>2. CASE ~SortMark
      BY <1>2, <3>2 DEF SortLook, SortStep, SortBackup, SortDiscard, rowVars
    <3> QED BY <3>1, <3>2
  <2>2. UNCHANGED <<verify, run, hand, job>>
    BY <1>2 DEF SortLook, SortStep, SortBackup, SortDiscard, SortMark, agentVars
  <2> QED BY <2>1, <2>2 DEF Final, Held, Out
<1>3. CASE \E x \in Rows : refresh_deploying(x) \/ Age(x)
  <2>1. rows'[r] = rows[r]
    BY <1>1, <1>3 DEF refresh_deploying, Age, set_state, Row
  <2>2. UNCHANGED <<verify, run, hand, job>>
    BY <1>3 DEF refresh_deploying, Age, agentVars
  <2> QED BY <2>1, <2>2 DEF Final, Held, Out
<1>4. CASE Crash
  <2>1. UNCHANGED rows /\ hand'.id # r /\ \A v \in Verifies : verify'[v].id # r
    BY <1>1, <1>4 DEF Crash, rowVars, NoHand, NoVerify
  <2>2. \A a \in Agents : run'[a].id # r  BY <1>1, <1>4 DEF Crash, NoRun, Out
  <2>3. \A t \in Tasks : r \notin job'[t].todo
    <3>1. \A t \in Tasks : [job[t] EXCEPT !.pc = "backup", !.built = NoSha].todo = job[t].todo
      BY <1>1 DEF JobRec
    <3> QED BY <1>4, <3>1 DEF Crash, NoJob, Out
  <2> QED BY <2>1, <2>2, <2>3 DEF Final, Held
<1>5. ASSUME NEW t \in Tasks, NEW s, Inserts(t, s)
      PROVE  \A o \in Tasks : r \notin job'[o].todo
  <2>1. \A o \in Tasks : [job[o] EXCEPT !.newer = @ \cup ({s} \cap Commits)].todo = job[o].todo
    BY <1>1 DEF JobRec
  <2>2. [NoJob EXCEPT !.pc = "backup", !.target = s].todo = {}  BY DEF NoJob
  <2> QED BY <1>5, <2>1, <2>2 DEF Inserts, Out
<1>6. CASE Chat \/ tick \/ ForeignPush \/ Direct
  <2>1. UNCHANGED <<rows, verify, run, hand>>
    BY <1>6 DEF Chat, tick, ForeignPush, Direct, rowVars, agentVars
  <2>2. \A o \in Tasks : r \notin job'[o].todo
    BY <1>1, <1>5, <1>6 DEF Chat, tick, ForeignPush, Direct, NoJob, Tasks, Out
  <2> QED BY <2>1, <2>2 DEF Final, Held, Out
<1>7. ASSUME NEW t \in Tasks, deploy_project(t) PROVE Final(r)
  <2>1. rows'[r] = rows[r]  BY <1>1, <1>7 DEF deploy_project, Out
  <2>2. UNCHANGED <<verify, run, hand>>  BY <1>7 DEF deploy_project, agentVars
  <2>3. \A o \in Tasks : r \notin job'[o].todo  BY <1>5, <1>7 DEF deploy_project
  <2> QED BY <2>1, <2>2, <2>3 DEF Final, Held, Out
<1>8. ASSUME NEW t \in Tasks, gate_deploy_on_repair(t) PROVE Final(r)
  <2> DEFINE repairs == {x \in OpenRows : rows[x].kind = "repair"}
  <2>1. UNCHANGED <<rows, verify, run, hand>>
    BY <1>8 DEF gate_deploy_on_repair, rowVars, agentVars
  <2>2. r \notin repairs  BY <1>1 DEF OpenRows
  <2>3. \/ job' = [job EXCEPT ![t] = NoJob]
        \/ job' = [job EXCEPT ![t] = [@ EXCEPT !.pc = "insert", !.todo = repairs]]
    BY <1>8 DEF gate_deploy_on_repair
  <2> HIDE DEF repairs
  <2>4. [job[t] EXCEPT !.pc = "insert", !.todo = repairs].todo = repairs
    BY <1>1 DEF JobRec
  <2>5. NoJob.todo = {}  BY DEF NoJob
  <2>6. \A o \in Tasks \ {t} : job'[o] = job[o]  BY <1>1, <2>3
  <2>7. job'[t].todo \in {{}, repairs}  BY <1>1, <2>3, <2>4, <2>5
  <2>8. \A o \in Tasks : r \notin job'[o].todo  BY <2>2, <2>6, <2>7 DEF Out
  <2> QED BY <2>1, <2>8 DEF Final, Held, Out
<1>9. ASSUME NEW t \in Tasks,
             backup_draft_before_reset(t) \/ Enter(t) \/ Reset(t) \/ Succeed(t) \/ Fail(t)
      PROVE  Final(r)
  <2>1. UNCHANGED <<rows, verify, run, hand>>
    BY <1>9 DEF backup_draft_before_reset, Enter, Reset, Succeed, Fail, rowVars, agentVars
  <2>2. \A o \in Tasks : job'[o].todo \in {{}, job[o].todo}
    <3>1. CASE backup_draft_before_reset(t)
      BY <1>1, <3>1 DEF backup_draft_before_reset, JobRec
    <3>2. CASE Enter(t)
      <4>1. [job[t] EXCEPT !.pc = "reset"].todo = job[t].todo  BY <1>1 DEF JobRec
      <4> QED BY <3>2, <4>1 DEF Enter, NoJob
    <3>3. CASE Reset(t)
      <4>1. [job[t] EXCEPT !.pc = "build", !.built = tip].todo = job[t].todo  BY <1>1 DEF JobRec
      <4>2. job' = [job EXCEPT ![t] = [job[t] EXCEPT !.pc = "build", !.built = tip]]
        BY <1>1, <3>3 DEF Reset
      <4> QED BY <1>1, <4>1, <4>2
    <3>4. CASE Succeed(t) \/ Fail(t)
      BY <1>1, <3>4 DEF Succeed, Fail, NoJob
    <3> QED BY <1>9, <3>1, <3>2, <3>3, <3>4
  <2> QED BY <2>1, <2>2 DEF Final, Held, Out
<1> QED BY <1>2, <1>3, <1>4, <1>6, <1>7, <1>8, <1>9 DEF JobStep

\* A correction that is closed and that no task had read while it was open keeps
\* its verdict, whatever turns, verifications, requests, sorts, deployments and
\* restarts follow (open_row, correction.rs:151; set_state, correction.rs:163).
THEOREM ClosedStays == Spec => ClosedIsFinal
<1>1. Init => FInv  BY DEF Init, FInv
<1>2. TInv /\ FInv /\ [Next]_vars => FInv'
  <2> SUFFICES ASSUME TInv, FInv, [Next]_vars PROVE FInv'  OBVIOUS
  <2>1. CASE UNCHANGED vars  BY <2>1 DEF vars, rowVars, FInv
  <2>2. CASE Next  BY <2>2, FInvTurns, FInvVerify, FInvOthers DEF Next
  <2> QED BY <2>1, <2>2
<1>3. TInv /\ FInv /\ [Next]_vars =>
        [\A r \in Rows : rows[r].state \in ClosedStates /\ ~Held(r)
                        => rows'[r] = rows[r] /\ ~Held(r)']_vars
  <2> SUFFICES ASSUME TInv, FInv, Next,
                      NEW r \in Rows, rows[r].state \in ClosedStates, ~Held(r)
               PROVE  Final(r)
    BY DEF Final
  <2>1. Out(r)  BY DEF Held, Out
  <2> QED BY <2>1, FinalTurns, FinalVerify, FinalHand, FinalOthers DEF Next
<1> QED BY <1>1, <1>2, <1>3, TypesHold, PTL DEF Spec, ClosedIsFinal
=============================================================================
