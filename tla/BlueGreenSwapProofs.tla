------------------------- MODULE BlueGreenSwapProofs -------------------------
(***************************************************************************)
(* Proofs about BlueGreenSwap for any number of deployments, overlapping   *)
(* or not, any number of failing commands and of cancellations, and of     *)
(* commands that take effect after those who sent them were dropped.       *)
(***************************************************************************)
EXTENDS BlueGreenSwap, TLAPS

LEMMA Identities == Nobody \notin Deploys /\ 0 \notin Deploys
  BY BoundsAssumption DEF Nobody, Deploys

\* The containers the commands make.
LEMMA Containers ==
    /\ NoContainer \in Container
    /\ \A d \in Deploys, b \in BOOLEAN :
          [who |-> d, up |-> b, labelled |-> FALSE] \in Container
    /\ \A c \in Container : [c EXCEPT !.up = FALSE] \in Container
    /\ \A c \in Container : [c EXCEPT !.labelled = TRUE] \in Container
  BY DEF Container, NoContainer

\* What a drop leaves on the node, and what lands there, are of their types.
LEMMA DroppedTypes ==
    ASSUME TypeOK, NEW D \in SUBSET Deploys, Dropped(D)
    PROVE  flying' \subseteq [by : Deploys, cmd : Commands]
<1>1. \A d \in Deploys :
        CommandAt(pc[d]) # "none" => Command(d, CommandAt(pc[d])) \in [by : Deploys, cmd : Commands]
  BY DEF CommandAt, Command, Commands
<1> QED BY <1>1 DEF Dropped, TypeOK

LEMMA LandTypes ==
    ASSUME TypeOK, NEW c \in flying, Land(c)
    PROVE  prod' \in Container /\ temp' \in Container
<1>1. c.by \in Deploys /\ c.cmd \in Commands
  BY DEF TypeOK
<1>2. \A b, l \in BOOLEAN : [who |-> c.by, up |-> b, labelled |-> l] \in Container
  BY <1>1 DEF Container
<1>3. CASE c.cmd = "run"
  BY <1>2, <1>3 DEF Land, Effect, TypeOK
<1>4. CASE c.cmd # "run"
  BY <1>1, <1>2, <1>4, Containers DEF Land, Effect, Commands, TypeOK
<1> QED BY <1>3, <1>4

\* Every step keeps the types: no command leaves a container of another shape.
LEMMA TypeStep == TypeOK /\ [Next]_vars => TypeOK'
<1> SUFFICES ASSUME TypeOK, [Next]_vars PROVE TypeOK'
  OBVIOUS
<1> USE Identities, Containers DEF TypeOK, PCs, Goto, Return, Fault, Failed, NoFault,
      counters, history, Command, Commands
<1>1. ASSUME NEW d \in Deploys, Start(d) \/ AbortOfSuccessor(d) \/ TakeSlot(d) PROVE TypeOK'
  <2>1. CASE Start(d)
    <3>1. flying' \subseteq [by : Deploys, cmd : Commands]
      <4>1. PICK D \in SUBSET Deploys : Dropped(D)
        BY <2>1, Zenon DEF Start
      <4> QED BY <4>1, DroppedTypes
    <3> QED BY <2>1, <3>1 DEF Start
  <2>2. CASE AbortOfSuccessor(d)
    BY <2>2 DEF AbortOfSuccessor, Removed
  <2>3. CASE TakeSlot(d)
    BY <2>3 DEF TakeSlot
  <2> QED
    BY <1>1, <2>1, <2>2, <2>3
<1>2. ASSUME NEW d \in Deploys, SwapStep(d) PROVE TypeOK'
  <2>1. CASE Build(d) \/ StartSidecars(d)
    BY <2>1 DEF Build, StartSidecars
  <2>2. CASE InspectOld(d) \/ CleanLeftover(d)
    <3>1. CASE InspectOld(d)
      <4>1. oldExists' \in [Deploys -> BOOLEAN]
        BY <3>1, Zenon DEF InspectOld
      <4> QED
        BY <3>1, <4>1 DEF InspectOld
    <3>2. CASE CleanLeftover(d)
      BY <3>2 DEF CleanLeftover, Removed
    <3> QED
      BY <2>2, <3>1, <3>2
  <2>3. CASE RunNew(d)
    <3>1. temp' \in Container
      <4>1. temp' = temp \/ \E b \in BOOLEAN : temp' = [who |-> d, up |-> b, labelled |-> FALSE]
        BY <2>3, Zenon DEF RunNew
      <4> QED
        BY <4>1, Zenon
    <3>2. faults' \in Nat
      BY <2>3 DEF RunNew
    <3> QED
      BY <2>3, <3>1, <3>2 DEF RunNew
  <2>4. CASE WaitReady(d, "ready", "label") \/ WaitReady(d, "ready2", "stop")
    BY <2>4 DEF WaitReady
  <2>5. CASE ApplyLabels(d)
    BY <2>5 DEF ApplyLabels
  <2>6. CASE StopOld(d)
    BY <2>6 DEF StopOld
  <2>7. CASE RenameNew(d) \/ PostDeploy(d)
    BY <2>7 DEF RenameNew, PostDeploy
  <2>8. CASE DiscardNew(d)
    BY <2>8 DEF DiscardNew, Removed
  <2> QED
    BY <1>2, <2>1, <2>2, <2>3, <2>4, <2>5, <2>6, <2>7, <2>8 DEF SwapStep
<1>3. ASSUME NEW d \in Deploys, UserCancel(d) \/ UserAbort(d) \/ OwnAbort(d) PROVE TypeOK'
  <2>1. CASE UserCancel(d)
    <3>1. flying' \subseteq [by : Deploys, cmd : Commands]
      BY <2>1, DroppedTypes DEF UserCancel
    <3> QED BY <2>1, <3>1 DEF UserCancel
  <2>2. CASE UserAbort(d) \/ OwnAbort(d)
    BY <2>2 DEF UserAbort, OwnAbort, Removed
  <2> QED
    BY <1>3, <2>1, <2>2
<1>4. ASSUME NEW c \in flying, Land(c) PROVE TypeOK'
  <2>1. prod' \in Container /\ temp' \in Container
    BY <1>4, LandTypes
  <2> QED BY <1>4, <2>1 DEF Land
<1>5. CASE UNCHANGED vars
  BY <1>5 DEF vars
<1> QED
  BY <1>1, <1>2, <1>3, <1>4, <1>5 DEF Next

\* TypeOK holds in every reachable state.
THEOREM TypeCorrect == Spec => []TypeOK
<1>1. Init => TypeOK
  BY DEF Init, TypeOK, Container, NoContainer, PCs
<1> QED
  BY <1>1, TypeStep, PTL DEF Spec

----------------------------------------------------------------------------
(* A failed deployment keeps what was in production *)

\* The strengthening: a deployment at work is the holder of the node, and until it has
\* stopped the old container, production is what it found, or was changed under it.
SwapInv == \A d \in Deploys :
    InSlot(d) => /\ slot = d
                 /\ pc[d] \notin {"rename", "post"} /\ d \notin struck => prod = before[d]

LEMMA SwapInvStep == TypeOK /\ SwapInv /\ [Next]_vars => SwapInv'
<1> SUFFICES ASSUME TypeOK, SwapInv, [Next]_vars PROVE SwapInv'
  OBVIOUS
<1> USE Identities DEF SwapInv, InSlot, TypeOK, Goto, Return, counters, history
<1>1. ASSUME NEW d \in Deploys, Start(d) PROVE SwapInv'
  BY <1>1 DEF Start
<1>2. ASSUME NEW d \in Deploys, TakeSlot(d) PROVE SwapInv'
  BY <1>2 DEF TakeSlot
<1>3. ASSUME NEW d \in Deploys, StopOld(d) PROVE SwapInv'
  BY <1>3 DEF StopOld
<1>4. ASSUME NEW d \in Deploys, RenameNew(d) \/ PostDeploy(d) PROVE SwapInv'
  BY <1>4 DEF RenameNew, PostDeploy
<1>5. ASSUME NEW d \in Deploys,
             Build(d) \/ InspectOld(d) \/ CleanLeftover(d) \/ StartSidecars(d) \/ RunNew(d)
             \/ DiscardNew(d)
      PROVE  SwapInv'
  BY <1>5 DEF Build, InspectOld, CleanLeftover, StartSidecars, RunNew, DiscardNew
<1>6. ASSUME NEW d \in Deploys,
             WaitReady(d, "ready", "label") \/ ApplyLabels(d) \/ WaitReady(d, "ready2", "stop")
      PROVE  SwapInv'
  BY <1>6 DEF WaitReady, ApplyLabels
<1>7. ASSUME NEW d \in Deploys,
             AbortOfSuccessor(d) \/ UserCancel(d) \/ UserAbort(d) \/ OwnAbort(d)
      PROVE  SwapInv'
  BY <1>7 DEF AbortOfSuccessor, UserCancel, UserAbort, OwnAbort
<1>8. ASSUME NEW c \in flying, Land(c) PROVE SwapInv'
  <2>1. prod' # prod => slot \in struck' \cup {Nobody}
    BY <1>8 DEF Land
  <2>2. struck \subseteq struck'
    BY <1>8 DEF Land
  <2> QED BY <1>8, <2>1, <2>2 DEF Land
<1>9. CASE UNCHANGED vars
  BY <1>9 DEF vars
<1> QED
  BY <1>1, <1>2, <1>3, <1>4, <1>5, <1>6, <1>7, <1>8, <1>9 DEF Next, SwapStep

\* docker_restart_container: a deployment that returns a failure leaves in production
\* exactly the container it found when it took the node, unless a command of an earlier
\* deployment changed it meanwhile.
THEOREM FailureKeepsProduction == Spec => FailureKeepsOld
<1>1. Init => SwapInv
  BY DEF Init, SwapInv, InSlot
<1>2. TypeOK /\ SwapInv /\ [Next]_vars =>
        [\A d \in Deploys :
           result[d] = "none" /\ result'[d] = "failed" /\ d \notin struck
           => prod' = before[d]]_vars
  <2> SUFFICES ASSUME TypeOK, SwapInv, [Next]_vars, NEW d \in Deploys,
                      result[d] = "none", result'[d] = "failed", d \notin struck
               PROVE  prod' = before[d]
    OBVIOUS
  <2>1. PICK e \in Deploys :
          \/ Start(e) \/ AbortOfSuccessor(e) \/ TakeSlot(e) \/ SwapStep(e)
          \/ UserCancel(e) \/ UserAbort(e) \/ OwnAbort(e)
    BY DEF Next, vars, Land
  <2> USE DEF TypeOK, Goto, Return
  <2>2. CASE Start(e) \/ AbortOfSuccessor(e) \/ TakeSlot(e) \/ UserCancel(e)
             \/ UserAbort(e) \/ OwnAbort(e)
    BY <2>2 DEF Start, AbortOfSuccessor, TakeSlot, UserCancel, UserAbort, OwnAbort
  <2>3. CASE SwapStep(e)
    <3>1. e = d /\ prod' = prod /\ pc[d] \in {"build", "sidecars", "run", "discard"}
      BY <2>3 DEF SwapStep, Build, InspectOld, CleanLeftover, StartSidecars, RunNew,
         WaitReady, ApplyLabels, StopOld, RenameNew, PostDeploy, DiscardNew
    <3> QED
      BY <3>1 DEF SwapInv, InSlot
  <2> QED
    BY <2>1, <2>2, <2>3
<1> QED
  BY <1>1, <1>2, TypeCorrect, SwapInvStep, PTL DEF Spec, FailureKeepsOld

----------------------------------------------------------------------------
(* Cleaning up: nothing of a deployment is left when commands succeed      *)

AtWork   == {"clean", "sidecars", "run", "ready", "label", "ready2", "stop"}
OwnsTemp == {"ready", "label", "ready2", "stop", "rename", "discard", "abort"}

\* While every command did what it was asked: the temporary container belongs to a
\* deployment that will still rename or remove it.  That it is renamed in the end needs
\* what the inspection said of the old container to be true until that one is stopped.
CleanInv ==
    faults = 0 => \A d \in Deploys : d \notin struck =>
        /\ temp.who = d => pc[d] \in OwnsTemp
        /\ pc[d] \in AtWork => oldExists[d] = (prod # NoContainer)
        /\ pc[d] = "rename" => prod = NoContainer

\* While commands succeed, what is in flight was sent by a cancelled deployment.
FlyInv == \A c \in flying :
    faults = 0 => pc[c.by] \in {"abort", "done"} /\ result[c.by] = "cancelled"

LEMMA FlyStep == TypeOK /\ FlyInv /\ [Next]_vars => FlyInv'
<1> SUFFICES ASSUME TypeOK, FlyInv, [Next]_vars, faults' = 0 PROVE FlyInv'
  BY DEF FlyInv
<1>0. \A c \in flying : c.by \in Deploys
  BY DEF TypeOK
<1> USE DEF TypeOK, Goto, Return, Fault, Failed, NoFault, counters, history
<1>1. ASSUME NEW d \in Deploys, Start(d) PROVE FlyInv'
  <2>1. PICK D \in SUBSET Deploys :
          /\ D = {e \in Deploys : InSlot(e) \/ pc[e] = "wait"}
          /\ Dropped(D)
          /\ \A e \in D : pc'[e] = "abort" /\ result'[e] = "cancelled"
          /\ \A e \in Deploys \ (D \cup {d}) : pc'[e] = pc[e] /\ result'[e] = result[e]
    BY <1>1 DEF Start
  <2>2. faults = 0 /\ \A c \in flying' : c \in flying \/ c.by \in D
    BY <1>1, <2>1 DEF Start, Dropped, Command
  <2>3. \A c \in flying : c.by \notin D /\ c.by # d
    BY <1>0, <1>1, <2>1, <2>2 DEF FlyInv, InSlot, Start
  <2> QED BY <1>0, <2>1, <2>2, <2>3 DEF FlyInv
<1>2. ASSUME NEW d \in Deploys, UserCancel(d) PROVE FlyInv'
  <2>1. faults = 0 /\ \A c \in flying' : c \in flying \/ c.by = d
    BY <1>2 DEF UserCancel, Dropped, Command
  <2>2. pc'[d] = "abort" /\ result'[d] = "cancelled"
        /\ \A e \in Deploys \ {d} : pc'[e] = pc[e] /\ result'[e] = result[e]
    BY <1>2 DEF UserCancel
  <2> QED BY <1>0, <2>1, <2>2 DEF FlyInv
<1>3. ASSUME NEW d \in Deploys,
             AbortOfSuccessor(d) \/ TakeSlot(d) \/ UserAbort(d) \/ OwnAbort(d) \/ SwapStep(d)
      PROVE  FlyInv'
  <2>1. /\ faults = 0 /\ flying' = flying
        /\ \A e \in Deploys \ {d} : pc'[e] = pc[e] /\ result'[e] = result[e]
        /\ pc[d] \in {"abort", "done"} =>
             pc'[d] \in {"abort", "done"} /\ result'[d] = result[d]
    BY <1>3 DEF AbortOfSuccessor, TakeSlot, UserAbort, OwnAbort, Removed, SwapStep, Build,
       InspectOld, CleanLeftover, StartSidecars, RunNew, WaitReady, ApplyLabels, StopOld,
       RenameNew, PostDeploy, DiscardNew
  <2> QED BY <1>0, <2>1 DEF FlyInv
<1>4. ASSUME NEW c \in flying, Land(c) PROVE FlyInv'
  BY <1>4 DEF Land, FlyInv
<1>5. CASE UNCHANGED vars
  BY <1>5 DEF vars, FlyInv
<1> QED BY <1>1, <1>2, <1>3, <1>4, <1>5 DEF Next

LEMMA CleanStep == TypeOK /\ SwapInv /\ FlyInv /\ CleanInv /\ [Next]_vars => CleanInv'
<1> SUFFICES ASSUME TypeOK, SwapInv, FlyInv, CleanInv, [Next]_vars, faults' = 0 PROVE CleanInv'
  BY DEF CleanInv
<1> USE Identities DEF AtWork, OwnsTemp, TypeOK, Goto, Return, Fault, Failed, NoFault, counters,
      history
<1>1. ASSUME NEW d \in Deploys, Start(d) PROVE CleanInv'
  BY <1>1 DEF Start, CleanInv, InSlot
<1>2. ASSUME NEW d \in Deploys, TakeSlot(d) \/ Build(d) \/ StartSidecars(d) PROVE CleanInv'
  BY <1>2 DEF TakeSlot, Build, StartSidecars, CleanInv
<1>3. ASSUME NEW d \in Deploys, InspectOld(d) PROVE CleanInv'
  BY <1>3 DEF InspectOld, CleanInv
<1>4. ASSUME NEW d \in Deploys,
             AbortOfSuccessor(d) \/ CleanLeftover(d) \/ DiscardNew(d) \/ OwnAbort(d)
             \/ UserAbort(d)
      PROVE  CleanInv'
  <2>1. temp' = NoContainer /\ faults = 0 /\ UNCHANGED <<prod, oldExists, struck>>
    BY <1>4 DEF AbortOfSuccessor, CleanLeftover, DiscardNew, OwnAbort, UserAbort, Removed
  <2>2. \A e \in Deploys : /\ pc'[e] \in AtWork => pc[e] \in AtWork
                           /\ pc'[e] = "rename" => pc[e] = "rename"
    BY <1>4 DEF AbortOfSuccessor, CleanLeftover, DiscardNew, OwnAbort, UserAbort
  <2> QED BY <2>1, <2>2 DEF CleanInv, NoContainer
<1>5. ASSUME NEW d \in Deploys, RunNew(d) PROVE CleanInv'
  <2>1. faults = 0 /\ UNCHANGED <<prod, oldExists>>
    BY <1>5 DEF RunNew
  <2>2. CASE temp' = [who |-> d, up |-> TRUE, labelled |-> FALSE] /\ Goto(d, "ready")
    BY <1>5, <2>1, <2>2 DEF RunNew, CleanInv
  <2>3. CASE UNCHANGED temp /\ Goto(d, "done")
    BY <1>5, <2>1, <2>3 DEF RunNew, CleanInv
  <2> QED BY <1>5, <2>2, <2>3 DEF RunNew
<1>6. ASSUME NEW d \in Deploys,
             WaitReady(d, "ready", "label") \/ WaitReady(d, "ready2", "stop")
      PROVE  CleanInv'
  BY <1>6 DEF WaitReady, CleanInv
<1>7. ASSUME NEW d \in Deploys, ApplyLabels(d) PROVE CleanInv'
  <2>1. temp'.who = temp.who
    BY <1>7 DEF ApplyLabels, Container
  <2> QED BY <1>7, <2>1 DEF ApplyLabels, CleanInv
<1>8. ASSUME NEW d \in Deploys, StopOld(d) PROVE CleanInv'
  <2>1. (d \notin struck => prod' = NoContainer) /\ faults = 0
    BY <1>8 DEF StopOld, CleanInv
  <2>2. \A e \in Deploys \ {d} : pc[e] \notin AtWork /\ pc[e] # "rename"
    BY <1>8 DEF StopOld, SwapInv, InSlot
  <2> QED BY <1>8, <2>1, <2>2 DEF StopOld, CleanInv
<1>9. ASSUME NEW d \in Deploys, RenameNew(d) PROVE CleanInv'
  <2>1. /\ d \notin struck => temp' = NoContainer
        /\ faults = 0 /\ temp'.who \in {temp.who, Nobody}
    BY <1>9 DEF RenameNew, CleanInv, NoContainer
  <2>2. \A e \in Deploys \ {d} : pc[e] \notin AtWork /\ pc[e] # "rename"
    BY <1>9 DEF RenameNew, SwapInv, InSlot
  <2> QED BY <1>9, <2>1, <2>2 DEF RenameNew, CleanInv, NoContainer
<1>10. ASSUME NEW d \in Deploys, PostDeploy(d) \/ UserCancel(d) PROVE CleanInv'
  BY <1>10 DEF PostDeploy, UserCancel, CleanInv, InSlot
<1>11. ASSUME NEW c \in flying, Land(c) PROVE CleanInv'
  <2>1. faults = 0 /\ UNCHANGED <<pc, slot, oldExists>> /\ struck \subseteq struck'
    BY <1>11 DEF Land
  <2>2. c.by \in Deploys /\ pc[c.by] \in {"abort", "done"}
    BY <2>1 DEF FlyInv
  <2>3. \A d \in Deploys : temp'.who = d /\ d \notin struck' => pc[d] \in OwnsTemp
    <3> SUFFICES ASSUME NEW d \in Deploys, temp'.who = d, d \notin struck'
                 PROVE  pc[d] \in OwnsTemp
      OBVIOUS
    <3>1. temp'.who \in {temp.who, Nobody, c.by}
      <4>1. c.cmd \in Commands /\ temp.who = [temp EXCEPT !.labelled = TRUE].who
        BY DEF Container
      <4>2. CASE c.cmd = "run"
        BY <1>11, <4>2 DEF Land, Effect
      <4>3. CASE c.cmd # "run"
        <5>1. temp' \in {temp, NoContainer, [temp EXCEPT !.labelled = TRUE],
                         [who |-> c.by, up |-> TRUE, labelled |-> TRUE]}
          BY <1>11, <4>1, <4>3 DEF Land, Effect, Commands
        <5>2. CASE temp' = [temp EXCEPT !.labelled = TRUE]
          BY <4>1, <5>2
        <5>3. CASE temp' = [who |-> c.by, up |-> TRUE, labelled |-> TRUE]
          BY <5>3
        <5> QED BY <5>1, <5>2, <5>3 DEF NoContainer
      <4> QED BY <4>2, <4>3
    <3>2. CASE d = temp.who
      BY <2>1, <3>2 DEF CleanInv
    <3>3. CASE d = c.by
      BY <1>11, <2>2, <3>3 DEF Land
    <3> QED BY <3>1, <3>2, <3>3
  <2>4. \A d \in Deploys : InSlot(d) /\ d \notin struck' => prod' = prod
    BY <1>11 DEF Land, SwapInv
  <2> QED BY <2>1, <2>3, <2>4 DEF CleanInv, InSlot
<1>12. CASE UNCHANGED vars
  BY <1>12 DEF vars, CleanInv
<1> QED
  BY <1>1, <1>2, <1>3, <1>4, <1>5, <1>6, <1>7, <1>8, <1>9, <1>10, <1>11, <1>12
     DEF Next, SwapStep

LEMMA SwapInit == Init => SwapInv /\ FlyInv /\ CleanInv
<1> SUFFICES ASSUME Init PROVE SwapInv /\ FlyInv /\ CleanInv
  OBVIOUS
<1>1. \A d \in Deploys : pc[d] = "new" /\ temp.who # d
  BY Identities DEF Init, NoContainer
<1> QED BY <1>1 DEF Init, SwapInv, FlyInv, CleanInv, InSlot, AtWork, OwnsTemp

\* abort_in_flight_swap, the cancelled task's own clean-up and the discard of a
\* container that does not answer: between them no <name>-new outlives its deployment,
\* wherever a cancellation dropped it, as long as the commands succeed; only a command
\* that was in flight at the drop may make it again.
THEOREM NoLeftoverHolds == Spec => []NoLeftover
<1>1. CleanInv => NoLeftover
  BY DEF CleanInv, NoLeftover, OwnsTemp
<1> QED
  BY <1>1, TypeCorrect, SwapInit, SwapInvStep, FlyStep, CleanStep, PTL DEF Spec

----------------------------------------------------------------------------
(* Serving while nothing disturbs a deployment                             *)

\* Who is dropped is recorded as cancelled, and only those clean up.
DropInv == \A d \in Deploys :
    /\ pc[d] \notin {"abort", "done"} => result[d] = "none"
    /\ pc[d] = "abort" \/ d \in aborts => result[d] = "cancelled"
    /\ pc[d] = "start" => \E e \in Deploys : result[e] = "cancelled"

\* Until something disturbs: only between the stop and the rename does production not
\* serve, and then the container that is about to take its name does.
Fresh(d, b) == [who |-> d, up |-> TRUE, labelled |-> b]
ServeInv ==
    ~Disturbed =>
        /\ struck = {}
        /\ (\A d \in Deploys : pc[d] # "rename") => Serves(prod)
        /\ \A d \in Deploys :
              /\ pc[d] \in {"ready", "label"} => temp = Fresh(d, FALSE)
              /\ pc[d] \in {"ready2", "stop", "rename"} => temp = Fresh(d, TRUE)
              /\ pc[d] = "post" => prod.who = d

LEMMA DropStep == TypeOK /\ DropInv /\ [Next]_vars => DropInv' /\ (Disturbed => Disturbed')
<1> SUFFICES ASSUME TypeOK, DropInv, [Next]_vars
             PROVE  DropInv' /\ (Disturbed => Disturbed')
  OBVIOUS
<1> USE Identities DEF DropInv, TypeOK, Goto, Return, Fault, Failed, NoFault, counters, history
<1>1. ASSUME \A d \in Deploys : result[d] = "cancelled" => result'[d] = "cancelled",
             faults' = faults \/ faults' = faults + 1
      PROVE  Disturbed => Disturbed'
  BY <1>1 DEF Disturbed
<1>2. ASSUME NEW d \in Deploys, Start(d) PROVE DropInv' /\ (Disturbed => Disturbed')
  <2>1. \A e \in Deploys : result[e] = "cancelled" => result'[e] = "cancelled"
    BY <1>2 DEF Start
  <2> QED BY <1>1, <1>2, <2>1 DEF Start, InSlot
<1>3. ASSUME NEW d \in Deploys, UserCancel(d) PROVE DropInv' /\ (Disturbed => Disturbed')
  BY <1>1, <1>3 DEF UserCancel, InSlot
<1>4. ASSUME NEW d \in Deploys,
             AbortOfSuccessor(d) \/ TakeSlot(d) \/ UserAbort(d) \/ OwnAbort(d)
      PROVE  DropInv' /\ (Disturbed => Disturbed')
  BY <1>1, <1>4 DEF AbortOfSuccessor, TakeSlot, UserAbort, OwnAbort, Removed
<1>5. ASSUME NEW d \in Deploys, SwapStep(d) PROVE DropInv' /\ (Disturbed => Disturbed')
  <2>1. /\ pc[d] \notin {"abort", "done", "start"} /\ UNCHANGED aborts
        /\ faults' = faults \/ faults' = faults + 1
        /\ \/ UNCHANGED result
           \/ pc'[d] = "done" /\ \A e \in Deploys \ {d} : result'[e] = result[e]
        /\ pc'[d] \notin {"abort", "start"} /\ \A e \in Deploys \ {d} : pc'[e] = pc[e]
        /\ pc'[d] = "done" \/ UNCHANGED result
    BY <1>5 DEF SwapStep, Build, InspectOld, CleanLeftover, StartSidecars, RunNew, WaitReady,
       ApplyLabels, StopOld, RenameNew, PostDeploy, DiscardNew, Removed
  <2> QED BY <1>1, <2>1
<1>6. ASSUME NEW c \in flying, Land(c) PROVE DropInv' /\ (Disturbed => Disturbed')
  BY <1>1, <1>6 DEF Land
<1>7. CASE UNCHANGED vars
  BY <1>7 DEF vars, Disturbed
<1> QED BY <1>2, <1>3, <1>4, <1>5, <1>6, <1>7 DEF Next

\* Undisturbed before and after, a step is one of the deployment that holds the node,
\* of one that takes it free, or the start of one that finds nobody.
LEMMA ServeStep ==
    TypeOK /\ SwapInv /\ FlyInv /\ CleanInv /\ DropInv /\ ServeInv /\ [Next]_vars => ServeInv'
<1> SUFFICES ASSUME TypeOK, SwapInv, FlyInv, CleanInv, DropInv, ServeInv, [Next]_vars, ~Disturbed'
             PROVE  ServeInv'
  BY DEF ServeInv
<1>0. ~Disturbed /\ faults = 0 /\ faults' = 0
  <2>1. ~Disturbed /\ TypeOK'
    BY DropStep, TypeStep
  <2> QED BY <2>1 DEF Disturbed, TypeOK
<1>1. /\ \A d \in Deploys : result[d] # "cancelled" /\ result'[d] # "cancelled"
      /\ aborts = {} /\ \A d \in Deploys : pc[d] \notin {"start", "abort"}
      /\ flying = {}
  BY <1>0 DEF Disturbed, DropInv, FlyInv, TypeOK
<1>2. \A d \in Deploys : InSlot(d) => \A e \in Deploys \ {d} : ~InSlot(e)
  BY DEF SwapInv
<1>3. /\ struck = {}
      /\ (\A d \in Deploys : pc[d] # "rename") => Serves(prod)
      /\ \A d \in Deploys :
            /\ pc[d] \in {"ready", "label"} => temp = Fresh(d, FALSE)
            /\ pc[d] \in {"ready2", "stop", "rename"} => temp = Fresh(d, TRUE)
            /\ pc[d] = "post" => prod.who = d
  BY <1>0 DEF ServeInv
<1> USE Identities, <1>0 DEF TypeOK, Goto, Return, Fault, Failed, NoFault, counters, history
<1>4. ASSUME NEW d \in Deploys, Start(d) PROVE ServeInv'
  <2>1. \A e \in Deploys : ~InSlot(e) /\ pc[e] # "wait"
    BY <1>1, <1>4 DEF Start
  <2>2. \A e \in Deploys : pc'[e] = pc[e] \/ pc'[e] = "wait"
    BY <1>4, <2>1 DEF Start
  <2> QED BY <1>3, <1>4, <2>1, <2>2 DEF Start, ServeInv, InSlot
<1>5. ASSUME NEW d \in Deploys, TakeSlot(d) PROVE ServeInv'
  BY <1>3, <1>5 DEF TakeSlot, ServeInv
<1>6. ASSUME NEW d \in Deploys, AbortOfSuccessor(d) \/ UserCancel(d) \/ UserAbort(d) \/ OwnAbort(d)
      PROVE  FALSE
  BY <1>1, <1>6 DEF AbortOfSuccessor, UserCancel, UserAbort, OwnAbort
<1>7. ASSUME NEW d \in Deploys, SwapStep(d) PROVE ServeInv'
  <2>0. InSlot(d) /\ \A e \in Deploys \ {d} : ~InSlot(e) /\ pc'[e] = pc[e]
    BY <1>2, <1>7 DEF InSlot, SwapStep, Build, InspectOld, CleanLeftover, StartSidecars, RunNew,
       WaitReady, ApplyLabels, StopOld, RenameNew, PostDeploy, DiscardNew
  <2>1. CASE Build(d) \/ StartSidecars(d) \/ InspectOld(d) \/ CleanLeftover(d) \/ DiscardNew(d)
    <3>1. UNCHANGED <<prod, struck>> /\ pc[d] # "rename"
          /\ pc'[d] \in {"done", "inspect", "clean", "sidecars", "run"}
      BY <2>1 DEF Build, StartSidecars, InspectOld, CleanLeftover, DiscardNew
    <3> QED BY <1>3, <2>0, <3>1 DEF ServeInv, InSlot
  <2>2. CASE RunNew(d)
    <3>1. UNCHANGED <<prod, struck>> /\ pc[d] # "rename" /\ d \in Deploys
      BY <2>2 DEF RunNew
    <3>2. \/ Goto(d, "done")
          \/ Goto(d, "ready") /\ temp' = Fresh(d, FALSE)
      BY <2>2 DEF RunNew, Fresh
    <3>3. pc'[d] = "done" \/ (pc'[d] = "ready" /\ temp' = Fresh(d, FALSE))
      BY <3>2
    <3> QED BY <1>3, <2>0, <3>1, <3>3 DEF ServeInv, InSlot
  <2>3. CASE WaitReady(d, "ready", "label") \/ WaitReady(d, "ready2", "stop")
    BY <1>3, <2>0, <2>3 DEF WaitReady, ServeInv, InSlot
  <2>4. CASE ApplyLabels(d)
    <3>1. temp = Fresh(d, FALSE) /\ temp # NoContainer
      BY <1>3, <2>4 DEF ApplyLabels, Fresh, NoContainer
    <3>2. temp' = Fresh(d, TRUE)
      BY <2>4, <3>1 DEF ApplyLabels, Fresh
    <3> QED BY <1>3, <2>0, <2>4, <3>2 DEF ApplyLabels, ServeInv, InSlot
  <2>5. CASE StopOld(d)
    BY <1>3, <2>0, <2>5 DEF StopOld, ServeInv, InSlot
  <2>6. CASE RenameNew(d)
    <3>1. temp = Fresh(d, TRUE) /\ prod = NoContainer /\ temp # NoContainer
      BY <1>3, <2>6 DEF RenameNew, CleanInv, Fresh, NoContainer
    <3>2. prod' = Fresh(d, TRUE)
      BY <2>6, <3>1 DEF RenameNew
    <3>3. Serves(prod)' /\ prod'.who = d
      BY <3>2 DEF Fresh, Serves
    <3> QED BY <2>0, <2>6, <3>3 DEF RenameNew, ServeInv, InSlot
  <2>7. CASE PostDeploy(d)
    BY <1>3, <2>0, <2>7 DEF PostDeploy, ServeInv, InSlot
  <2> QED BY <1>7, <2>1, <2>2, <2>3, <2>4, <2>5, <2>6, <2>7 DEF SwapStep
<1>8. CASE UNCHANGED vars
  BY <1>3, <1>8 DEF vars, ServeInv, Serves
<1> QED BY <1>1, <1>4, <1>5, <1>6, <1>7, <1>8 DEF Next

LEMMA ServeInit == Init => DropInv /\ ServeInv
<1> SUFFICES ASSUME Init PROVE DropInv /\ ServeInv
  OBVIOUS
<1>1. Serves(prod)
  BY DEF Init, Serves
<1> QED BY <1>1 DEF Init, DropInv, ServeInv

LEMMA ServeAlways ==
    Spec => [](TypeOK /\ SwapInv /\ FlyInv /\ CleanInv /\ DropInv /\ ServeInv)
  BY TypeCorrect, SwapInit, ServeInit, SwapInvStep, FlyStep, CleanStep, DropStep, ServeStep,
     PTL DEF Spec

\* Zero-downtime: whatever the order of builds, failures to become ready and successive
\* deployments, some running container carries the routes of the site while no command
\* fails and nobody is cancelled.
THEOREM AlwaysServedHolds == Spec => []AlwaysServed
<1>1. ServeInv => AlwaysServed
  <2> SUFFICES ASSUME ServeInv, ~Disturbed PROVE Served
    BY DEF AlwaysServed
  <2>1. CASE \A d \in Deploys : pc[d] # "rename"
    BY <2>1 DEF ServeInv, Served
  <2>2. ASSUME NEW d \in Deploys, pc[d] = "rename" PROVE Served
    BY <2>2 DEF ServeInv, Served, Serves, Fresh
  <2> QED BY <2>1, <2>2
<1> QED BY <1>1, ServeAlways, PTL

\* A deployment returns success with its own container in production, serving, when
\* every command did what it was asked and nobody was cancelled under it.
THEOREM SuccessIsInProductionHolds == Spec => SuccessIsInProduction
<1>1. TypeOK /\ SwapInv /\ DropInv /\ ServeInv /\ [Next]_vars =>
        [\A d \in Deploys :
           ~Disturbed /\ result[d] = "none" /\ result'[d] = "ok"
           => prod'.who = d /\ Serves(prod')]_vars
  <2> SUFFICES ASSUME TypeOK, SwapInv, DropInv, ServeInv, [Next]_vars, NEW d \in Deploys,
                      ~Disturbed, result[d] = "none", result'[d] = "ok"
               PROVE  prod'.who = d /\ Serves(prod')
    OBVIOUS
  <2>1. PICK e \in Deploys :
          \/ Start(e) \/ AbortOfSuccessor(e) \/ TakeSlot(e) \/ SwapStep(e)
          \/ UserCancel(e) \/ UserAbort(e) \/ OwnAbort(e)
    BY DEF Next, vars, Land
  <2> USE DEF TypeOK, Goto, Return
  <2>2. CASE Start(e) \/ AbortOfSuccessor(e) \/ TakeSlot(e) \/ UserCancel(e)
             \/ UserAbort(e) \/ OwnAbort(e)
    BY <2>2 DEF Start, AbortOfSuccessor, TakeSlot, UserCancel, UserAbort, OwnAbort
  <2>3. CASE SwapStep(e)
    <3>1. e = d /\ prod' = prod /\ pc[d] = "post"
      BY <2>3 DEF SwapStep, Build, InspectOld, CleanLeftover, StartSidecars, RunNew,
         WaitReady, ApplyLabels, StopOld, RenameNew, PostDeploy, DiscardNew
    <3>2. \A f \in Deploys : pc[f] # "rename"
      BY <3>1 DEF SwapInv, InSlot
    <3> QED
      BY <3>1, <3>2 DEF ServeInv
  <2> QED
    BY <2>1, <2>2, <2>3
<1> QED
  BY <1>1, ServeAlways, PTL DEF Spec, SuccessIsInProduction
==============================================================================
