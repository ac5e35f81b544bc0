---------------------------- MODULE BlueGreenSwap ----------------------------
(***************************************************************************)
(* What a deployment does to the containers of one instance while it holds *)
(* its node: build, start `<name>-new`, wait until it answers, give it the *)
(* proxy labels (which recreates it), check it again, stop the old         *)
(* container, rename the new one.  Every step is one command on the node.  *)
(* A cancelled deployment is dropped at the await it has reached; its      *)
(* canceller and the deployment itself then both remove `<name>-new`.      *)
(* Dropping the await ends the ssh client, never the command it has sent:  *)
(* that one is `flying` and takes effect at any later time, or never.      *)
(*                                                                         *)
(* The queue around it (DeployQueue) is reduced to its promise: one holder *)
(* of the slot, and a superseded deployment is signalled.                  *)
(***************************************************************************)
EXTENDS Integers

CONSTANTS
    MaxDeploys,   \* bound: deployments of the instance
    MaxFaults,    \* bound: commands that fail or time out on the node
    MaxCancels,   \* bound: user cancellations
    Overlap       \* may a deployment start while another is in progress?

ASSUME BoundsAssumption ==
    /\ MaxDeploys \in Nat /\ MaxFaults \in Nat /\ MaxCancels \in Nat
    /\ Overlap \in BOOLEAN

Deploys == 1..MaxDeploys
Nobody  == -1                   \* version 0 is the one in production at first

\* A container: the deployment it was started for, whether it runs, and whether
\* the reverse proxy routes the host to it.
Container == [who : Deploys \cup {0, Nobody}, up : BOOLEAN, labelled : BOOLEAN]
NoContainer == [who |-> Nobody, up |-> FALSE, labelled |-> FALSE]

VARIABLES
    prod,        \* the container called <name>
    temp,        \* the container called <name>-new
    pc,          \* [Deploys -> ...]: the next command of each deployment
    oldExists,   \* [Deploys -> BOOLEAN]: what container_exists answered
    slot,        \* who holds the node
    result,      \* [Deploys -> ...]: DeployResult / SlotOutcome
    aborts,      \* user cancellations whose abort_in_flight_swap is still to run
    flying,      \* commands on the node that nobody waits for any more
    faults, cancels,
    before,      \* history: prod when the deployment took the node
    struck       \* history: deployments whose containers such a command changed

counters == <<faults, cancels>>
history  == <<before, struck>>
vars == <<prod, temp, pc, oldExists, slot, result, aborts, flying, counters, history>>

PCs == {"new", "start", "wait", "build", "inspect", "clean", "sidecars", "run", "ready",
        "label", "ready2", "stop", "rename", "post", "discard", "abort", "done"}
InSlot(d) == pc[d] \in {"build", "inspect", "clean", "sidecars", "run", "ready", "label",
                        "ready2", "stop", "rename", "post", "discard"}

\* The commands that change a container, by what they do.
CommandAt(l) == CASE l \in {"clean", "discard"}                  -> "remove"
                  [] l \in {"run", "label", "stop", "rename"} -> l
                  [] OTHER                                     -> "none"
Commands == {"remove", "run", "label", "stop", "rename"}
Command(d, c) == [by |-> d, cmd |-> c]

\* Dropping the await of D: what they had on the node goes on, or had not been sent.
Dropped(D) == \E F \in SUBSET {d \in D : CommandAt(pc[d]) # "none"} :
                 flying' = flying \cup {Command(d, CommandAt(pc[d])) : d \in F}

Goto(d, l) == pc' = [pc EXCEPT ![d] = l]
NoFault == UNCHANGED <<faults, flying>>
Failed == faults < MaxFaults /\ faults' = faults + 1

\* A command fails, or times out: the executor then kills it on the node, which may
\* fail too and leaves it flying.
Fault(d, c) == Failed /\ flying' \in {flying, flying \cup {Command(d, c)}}

\* Mutant: the other spelling of the status.
ReturnMisspelt(d, r, l) ==
    /\ result' = [result EXCEPT ![d] = IF r = "cancelled" THEN "canceled" ELSE r]
    /\ slot' = IF slot = d THEN Nobody ELSE slot
    /\ Goto(d, l)

\* Return from the work future: the slot guard is dropped.
Return(d, r, l) ==
    /\ result' = [result EXCEPT ![d] = r]
    /\ slot' = IF slot = d THEN Nobody ELSE slot
    /\ Goto(d, l)

Init ==
    /\ prod = [who |-> 0, up |-> TRUE, labelled |-> TRUE]
    /\ temp = NoContainer
    /\ pc = [d \in Deploys |-> "new"]
    /\ oldExists = [d \in Deploys |-> FALSE]
    /\ slot = Nobody
    /\ result = [d \in Deploys |-> "none"]
    /\ aborts = {}
    /\ flying = {} /\ faults = 0 /\ cancels = 0
    /\ struck = {}
    /\ before = [d \in Deploys |-> NoContainer]

----------------------------------------------------------------------------
(* Start block, then the slot *)

\* register + supersede: the deployment in progress, if any, is dropped.
Start(d) ==
    /\ pc[d] = "new"
    /\ \A e \in Deploys : e < d => pc[e] # "new"
    /\ \A e \in Deploys : pc[e] # "start"
    /\ LET old == {e \in Deploys : InSlot(e) \/ pc[e] = "wait"} IN
          /\ Overlap \/ old = {}
          /\ pc' = [e \in Deploys |-> IF e \in old THEN "abort"
                                      ELSE IF e = d THEN (IF old = {} THEN "wait" ELSE "start")
                                      ELSE pc[e]]
          /\ result' = [e \in Deploys |-> IF e \in old THEN "cancelled" ELSE result[e]]
          /\ slot' = IF slot \in old THEN Nobody ELSE slot
          /\ Dropped(old)
    /\ UNCHANGED <<prod, temp, oldExists, aborts, counters, history>>

\* abort_in_flight_swap: docker rm -f <name>-new
Removed(d) == \/ temp' = NoContainer /\ NoFault
              \/ UNCHANGED temp /\ Fault(d, "remove")

AbortOfSuccessor(d) ==
    /\ pc[d] = "start"
    /\ Removed(d)
    /\ Goto(d, "wait")
    /\ UNCHANGED <<prod, oldExists, slot, result, aborts, cancels, history>>

TakeSlot(d) ==
    /\ pc[d] = "wait" /\ slot = Nobody
    /\ slot' = d
    /\ before' = [before EXCEPT ![d] = prod]
    /\ Goto(d, "build")
    /\ UNCHANGED <<prod, temp, oldExists, result, aborts, flying, counters, struck>>

----------------------------------------------------------------------------
(* deploy_with_log_hook: git, conflict check, image build; any may fail *)

Build(d) ==
    /\ pc[d] = "build"
    /\ \/ Goto(d, "inspect") /\ UNCHANGED <<result, slot>>
       \/ Return(d, "failed", "done")
    /\ UNCHANGED <<prod, temp, oldExists, aborts, flying, counters, history>>

(* docker_restart_container *)

\* An error of `docker ps` reads as "no old container".
InspectOld(d) ==
    /\ pc[d] = "inspect"
    /\ \/ NoFault /\ oldExists' = [oldExists EXCEPT ![d] = prod # NoContainer]
       \/ Failed /\ UNCHANGED flying /\ oldExists' = [oldExists EXCEPT ![d] = FALSE]
    /\ Goto(d, "clean")
    /\ UNCHANGED <<prod, temp, slot, result, aborts, cancels, history>>

CleanLeftover(d) ==
    /\ pc[d] = "clean"
    /\ Removed(d)
    /\ Goto(d, "sidecars")
    /\ UNCHANGED <<prod, oldExists, slot, result, aborts, cancels, history>>

StartSidecars(d) ==
    /\ pc[d] = "sidecars"
    /\ \/ Goto(d, "run") /\ UNCHANGED <<result, slot>>
       \/ Return(d, "failed", "done")
    /\ UNCHANGED <<prod, temp, oldExists, aborts, flying, counters, history>>

\* docker run --name <name>-new, without labels; a name already taken fails, and a
\* command that fails or times out may leave the container behind, running or not.
RunNew(d) ==
    /\ pc[d] = "run"
    /\ \/ /\ temp = NoContainer
          /\ temp' = [who |-> d, up |-> TRUE, labelled |-> FALSE]
          /\ Goto(d, "ready") /\ UNCHANGED <<result, slot>>
          /\ NoFault
       \/ Return(d, "failed", "done") /\ NoFault /\ UNCHANGED temp
       \/ /\ temp = NoContainer /\ Failed /\ UNCHANGED flying
          /\ \E b \in BOOLEAN : temp' = [who |-> d, up |-> b, labelled |-> FALSE]
          /\ Return(d, "failed", "done")
       \/ Fault(d, "run") /\ UNCHANGED temp /\ Return(d, "failed", "done")
    /\ UNCHANGED <<prod, oldExists, aborts, cancels, history>>

\* wait_container_ready: true needs a running container, false is always possible.
WaitReady(d, here, next) ==
    /\ pc[d] = here
    /\ \/ temp.up /\ Goto(d, next)
       \/ Goto(d, "discard")
    /\ UNCHANGED <<prod, temp, oldExists, slot, result, aborts, flying, counters, history>>

\* Mutant: the container is recreated without its labels.
ApplyNoLabels(d) ==
    /\ pc[d] = "label" /\ NoFault
    /\ Goto(d, "ready2")
    /\ UNCHANGED <<prod, temp, oldExists, slot, result, aborts, cancels, history>>

\* docker_update_labels recreates the container; its failure is only logged, and
\* leaves the old one without labels, or none.
ApplyLabels(d) ==
    /\ pc[d] = "label"
    /\ \/ /\ NoFault
          /\ temp' = IF temp = NoContainer THEN temp ELSE [temp EXCEPT !.labelled = TRUE]
       \/ /\ Fault(d, "label")
          /\ temp' \in {temp, NoContainer}
    /\ Goto(d, "ready2")
    /\ UNCHANGED <<prod, oldExists, slot, result, aborts, cancels, history>>

\* Mutant: the old container is never stopped.
KeepOld(d) ==
    /\ pc[d] = "stop" /\ NoFault
    /\ Goto(d, "rename")
    /\ UNCHANGED <<prod, temp, oldExists, slot, result, aborts, cancels, history>>

\* docker stop && docker rm -f, result ignored.
StopOld(d) ==
    /\ pc[d] = "stop"
    /\ \/ NoFault /\ prod' = IF oldExists[d] THEN NoContainer ELSE prod
       \/ oldExists[d] /\ Fault(d, "stop") /\ prod' \in {prod, [prod EXCEPT !.up = FALSE]}
    /\ Goto(d, "rename")
    /\ UNCHANGED <<temp, oldExists, slot, result, aborts, cancels, history>>

\* docker rename fails without a source or onto a taken name; either way the
\* deployment goes on to success.
RenameNew(d) ==
    /\ pc[d] = "rename"
    /\ \/ /\ NoFault
          /\ IF temp # NoContainer /\ prod = NoContainer
             THEN prod' = temp /\ temp' = NoContainer
             ELSE UNCHANGED <<prod, temp>>
       \/ Fault(d, "rename") /\ UNCHANGED <<prod, temp>>
    /\ Goto(d, "post")
    /\ UNCHANGED <<oldExists, slot, result, aborts, cancels, history>>

\* Group alias, proxy check and rollback tag: logged, never a failure.
PostDeploy(d) ==
    /\ pc[d] = "post"
    /\ Return(d, "ok", "done")
    /\ UNCHANGED <<prod, temp, oldExists, aborts, flying, counters, history>>

\* Mutant: docker rm -f <name> instead of <name>-new.
DiscardOld(d) ==
    /\ pc[d] = "discard" /\ NoFault
    /\ prod' = NoContainer
    /\ Return(d, "failed", "done")
    /\ UNCHANGED <<temp, oldExists, aborts, cancels, history>>

\* Not ready: docker rm -f <name>-new, the old container stays.
DiscardNew(d) ==
    /\ pc[d] = "discard"
    /\ Removed(d)
    /\ Return(d, "failed", "done")
    /\ UNCHANGED <<prod, oldExists, aborts, cancels, history>>

----------------------------------------------------------------------------
(* Cancellation *)

\* cancel_deployment: the work future is dropped where it stands.
UserCancel(d) ==
    /\ cancels < MaxCancels /\ cancels' = cancels + 1
    /\ InSlot(d) \/ pc[d] = "wait"
    /\ Return(d, "cancelled", "abort")
    /\ aborts' = aborts \cup {d}
    /\ Dropped({d})
    /\ UNCHANGED <<prod, temp, oldExists, faults, history>>

UserAbort(d) ==
    /\ d \in aborts
    /\ Removed(d)
    /\ aborts' = aborts \ {d}
    /\ UNCHANGED <<prod, pc, oldExists, slot, result, cancels, history>>

\* Mutant: the cancelled task relies on its canceller's clean-up.
NoOwnAbort(d) ==
    /\ pc[d] = "abort"
    /\ Goto(d, "done")
    /\ UNCHANGED <<prod, temp, oldExists, slot, result, aborts, flying, counters, history>>

\* The cancelled task's own clean-up, after it has given the node back.
OwnAbort(d) ==
    /\ pc[d] = "abort"
    /\ Removed(d)
    /\ Goto(d, "done")
    /\ UNCHANGED <<prod, oldExists, slot, result, aborts, cancels, history>>

(* What was sent outlives who sent it *)

\* A flying command takes effect, on whatever now has the name: `run` fails on a name
\* taken; the label script stops, removes and runs again what it has read; a stop
\* removes what it has stopped a moment later.
Effect(c) ==
    CASE c.cmd = "remove" -> temp' = NoContainer /\ UNCHANGED prod
      [] c.cmd = "run"    ->
            /\ temp = NoContainer /\ UNCHANGED prod
            /\ \E b \in BOOLEAN : temp' = [who |-> c.by, up |-> b, labelled |-> FALSE]
      [] c.cmd = "label"  -> /\ UNCHANGED prod
                             /\ \/ temp' = [who |-> c.by, up |-> TRUE, labelled |-> TRUE]
                                \/ temp' = NoContainer
                                \/ temp # NoContainer /\ temp' = [temp EXCEPT !.labelled = TRUE]
      [] c.cmd = "stop"   -> prod' \in {NoContainer, [prod EXCEPT !.up = FALSE]} /\ UNCHANGED temp
      [] c.cmd = "rename" -> /\ temp # NoContainer /\ prod = NoContainer
                             /\ prod' = temp /\ temp' = NoContainer

Land(c) ==
    /\ c \in flying
    /\ Effect(c)
    /\ flying' = IF c.cmd = "stop" /\ prod' # NoContainer THEN flying ELSE flying \ {c}
    /\ struck' = struck \cup {d \in Deploys : (d = slot /\ prod' # prod)
                                          \/ (d = c.by /\ temp'.who = d /\ pc[d] = "done")}
    /\ UNCHANGED <<pc, oldExists, slot, result, aborts, counters, before>>

SwapStep(d) ==
    \/ Build(d) \/ InspectOld(d) \/ CleanLeftover(d) \/ StartSidecars(d) \/ RunNew(d)
    \/ WaitReady(d, "ready", "label") \/ ApplyLabels(d) \/ WaitReady(d, "ready2", "stop")
    \/ StopOld(d) \/ RenameNew(d) \/ PostDeploy(d) \/ DiscardNew(d)

Next ==
    \/ \E d \in Deploys :
          \/ Start(d) \/ AbortOfSuccessor(d) \/ TakeSlot(d) \/ SwapStep(d)
          \/ UserCancel(d) \/ UserAbort(d) \/ OwnAbort(d)
    \/ \E c \in flying : Land(c)

Spec == Init /\ [][Next]_vars

----------------------------------------------------------------------------
(* Properties *)

TypeOK ==
    /\ prod \in Container /\ temp \in Container
    /\ pc \in [Deploys -> PCs]
    /\ oldExists \in [Deploys -> BOOLEAN]
    /\ slot \in Deploys \cup {Nobody}
    /\ result \in [Deploys -> {"none", "ok", "failed", "cancelled"}]
    /\ aborts \subseteq Deploys
    /\ flying \subseteq [by : Deploys, cmd : Commands]
    /\ struck \subseteq Deploys
    /\ faults \in Nat /\ cancels \in Nat
    /\ before \in [Deploys -> Container]

Serves(c) == c.up /\ c.labelled
Served == Serves(prod) \/ Serves(temp)
Disturbed == faults > 0 \/ \E d \in Deploys : result[d] = "cancelled"

\* Zero-downtime: at every moment of a deployment that nothing disturbs, some
\* running container carries the routes of the site, under its final or its
\* temporary name, although the labels come late and the old container goes first.
AlwaysServed == ~Disturbed => Served

\* cancel_deployment: "N'arrete pas le conteneur de production": a cancel alone never
\* takes the site down.
CancelKeepsServing == faults = 0 => Served

\* "If new fails: stop new, keep old running": a deployment that reports failure
\* leaves in production exactly what it found when it took the node, whatever
\* commands failed and whoever was cancelled before or meanwhile; unless a command of
\* an earlier deployment, dropped or timed out, changed production under it.
FailureKeepsOld ==
    [][\A d \in Deploys :
         result[d] = "none" /\ result'[d] = "failed" /\ d \notin struck
         => prod' = before[d]]_vars

\* A deployment that reports success has its own container in production when every
\* command did what it was asked and nobody was cancelled under it.
SuccessIsInProduction ==
    [][\A d \in Deploys :
         ~Disturbed /\ result[d] = "none" /\ result'[d] = "ok"
         => prod'.who = d /\ Serves(prod')]_vars

\* "stop old, rename new -> production name": the same, whatever the commands answered.
SuccessIsHonest ==
    [][\A d \in Deploys :
         result[d] = "none" /\ result'[d] = "ok" => prod'.who = d]_vars

\* The temporary container never outlives its deployment, however the deployment
\* ended, as long as the commands of the node succeed: a cancelled one is cleaned up
\* twice; unless what it had sent makes the container again after both, or production
\* is changed under a deployment that then cannot take its name.
NoLeftover ==
    faults = 0 => \A d \in Deploys : pc[d] = "done" /\ d \notin struck => temp.who # d

\* abort_in_flight_swap: the same, without the exception.
AbortLeavesNothing == faults = 0 => \A d \in Deploys : pc[d] = "done" => temp.who # d

=============================================================================
