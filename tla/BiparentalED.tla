---------------------------- MODULE BiparentalED ----------------------------
(***************************************************************************)
(* One device: BiparentalEDComponent::update() running against the         *)
(* OpenThread stack (src/components/biparental_ed/biparental_ed.cpp and    *)
(* ot_platform_adapter.cpp).                                               *)
(*                                                                         *)
(* update() runs in ESPHome's main loop and OpenThread in a task of its    *)
(* own.  Each adapter call takes the OpenThread lock for itself, so the    *)
(* stack may move between any two of them: between reading the parent's    *)
(* metrics and asking whether the device is attached, and between deciding *)
(* on an action and requesting it.  One action below is the stretch of     *)
(* update() up to and including one adapter call.                          *)
(*                                                                         *)
(* The controller is FailoverController itself.  The candidate manager may *)
(* offer no standby or any router as one, even the active parent, for the  *)
(* OpenThread callback may rewrite it while update() runs.                 *)
(* Of the health monitor it remains what it makes of the adapter's         *)
(* metrics: without valid metrics the parent is FAILED; with them it is    *)
(* not, for the adapter reports supervision_ok and an inferred reception.  *)
(***************************************************************************)
EXTENDS FailoverController

CONSTANT ParentInfoFails   \* whether the stack can refuse a child's question
                           \* for its parent; OpenThread answers it

ASSUME ParentInfoAssumption == ParentInfoFails \in BOOLEAN

VARIABLES
  pc,        \* where update() is: "idle", "decide", "target" or "generic"
  metrics,   \* its local: [parent, health], parent NoRloc when invalid
  standby,   \* its local: [rloc, known], known = has_ext_address
  role,      \* the stack's device role
  parent,    \* the router it is a child of
  selected,  \* the router a selected-parent attach is under way to
  seen,      \* history: the parents the device had since update() read the
             \* metrics, until it calls evaluate()
  detaches,  \* history: how often the component detached the device since it
             \* last decided on a failover
  accepted,  \* history: whether the stack took this failover's targeted
             \* request
  polled     \* history: [now, quiet], as they were at the last evaluate()

loopVars == <<pc, metrics, standby>>
stackVars == <<role, parent, selected>>
historyVars == <<seen, detaches, accepted, polled>>
systemVars == <<vars, loopVars, stackVars, historyVars>>

NoMetrics == [parent |-> NoRloc, health |-> "FAILED"]
NoStandbyFound == [rloc |-> NoRloc, known |-> FALSE]

MaxDetaches == 3   \* bound: detaches counts up to here

-----------------------------------------------------------------------------
(***************************************************************************)
(* update().                                                               *)
(***************************************************************************)

\* Slip: any router in range passes for the parent, of a child or not.
MetricsOfNeighbor ==
  { [parent |-> p, health |-> h] : p \in Router, h \in {"HEALTHY", "DEGRADED"} }

\* read_parent_metrics(), and what update() derives from it.  For a child
\* whose otThreadGetParentInfo() fails the freshest neighbour stands in, and
\* without a neighbour there are no metrics.
ReadMetrics ==
  IF role = "CHILD"
  THEN { [parent |-> p, health |-> h] :
           p \in IF ParentInfoFails THEN Router ELSE {parent},
           h \in {"HEALTHY", "DEGRADED"} }
       \cup { m \in {NoMetrics} : ParentInfoFails }
  ELSE { NoMetrics }

Begin(d) ==
  /\ pc = "idle"
  /\ pc' = "decide"
  /\ now' = UAdd(now, d, Wrap)
  /\ quiet' = Saturate(quiet + d, QuietCap)
  /\ metrics' \in ReadMetrics
  /\ seen' = {parent} \ {NoRloc}
  /\ UNCHANGED <<controllerVars, standby, stackVars, detaches, accepted,
                 polled>>

\* is_attached_as_child()
IsAttachedAsChild == role = "CHILD"

Offers == {NoStandbyFound} \cup [rloc: Router, known: BOOLEAN]

\* After evaluate(), update() issues the action or is done.
Continue ==
  pc' = CASE action'.type = "TRIGGER_PREFERRED_REATTACH" -> "target"
          [] action'.type = "TRIGGER_GENERIC_REATTACH"   -> "generic"
          [] action'.type = "NONE"                       -> "idle"

\* get_standby(), is_attached_as_child() and evaluate().
Decide(offer) ==
  LET in == [attached |-> IsAttachedAsChild, parent |-> metrics.parent,
             standby |-> offer.rloc, health |-> metrics.health]
  IN
  /\ pc = "decide"
  /\ Evaluate(now, in)
  /\ quiet' = IF FailoverCompletes THEN 0 ELSE quiet
  /\ Continue
  /\ standby' = IF pc' = "target" THEN offer ELSE NoStandbyFound
  /\ metrics' = NoMetrics
  /\ IF state' = "FAILOVER_TRIGGERED" /\ state # "FAILOVER_TRIGGERED"
     THEN detaches' = 0 /\ accepted' = FALSE
     ELSE UNCHANGED <<detaches, accepted>>
  /\ seen' = {}
  /\ polled' = [now |-> now, quiet |-> quiet']
  /\ UNCHANGED <<now, stackVars>>

\* Slip: the hook does not ask whether the device is a child.
AcceptsDetached == standby.known /\ selected = NoRloc

\* request_failover_to_standby_target(): the stack's hook takes the request
\* of a child that is not attaching already; it may refuse it all the same.
Accepts == standby.known /\ role = "CHILD" /\ selected = NoRloc

\* Slip: the accepted request falls through to the generic one.
TargetAcceptedThenGeneric ==
  /\ pc = "target"
  /\ Accepts
  /\ selected' = standby.rloc
  /\ accepted' = TRUE
  /\ pc' = "generic"
  /\ standby' = NoStandbyFound
  /\ UNCHANGED <<vars, metrics, role, parent, seen, detaches, polled>>

TargetAccepted ==
  /\ pc = "target"
  /\ Accepts
  /\ selected' = standby.rloc
  /\ accepted' = TRUE
  /\ pc' = "idle"
  /\ standby' = NoStandbyFound
  /\ UNCHANGED <<vars, metrics, role, parent, seen, detaches, polled>>

\* The request is rejected: update() falls back at once.
TargetRejected ==
  /\ pc = "target"
  /\ pc' = "generic"
  /\ standby' = NoStandbyFound
  /\ UNCHANGED <<vars, metrics, stackVars, historyVars>>

\* request_failover_generic() of a child: otThreadBecomeDetached().
GenericDetaches ==
  /\ pc = "generic"
  /\ role = "CHILD"
  /\ role' = "DETACHED"
  /\ parent' = NoRloc
  /\ selected' = NoRloc
  /\ detaches' = Saturate(detaches + 1, MaxDetaches)
  /\ pc' = "idle"
  /\ UNCHANGED <<vars, metrics, standby, seen, accepted, polled>>

\* request_failover_generic() that leaves the role alone: Thread is disabled,
\* or the device is detached and attaching, or the stack refuses.  The result
\* is not looked at.
GenericChangesNothing ==
  /\ pc = "generic"
  /\ pc' = "idle"
  /\ UNCHANGED <<vars, metrics, standby, stackVars, historyVars>>

Update ==
  \/ \E d \in 1 .. MaxGap : Begin(d)
  \/ \E offer \in Offers : Decide(offer)
  \/ TargetAccepted
  \/ TargetRejected
  \/ GenericDetaches
  \/ GenericChangesNothing

-----------------------------------------------------------------------------
(***************************************************************************)
(* The OpenThread stack, as far as the component can tell.                 *)
(***************************************************************************)
Become(newRole, newParent) ==
  /\ role' = newRole
  /\ parent' = newParent
  /\ selected' = NoRloc
  /\ seen' = IF pc = "decide" THEN seen \cup ({newParent} \ {NoRloc}) ELSE seen
  /\ UNCHANGED <<vars, loopVars, detaches, accepted, polled>>

Start == role = "DISABLED" /\ Become("DETACHED", NoRloc)

Attach(r) == role = "DETACHED" /\ Become("CHILD", r)

Lose == role = "CHILD" /\ Become("DETACHED", NoRloc)

\* The stack changes parent by itself, as after a better-parent search.
Move(r) == role = "CHILD" /\ r # parent /\ Become("CHILD", r)

SelectedSucceeds == selected # NoRloc /\ Become("CHILD", selected)

SelectedFails == selected # NoRloc /\ Become(role, parent)

Stack ==
  \/ Start
  \/ \E r \in Router : Attach(r) \/ Move(r)
  \/ Lose
  \/ SelectedSucceeds
  \/ SelectedFails

-----------------------------------------------------------------------------
SystemInit ==
  /\ Init
  /\ pc = "idle"
  /\ metrics = NoMetrics
  /\ standby = NoStandbyFound
  /\ role = "DISABLED"
  /\ parent = NoRloc
  /\ selected = NoRloc
  /\ seen = {}
  /\ detaches = 0
  /\ accepted = FALSE
  /\ polled = [now |-> 0, quiet |-> 0]

SystemNext == Update \/ Stack

\* The scheduler runs update() for ever, and a stack that is started and has
\* a router in range attaches.
SystemFairness ==
  /\ WF_systemVars(Update)
  /\ WF_systemVars(Start)
  /\ WF_systemVars(\E r \in Router : Attach(r))

SystemSpec == SystemInit /\ [][SystemNext]_systemVars /\ SystemFairness
-----------------------------------------------------------------------------
SystemTypeOK ==
  /\ pc \in {"idle", "decide", "target", "generic"}
  /\ metrics \in [parent: Rloc, health: Health]
  /\ standby \in [rloc: Rloc, known: BOOLEAN]
  /\ role \in {"DISABLED", "DETACHED", "CHILD"}
  /\ parent \in Rloc /\ (parent # NoRloc <=> role = "CHILD")
  /\ selected \in Rloc /\ (selected # NoRloc => role = "CHILD")
  /\ seen \in SUBSET Router
  /\ detaches \in 0 .. MaxDetaches
  /\ accepted \in BOOLEAN
  /\ polled \in [now: Time, quiet: 0 .. QuietCap]

\* What the component does to the device's attachment.
Detaches == pc = "generic" /\ role = "CHILD" /\ role' = "DETACHED"

\* End to end, the component does not take the device off a parent less than
\* the hold-down after the last failover, whatever the stack did meanwhile.
DetachRespectsHoldDown ==
  [][Detaches /\ pc' = "idle" => quiet >= HoldDown]_systemVars

\* For one decided failover the component detaches the device at most twice,
\* and only once when the stack took the targeted request.
DetachesBounded == detaches <= (IF accepted THEN 1 ELSE 2)

\* A preferred attach is counted a success only if the device really was a
\* child of the target while update() ran.
SuccessWasOnTarget ==
  [][ state = "REATTACHING_PREFERRED" /\ state' = "POST_FAILOVER_STABILIZE"
        => currentTarget \in seen ]_systemVars

\* Once the radio link stops breaking, every decided failover completes,
\* whether requests are accepted, rejected or miss their target.
FailoverCompletesAtLast ==
  (<>[][~Lose]_systemVars)
    => (state = "FAILOVER_TRIGGERED" ~> state = "POST_FAILOVER_STABILIZE")

-----------------------------------------------------------------------------
(***************************************************************************)
(* The controller inside the device, watched at its calls.  Its time       *)
(* stands still from one evaluate() to the next, while update() reads the  *)
(* metrics, issues requests and the stack moves.                           *)
(***************************************************************************)
Controller == INSTANCE FailoverController WITH
                now <- polled.now, quiet <- polled.quiet

\* The calls that update() makes, each with a time read before the metrics, a
\* role read after them and a standby that is anything by then, are a run of
\* the controller that is polled at most MaxGap apart and told anything.
SystemPolls == Controller!Init /\ [][Controller!Next]_(Controller!vars)

\* So what the device asks of the stack follows the failover policy: of one
\* decision come one preferred and one generic request at most, in true time
\* neither early nor late, and none before a new parent has been kept for the
\* stabilise time or was lost.
SystemFollowsPolicy == Controller!PolicySpec

-----------------------------------------------------------------------------
\* docs/milestone-1-architecture-freeze.md: a hard failure is "no successful
\* parent interaction for hard_failure_timeout".  A failover is therefore not
\* decided, on a parent that is not degraded, for a device that attached
\* while update() ran.
HardFailureIsNotANewParent ==
  [][ ( /\ pc = "decide"
        /\ state' = "FAILOVER_TRIGGERED" /\ state # "FAILOVER_TRIGGERED"
        /\ metrics.health = "FAILED" )
      => parent \notin seen ]_systemVars
=============================================================================
