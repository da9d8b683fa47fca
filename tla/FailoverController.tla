------------------------- MODULE FailoverController -------------------------
(***************************************************************************)
(* The failover state machine of src/components/biparental_ed/             *)
(* failover_controller.{h,cpp}.  BiparentalEDComponent::update() calls     *)
(* evaluate() once per poll with what it has just read: the poll's time,   *)
(* whether the device is attached as a child and to which parent, the      *)
(* standby candidate, and the parent's health.  evaluate() takes at most   *)
(* one transition and returns the action update() then issues.             *)
(*                                                                         *)
(* One action below is one case of evaluate()'s switch; Poll is one call.  *)
(* Timestamps are uint32_t milliseconds and counters uint32_t: Wrap and    *)
(* CounterWrap stand for 2^32.                                             *)
(***************************************************************************)
EXTENDS UnsignedArithmetic

CONSTANTS
  Router,            \* the RLOC16s of the routers in range
  NoRloc,            \* 0xffff or 0xfffe: no parent, no standby, no target
  Wrap,              \* number of values of a millisecond timestamp
  CounterWrap,       \* number of values of a diagnostic counter
  MaxGap,            \* most milliseconds between two polls
  HoldDown,          \* hold_down_time_ms_
  EligibleDelay,     \* failover_eligible_delay_ms_
  StabilizeTime,     \* post_failover_stabilize_time_ms_
  PreferredTimeout,  \* preferred_reattach_timeout_ms_
  QuietCap           \* where the history variable quiet stops counting

ASSUME RlocAssumption == NoRloc \notin Router

ASSUME WidthAssumption ==
  /\ Wrap \in Nat \ {0}
  /\ CounterWrap \in Nat \ {0}

\* The configured durations are unsigned; a poll comes often enough that a
\* timer armed at one poll cannot run all the way around before the poll
\* that finds it expired.
ASSUME TimerAssumption ==
  /\ HoldDown \in Nat
  /\ EligibleDelay \in Nat
  /\ StabilizeTime \in Nat
  /\ PreferredTimeout \in Nat
  /\ MaxGap \in Nat \ {0}
  /\ EligibleDelay + MaxGap <= Wrap
  /\ StabilizeTime + MaxGap <= Wrap
  /\ PreferredTimeout + MaxGap <= Wrap

ASSUME QuietCapAssumption == QuietCap \in Nat /\ QuietCap >= HoldDown

VARIABLES
  now,            \* now_ms of the latest poll
  state,          \* state_
  stateEntered,   \* state_entered_ms_
  eligibleSince,  \* failover_eligible_since_ms_
  lastFailover,   \* last_failover_ms_
  failoverCount,  \* failover_count_
  attemptCount,   \* preferred_attempt_count_
  successCount,   \* preferred_success_count_
  missCount,      \* preferred_miss_count_
  outcomeEvents,  \* preferred_outcome_event_count_
  currentTarget,  \* preferred_current_target_rloc16_
  lastOutcome,    \* preferred_last_{outcome,target_rloc16,...}_
  action,         \* the FailoverAction returned by the latest call
  quiet           \* history: milliseconds that really passed since the last
                  \* completed failover (or boot), up to QuietCap

outcomeVars == <<lastOutcome, outcomeEvents>>
attemptVars == <<attemptCount, successCount, missCount, currentTarget>>
completionVars == <<lastFailover, failoverCount>>
controllerVars == <<state, stateEntered, eligibleSince, completionVars,
                    attemptVars, outcomeVars, action>>
vars == <<now, controllerVars, quiet>>

-----------------------------------------------------------------------------
FailoverState ==
  {"BOOTSTRAP", "ATTACHING_INITIAL", "ATTACHED_ACTIVE_NO_STANDBY",
   "ATTACHED_ACTIVE_STANDBY_WARM", "FAILOVER_ELIGIBLE", "FAILOVER_TRIGGERED",
   "REATTACHING_PREFERRED", "REATTACHING_GENERIC", "POST_FAILOVER_STABILIZE"}

FailoverActionType ==
  {"NONE", "TRIGGER_PREFERRED_REATTACH", "TRIGGER_GENERIC_REATTACH"}

FailoverActionReason ==
  {"NONE", "NO_STANDBY_AVAILABLE", "PREFERRED_MISS", "PREFERRED_TIMEOUT"}

PreferredReattachOutcome == {"NONE", "SUCCESS", "MISS", "TIMEOUT"}

Rloc == Router \cup {NoRloc}
Time == 0 .. Wrap - 1
Count == 0 .. CounterWrap - 1
Health == {"HEALTHY", "DEGRADED", "FAILED"}

FailoverAction == [type: FailoverActionType, reason: FailoverActionReason,
                   target: Rloc, parent: Rloc]

OutcomeRecord == [outcome: PreferredReattachOutcome, target: Rloc,
                  parent: Rloc, result: FailoverState]

\* What one call of evaluate() is told.  standby is NoRloc when
\* standby_available is false; health_failed and health_degraded exclude each
\* other because both are read off one ParentHealth value.
Inputs == [attached: BOOLEAN, parent: Rloc, standby: Rloc, health: Health]

NoAction == [type |-> "NONE", reason |-> "NONE",
             target |-> NoRloc, parent |-> NoRloc]

StandbyAvailable(in) == in.standby # NoRloc

\* attached_as_child && attached_parent_known && parent == current target
OnTarget(in) ==
  /\ in.attached
  /\ in.parent # NoRloc
  /\ in.parent = currentTarget

-----------------------------------------------------------------------------
\* Helpers of the C++ class.

Elapsed(t, since) == USub(t, since, Wrap)

HoldDownExpired(t) == Elapsed(t, lastFailover) >= HoldDown

\* Slip: early by one.
EligibleEarly(t) == Elapsed(t, eligibleSince) + 1 >= EligibleDelay

EligibleExpired(t) == Elapsed(t, eligibleSince) >= EligibleDelay

\* Slip: compares timestamps instead of their difference.
StabilizeAbsolute(t) == t >= stateEntered + StabilizeTime

\* Slip: early by one.
StabilizeEarly(t) == Elapsed(t, stateEntered) + 1 >= StabilizeTime

StabilizeExpired(t) == Elapsed(t, stateEntered) >= StabilizeTime

\* Slips: late by one, and comparing timestamps.
PreferredLate(t) == Elapsed(t, stateEntered) > PreferredTimeout
PreferredAbsolute(t) == t >= stateEntered + PreferredTimeout

PreferredExpired(t) == Elapsed(t, stateEntered) >= PreferredTimeout

\* Slip: a counter wider than its type.
IncrementUnbounded(c) == c + 1

Increment(c) == UAdd(c, 1, CounterWrap)

Transition(next, t) == state' = next /\ stateEntered' = t

Stay == UNCHANGED <<state, stateEntered>>

\* Slip: an outcome that raises no event.
RecordSilently(outcome, target, parent, result) ==
  /\ lastOutcome' = [outcome |-> outcome, target |-> target,
                     parent |-> parent, result |-> result]
  /\ UNCHANGED outcomeEvents

RecordPreferredOutcome(outcome, target, parent, result) ==
  /\ lastOutcome' = [outcome |-> outcome, target |-> target,
                     parent |-> parent, result |-> result]
  /\ outcomeEvents' = Increment(outcomeEvents)

Return(type, reason, target) ==
  action' = [type |-> type, reason |-> reason,
             target |-> target, parent |-> NoRloc]

ReturnNothing == action' = NoAction

AttachedState(in) ==
  IF StandbyAvailable(in) THEN "ATTACHED_ACTIVE_STANDBY_WARM"
                          ELSE "ATTACHED_ACTIVE_NO_STANDBY"

\* Slip: the hold-down is not armed.
CompleteUnarmed(t) ==
  /\ Transition("POST_FAILOVER_STABILIZE", t)
  /\ UNCHANGED lastFailover
  /\ failoverCount' = Increment(failoverCount)

\* failover_count_ and last_failover_ms_ when a failover completes
CompleteFailover(t) ==
  /\ Transition("POST_FAILOVER_STABILIZE", t)
  /\ lastFailover' = t
  /\ failoverCount' = Increment(failoverCount)

-----------------------------------------------------------------------------
\* The cases of the switch in evaluate(); t is now_ms, in the other arguments.

Bootstrap(t, in) ==
  /\ state = "BOOTSTRAP"
  /\ Transition("ATTACHING_INITIAL", t)
  /\ ReturnNothing
  /\ UNCHANGED <<eligibleSince, completionVars, attemptVars, outcomeVars>>

AttachingInitial(t, in) ==
  /\ state = "ATTACHING_INITIAL"
  /\ IF in.attached THEN Transition(AttachedState(in), t) ELSE Stay
  /\ ReturnNothing
  /\ UNCHANGED <<eligibleSince, completionVars, attemptVars, outcomeVars>>

NoStandby(t, in) ==
  /\ state = "ATTACHED_ACTIVE_NO_STANDBY"
  /\ \/ /\ ~in.attached
        /\ Transition("ATTACHING_INITIAL", t)
     \/ /\ in.attached /\ StandbyAvailable(in)
        /\ Transition("ATTACHED_ACTIVE_STANDBY_WARM", t)
     \/ /\ in.attached /\ ~StandbyAvailable(in)
        /\ IF in.health = "FAILED" /\ HoldDownExpired(t)
           THEN Transition("FAILOVER_TRIGGERED", t)
           ELSE Stay
  /\ ReturnNothing
  /\ UNCHANGED <<eligibleSince, completionVars, attemptVars, outcomeVars>>

StandbyWarm(t, in) ==
  /\ state = "ATTACHED_ACTIVE_STANDBY_WARM"
  /\ \/ /\ ~in.attached
        /\ Transition("ATTACHING_INITIAL", t)
        /\ UNCHANGED eligibleSince
     \/ /\ in.attached /\ ~StandbyAvailable(in)
        /\ Transition("ATTACHED_ACTIVE_NO_STANDBY", t)
        /\ UNCHANGED eligibleSince
     \/ /\ in.attached /\ StandbyAvailable(in)
        /\ in.health = "FAILED" /\ HoldDownExpired(t)
        /\ Transition("FAILOVER_TRIGGERED", t)
        /\ UNCHANGED eligibleSince
     \/ /\ in.attached /\ StandbyAvailable(in)
        /\ in.health = "DEGRADED" /\ HoldDownExpired(t)
        /\ Transition("FAILOVER_ELIGIBLE", t)
        /\ eligibleSince' = t
     \/ /\ in.attached /\ StandbyAvailable(in)
        /\ in.health = "HEALTHY" \/ ~HoldDownExpired(t)
        /\ Stay
        /\ UNCHANGED eligibleSince
  /\ ReturnNothing
  /\ UNCHANGED <<completionVars, attemptVars, outcomeVars>>

\* A hard failure is not "degraded": FAILED takes the second alternative.
Eligible(t, in) ==
  /\ state = "FAILOVER_ELIGIBLE"
  /\ \/ /\ ~in.attached
        /\ Transition("ATTACHING_INITIAL", t)
     \/ /\ in.attached /\ in.health # "DEGRADED"
        /\ Transition(AttachedState(in), t)
     \/ /\ in.attached /\ in.health = "DEGRADED"
        /\ IF EligibleExpired(t) THEN Transition("FAILOVER_TRIGGERED", t)
                                 ELSE Stay
  /\ ReturnNothing
  /\ UNCHANGED <<eligibleSince, completionVars, attemptVars, outcomeVars>>

TriggerPreferred(t, in) ==
  /\ state = "FAILOVER_TRIGGERED"
  /\ StandbyAvailable(in)
  /\ Transition("REATTACHING_PREFERRED", t)
  /\ attemptCount' = Increment(attemptCount)
  /\ currentTarget' = in.standby
  /\ Return("TRIGGER_PREFERRED_REATTACH", "NONE", in.standby)
  /\ UNCHANGED <<eligibleSince, completionVars, successCount, missCount,
                 outcomeVars>>

TriggerGeneric(t, in) ==
  /\ state = "FAILOVER_TRIGGERED"
  /\ ~StandbyAvailable(in)
  /\ Transition("REATTACHING_GENERIC", t)
  /\ Return("TRIGGER_GENERIC_REATTACH", "NO_STANDBY_AVAILABLE", NoRloc)
  /\ UNCHANGED <<eligibleSince, completionVars, attemptVars, outcomeVars>>

\* Slip: the target outlives the attach.
PreferredSuccessKeepsTarget(t, in) ==
  /\ state = "REATTACHING_PREFERRED"
  /\ OnTarget(in)
  /\ CompleteFailover(t)
  /\ successCount' = Increment(successCount)
  /\ RecordPreferredOutcome("SUCCESS", currentTarget, in.parent,
                            "POST_FAILOVER_STABILIZE")
  /\ ReturnNothing
  /\ UNCHANGED <<eligibleSince, attemptCount, missCount, currentTarget>>

PreferredSuccess(t, in) ==
  /\ state = "REATTACHING_PREFERRED"
  /\ OnTarget(in)
  /\ CompleteFailover(t)
  /\ successCount' = Increment(successCount)
  /\ RecordPreferredOutcome("SUCCESS", currentTarget, in.parent,
                            "POST_FAILOVER_STABILIZE")
  /\ currentTarget' = NoRloc
  /\ ReturnNothing
  /\ UNCHANGED <<eligibleSince, attemptCount, missCount>>

PreferredFallback(t, in) ==
  /\ state = "REATTACHING_PREFERRED"
  /\ ~OnTarget(in)
  /\ PreferredExpired(t)
  /\ Transition("REATTACHING_GENERIC", t)
  /\ missCount' = Increment(missCount)
  /\ RecordPreferredOutcome(IF in.attached THEN "MISS" ELSE "TIMEOUT",
                            currentTarget, NoRloc, "REATTACHING_GENERIC")
  /\ Return("TRIGGER_GENERIC_REATTACH",
            IF in.attached THEN "PREFERRED_MISS" ELSE "PREFERRED_TIMEOUT",
            currentTarget)
  /\ currentTarget' = NoRloc
  /\ UNCHANGED <<eligibleSince, completionVars, attemptCount, successCount>>

PreferredWait(t, in) ==
  /\ state = "REATTACHING_PREFERRED"
  /\ ~OnTarget(in)
  /\ ~PreferredExpired(t)
  /\ Stay
  /\ ReturnNothing
  /\ UNCHANGED <<eligibleSince, completionVars, attemptVars, outcomeVars>>

ReattachingGeneric(t, in) ==
  /\ state = "REATTACHING_GENERIC"
  /\ IF in.attached THEN CompleteFailover(t)
                    ELSE Stay /\ UNCHANGED completionVars
  /\ ReturnNothing
  /\ UNCHANGED <<eligibleSince, attemptVars, outcomeVars>>

PostFailoverStabilize(t, in) ==
  /\ state = "POST_FAILOVER_STABILIZE"
  /\ \/ /\ ~in.attached
        /\ Transition("ATTACHING_INITIAL", t)
     \/ /\ in.attached
        /\ IF StabilizeExpired(t) THEN Transition(AttachedState(in), t)
                                  ELSE Stay
  /\ ReturnNothing
  /\ UNCHANGED <<eligibleSince, completionVars, attemptVars, outcomeVars>>

\* One call of evaluate().
Evaluate(t, in) ==
  \/ Bootstrap(t, in)
  \/ AttachingInitial(t, in)
  \/ NoStandby(t, in)
  \/ StandbyWarm(t, in)
  \/ Eligible(t, in)
  \/ TriggerPreferred(t, in)
  \/ TriggerGeneric(t, in)
  \/ PreferredSuccess(t, in)
  \/ PreferredFallback(t, in)
  \/ PreferredWait(t, in)
  \/ ReattachingGeneric(t, in)
  \/ PostFailoverStabilize(t, in)

-----------------------------------------------------------------------------
ControllerInit ==
  /\ state = "BOOTSTRAP"
  /\ stateEntered = 0
  /\ eligibleSince = 0
  /\ lastFailover = 0
  /\ failoverCount = 0
  /\ attemptCount = 0
  /\ successCount = 0
  /\ missCount = 0
  /\ outcomeEvents = 0
  /\ currentTarget = NoRloc
  /\ lastOutcome = [outcome |-> "NONE", target |-> NoRloc,
                    parent |-> NoRloc, result |-> "BOOTSTRAP"]
  /\ action = NoAction

Init == now = 0 /\ ControllerInit /\ quiet = 0

FailoverCompletes == /\ state' = "POST_FAILOVER_STABILIZE"
                     /\ state # "POST_FAILOVER_STABILIZE"

CountQuiet(d) ==
  quiet' = IF FailoverCompletes THEN 0 ELSE Saturate(quiet + d, QuietCap)

\* update() polls d milliseconds after the last poll.
Poll(d, in) ==
  LET t == UAdd(now, d, Wrap) IN
  /\ now' = t
  /\ Evaluate(t, in)
  /\ CountQuiet(d)

Next == \E d \in 1 .. MaxGap, in \in Inputs : Poll(d, in)

\* ESPHome's scheduler calls a PollingComponent's update() for ever.
Spec == Init /\ [][Next]_vars /\ WF_vars(Next)
-----------------------------------------------------------------------------
TypeOK ==
  /\ now \in Time
  /\ state \in FailoverState
  /\ stateEntered \in Time
  /\ eligibleSince \in Time
  /\ lastFailover \in Time
  /\ failoverCount \in Count
  /\ attemptCount \in Count
  /\ successCount \in Count
  /\ missCount \in Count
  /\ outcomeEvents \in Count
  /\ currentTarget \in Rloc
  /\ lastOutcome \in OutcomeRecord
  /\ action \in FailoverAction
  /\ quiet \in 0 .. QuietCap
-----------------------------------------------------------------------------
(***************************************************************************)
(* Safety.                                                                 *)
(***************************************************************************)

\* Hold-down: whatever path led there (a hard failure, or a degradation whose
\* hold-down was checked only when FAILOVER_ELIGIBLE was entered), a failover
\* under way means that HoldDown milliseconds of real time passed since the
\* last one, also when the uint32_t clock has wrapped in between.
HoldDownRespected ==
  state \in {"FAILOVER_ELIGIBLE", "FAILOVER_TRIGGERED",
             "REATTACHING_PREFERRED", "REATTACHING_GENERIC"}
    => quiet >= HoldDown

\* The hold-down timer, a difference of wrapping timestamps, never shows more
\* than the time that really passed since the last failover (until that is so
\* long ago that the hold-down is over anyway).
QuietMeasured == quiet >= HoldDown \/ Elapsed(now, lastFailover) <= quiet

\* The published counters balance: every preferred attempt ends in exactly one
\* success or one miss, except the one in flight, and every outcome raises one
\* outcome event, which is what update()'s logging edge-detects.
AttemptsAccounted ==
  /\ outcomeEvents = UAdd(successCount, missCount, CounterWrap)
  /\ attemptCount = IF state = "REATTACHING_PREFERRED"
                    THEN Increment(outcomeEvents) ELSE outcomeEvents

\* A target is held exactly while its attach is awaited, so that a parent seen
\* in another state is never taken for the answer to an old request.
TargetOnlyInFlight ==
  (currentTarget # NoRloc) <=> (state = "REATTACHING_PREFERRED")

-----------------------------------------------------------------------------
(***************************************************************************)
(* The controller implements the abstract policy.  The age of a timed      *)
(* phase is read off the wrapping timestamps.                              *)
(***************************************************************************)
PhaseOf ==
  CASE state \in {"BOOTSTRAP", "ATTACHING_INITIAL"} -> "seeking"
    [] state \in {"ATTACHED_ACTIVE_NO_STANDBY",
                  "ATTACHED_ACTIVE_STANDBY_WARM"} -> "serving"
    [] state = "FAILOVER_ELIGIBLE"                -> "watching"
    [] state = "FAILOVER_TRIGGERED"               -> "decided"
    [] state = "REATTACHING_PREFERRED"            -> "preferred"
    [] state = "REATTACHING_GENERIC"              -> "generic"
    [] state = "POST_FAILOVER_STABILIZE"          -> "settling"

AgeOf ==
  CASE state = "FAILOVER_ELIGIBLE" -> Elapsed(now, eligibleSince)
    [] state \in {"REATTACHING_PREFERRED", "POST_FAILOVER_STABILIZE"}
         -> Elapsed(now, stateEntered)
    [] OTHER -> 0

Deadline ==
  CASE state = "FAILOVER_ELIGIBLE"       -> EligibleDelay
    [] state = "REATTACHING_PREFERRED"   -> PreferredTimeout
    [] state = "POST_FAILOVER_STABILIZE" -> StabilizeTime
    [] OTHER                             -> 1

\* No timed state outlives the poll that finds its deadline passed.
NoDeadlineMissed == AgeOf = 0 \/ AgeOf < Deadline

Policy == INSTANCE FailoverPolicy WITH
            phase <- PhaseOf, target <- currentTarget,
            request <- action.type, quiet <- quiet, age <- AgeOf

\* Every run of the controller is a run of the policy: no failover inside the
\* hold-down, at most one preferred and one generic request per failover, and
\* timers (eligibility delay, preferred timeout, stabilise time) that fire
\* neither early nor late although the clock wraps.
PolicySpec == Policy!PSpec

-----------------------------------------------------------------------------
(***************************************************************************)
(* Liveness, from the scheduler's polls alone: no help of the network.     *)
(***************************************************************************)
Passing == {"BOOTSTRAP", "FAILOVER_ELIGIBLE", "FAILOVER_TRIGGERED",
            "REATTACHING_PREFERRED", "POST_FAILOVER_STABILIZE"}

\* Every state with a deadline is left, whatever the stack does: only the two
\* attaching states and the two attached ones may last.
NoStateOverstays == \A s \in Passing : (state = s) ~> (state # s)

\* A failover that was decided leads to a request to the stack, and a
\* preferred request that is not answered leads to the generic one.
DecisionIsCarriedOut ==
  (state = "FAILOVER_TRIGGERED")
    ~> (state \in {"REATTACHING_GENERIC", "POST_FAILOVER_STABILIZE"})
=============================================================================
