------------------------ MODULE FailoverCalls_proofs ------------------------
(***************************************************************************)
(* Why the controller fails over, for every clock, delay and poll period.  *)
(***************************************************************************)
EXTENDS FailoverCalls, FailoverController_proofs

DegradedForOK == degradedFor = -1 \/ degradedFor \in 0 .. EligibleDelay

\* DecisionJustified speaks of the step out of FAILOVER_ELIGIBLE; the timer of
\* that state has to be tied to what was seen while it ran.
Watched ==
  state = "FAILOVER_ELIGIBLE"
    => /\ degradedFor # -1
       /\ \/ degradedFor >= EligibleDelay
          \/ Elapsed(now, eligibleSince) <= degradedFor

CallInv == TypeOK /\ DegradedForOK /\ Watched

LEMMA CallInvInit == CallInit => CallInv
<1>1. CallInit => TypeOK
  BY TypeInit DEF CallInit
<1>. QED
  BY <1>1
     DEF CallInit, Init, ControllerInit, CallInv, DegradedForOK, Watched

\* A call is a poll of the controller.
LEMMA CallIsPoll ==
  ASSUME NEW d \in 1 .. MaxGap, NEW in \in Inputs, Call(d, in)
  PROVE  Poll(d, in) /\ [Next]_vars
BY DEF Call, Next

\* The eligible state is entered and kept only by an attached device with a
\* degraded parent,
LEMMA EligibleSeesDegraded ==
  ASSUME NEW t, NEW in, Evaluate(t, in), state' = "FAILOVER_ELIGIBLE"
  PROVE  /\ SeesDegraded(in)
         /\ \/ eligibleSince' = t
            \/ state = "FAILOVER_ELIGIBLE" /\ eligibleSince' = eligibleSince
BY DEF Evaluate, Bootstrap, AttachingInitial, NoStandby, StandbyWarm, Eligible,
       TriggerPreferred, TriggerGeneric, PreferredSuccess, PreferredFallback,
       PreferredWait, ReattachingGeneric, PostFailoverStabilize,
       CompleteFailover, Transition, Stay, AttachedState, SeesDegraded

\* and a failover is decided for a failed parent, or after the delay.
LEMMA DecidedFor ==
  ASSUME NEW t, NEW in, Evaluate(t, in), Decides
  PROVE  /\ in.attached
         /\ \/ in.health = "FAILED"
            \/ /\ SeesDegraded(in)
               /\ state = "FAILOVER_ELIGIBLE" /\ EligibleExpired(t)
BY DEF Evaluate, Bootstrap, AttachingInitial, NoStandby, StandbyWarm, Eligible,
       TriggerPreferred, TriggerGeneric, PreferredSuccess, PreferredFallback,
       PreferredWait, ReattachingGeneric, PostFailoverStabilize,
       CompleteFailover, Transition, Stay, AttachedState, SeesDegraded, Decides

\* What was seen keeps pace with the timer.
LEMMA SeenLongEnough ==
  ASSUME CallInv, NEW d \in 1 .. MaxGap, NEW in \in Inputs, Call(d, in),
         SeesDegraded(in)
  PROVE  /\ degradedFor' \in 0 .. EligibleDelay
         /\ state = "FAILOVER_ELIGIBLE" =>
              \/ degradedFor' >= EligibleDelay
              \/ Elapsed(UAdd(now, d, Wrap), eligibleSince) <= degradedFor'
<1>0. /\ now \in Time /\ eligibleSince \in Time
      /\ EligibleDelay \in Nat /\ d \in Nat
  BY TimerAssumption DEF CallInv, TypeOK
<1>1. CASE degradedFor = -1
  <2>1. degradedFor' = 0
    BY <1>1 DEF Call
  <2>. QED
    BY <1>0, <1>1, <2>1 DEF CallInv, Watched
<1>2. CASE degradedFor \in 0 .. EligibleDelay
  <2>1. degradedFor' = Saturate(degradedFor + d, EligibleDelay)
    BY <1>0, <1>2 DEF Call
  <2>2. degradedFor' \in 0 .. EligibleDelay
    BY <1>0, <1>2, <2>1 DEF Saturate
  <2>3. /\ Elapsed(UAdd(now, d, Wrap), eligibleSince)
             <= Elapsed(now, eligibleSince) + d
        /\ Elapsed(UAdd(now, d, Wrap), eligibleSince) \in Nat
        /\ Elapsed(now, eligibleSince) \in Nat
    BY <1>0, ElapsedGrows, ElapsedNat
  <2>4. state = "FAILOVER_ELIGIBLE"
          => \/ degradedFor >= EligibleDelay
             \/ Elapsed(now, eligibleSince) <= degradedFor
    BY DEF CallInv, Watched
  <2>. QED
    BY <1>0, <1>2, <2>1, <2>2, <2>3, <2>4 DEF Saturate
<1>. QED
  BY <1>1, <1>2 DEF CallInv, DegradedForOK

LEMMA CallInvStep ==
  ASSUME CallInv, [CallNext]_callVars
  PROVE  CallInv'
<1>1. CASE UNCHANGED callVars
  BY <1>1, TypeStep
     DEF callVars, vars, controllerVars, CallInv, DegradedForOK, Watched,
         Elapsed
<1>2. ASSUME NEW d \in 1 .. MaxGap, NEW in \in Inputs, Call(d, in)
      PROVE  CallInv'
  <2> DEFINE t == UAdd(now, d, Wrap)
  <2>1. TypeOK'
    BY <1>2, CallIsPoll, TypeStep DEF CallInv
  <2>2. now' = t /\ Evaluate(t, in)
    BY <1>2 DEF Call, Poll
  <2> HIDE DEF t
  <2>3. DegradedForOK'
    <3>1. CASE SeesDegraded(in)
      BY <1>2, <3>1, SeenLongEnough DEF DegradedForOK
    <3>2. CASE ~SeesDegraded(in)
      BY <1>2, <3>2 DEF Call, DegradedForOK
    <3>. QED
      BY <3>1, <3>2
  <2>4. ASSUME state' = "FAILOVER_ELIGIBLE"
        PROVE  /\ degradedFor' # -1
               /\ \/ degradedFor' >= EligibleDelay
                  \/ Elapsed(t, eligibleSince') <= degradedFor'
    <3>1. /\ SeesDegraded(in)
          /\ \/ eligibleSince' = t
             \/ state = "FAILOVER_ELIGIBLE" /\ eligibleSince' = eligibleSince
      BY <2>2, <2>4, EligibleSeesDegraded
    <3>2. degradedFor' \in 0 .. EligibleDelay
      BY <1>2, <3>1, SeenLongEnough
    <3>3. CASE eligibleSince' = t
      <4>1. Elapsed(t, eligibleSince') = 0
        BY <2>1, <2>2, <3>3, ElapsedZero DEF TypeOK
      <4>. QED
        BY <3>2, <4>1, TimerAssumption
    <3>4. CASE state = "FAILOVER_ELIGIBLE" /\ eligibleSince' = eligibleSince
      BY <1>2, <3>1, <3>2, <3>4, SeenLongEnough, TimerAssumption DEF t
    <3>. QED
      BY <3>1, <3>3, <3>4
  <2>. QED
    BY <2>1, <2>2, <2>3, <2>4 DEF CallInv, Watched
<1>. QED
  BY <1>1, <1>2 DEF CallNext

LEMMA CallJustified ==
  ASSUME CallInv, NEW d \in 1 .. MaxGap, NEW in \in Inputs, Call(d, in), Decides
  PROVE  \/ cause' = "FAILED"
         \/ cause' = "DEGRADED" /\ degradedFor' >= EligibleDelay
<1> DEFINE t == UAdd(now, d, Wrap)
<1>1. Evaluate(t, in)
  BY DEF Call, Poll
<1> HIDE DEF t
<1>2. /\ in.attached
      /\ \/ in.health = "FAILED"
         \/ /\ SeesDegraded(in)
            /\ state = "FAILOVER_ELIGIBLE" /\ EligibleExpired(t)
  BY <1>1, DecidedFor
<1>3. cause' = in.health
  BY <1>2 DEF Call
<1>4. ASSUME SeesDegraded(in), state = "FAILOVER_ELIGIBLE", EligibleExpired(t)
      PROVE  degradedFor' >= EligibleDelay
  <2>1. /\ degradedFor' \in 0 .. EligibleDelay
        /\ \/ degradedFor' >= EligibleDelay
           \/ Elapsed(t, eligibleSince) <= degradedFor'
    BY <1>4, SeenLongEnough DEF t
  <2>2. Elapsed(t, eligibleSince) >= EligibleDelay
    BY <1>4 DEF EligibleExpired
  <2>3. Elapsed(t, eligibleSince) \in Nat
    BY ElapsedNat, ClockType DEF CallInv, TypeOK, t
  <2>. QED
    BY <2>1, <2>2, <2>3, TimerAssumption
<1>. QED
  BY <1>2, <1>3, <1>4 DEF SeesDegraded

\* For every delay and clock: no failover without a cause.  It is decided at a
\* poll of an attached device that finds the parent failed, or after every poll
\* of at least failover_eligible_delay found it degraded.
THEOREM DecisionTheorem == CallSpec => DecisionJustified
<1> DEFINE Justified == Decides => \/ cause' = "FAILED"
                                   \/ /\ cause' = "DEGRADED"
                                      /\ degradedFor' >= EligibleDelay
<1>1. CallInv /\ [CallNext]_callVars => [Justified]_callVars
  BY CallJustified DEF CallNext
<1>. QED
  BY CallInvInit, CallInvStep, <1>1, PTL DEF CallSpec, DecisionJustified
=============================================================================
