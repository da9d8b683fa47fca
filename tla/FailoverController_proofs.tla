---------------------- MODULE FailoverController_proofs ----------------------
(***************************************************************************)
(* Proofs about FailoverController, for every number of routers, every     *)
(* width of the clock and the counters, and every configured duration.     *)
(***************************************************************************)
EXTENDS FailoverController, TLAPS

-----------------------------------------------------------------------------
(***************************************************************************)
(* Unsigned arithmetic.                                                    *)
(***************************************************************************)

\* The case distinctions are the arithmetic of the code's uint32_t: sum and
\* difference modulo the number of values, also where they wrap.
THEOREM UnsignedTheorem ==
  ASSUME NEW w \in Nat \ {0}, NEW a \in 0 .. w - 1, NEW b \in 0 .. w - 1
  PROVE  /\ UAdd(a, b, w) = (a + b) % w
         /\ USub(a, b, w) = (a - b) % w
BY DEF UAdd, USub

\* Both operators stay within the type.
LEMMA UnsignedClosed ==
  ASSUME NEW w \in Nat \ {0}, NEW a \in 0 .. w - 1, NEW b \in 0 .. w
  PROVE  /\ UAdd(a, b, w) \in 0 .. w - 1
         /\ b < w => USub(a, b, w) \in 0 .. w - 1
BY DEF UAdd, USub

\* The elapsed time a wrapping clock shows never exceeds the true one.
LEMMA ElapsedGrows ==
  ASSUME NEW n \in Time, NEW s \in Time, NEW d \in 1 .. MaxGap
  PROVE  /\ Elapsed(UAdd(n, d, Wrap), s) \in Nat
         /\ Elapsed(UAdd(n, d, Wrap), s) <= Elapsed(n, s) + d
BY WidthAssumption, TimerAssumption DEF Elapsed, UAdd, USub, Time

\* It is exact as long as the true one is below the modulus.
LEMMA ElapsedExact ==
  ASSUME NEW n \in Time, NEW s \in Time, NEW d \in 1 .. MaxGap,
         Elapsed(n, s) + d < Wrap
  PROVE  Elapsed(UAdd(n, d, Wrap), s) = Elapsed(n, s) + d
BY WidthAssumption, TimerAssumption DEF Elapsed, UAdd, USub, Time

LEMMA ElapsedZero ==
  ASSUME NEW n \in Time
  PROVE  Elapsed(n, n) = 0
BY WidthAssumption DEF Elapsed, USub, Time

LEMMA ElapsedNat ==
  ASSUME NEW n \in Time, NEW s \in Time
  PROVE  Elapsed(n, s) \in Nat
BY WidthAssumption DEF Elapsed, USub, Time

\* The clock of the next poll is a timestamp.
LEMMA ClockType ==
  ASSUME NEW n \in Time, NEW d \in 1 .. MaxGap
  PROVE  UAdd(n, d, Wrap) \in Time
BY WidthAssumption, TimerAssumption DEF UAdd, Time

LEMMA IncrementType ==
  ASSUME NEW c \in Count
  PROVE  Increment(c) \in Count
BY WidthAssumption DEF Increment, UAdd, Count

\* Counting one more success or one more miss counts one more outcome.
LEMMA IncrementOutcomes ==
  ASSUME NEW s \in Count, NEW m \in Count
  PROVE  /\ UAdd(Increment(s), m, CounterWrap)
              = Increment(UAdd(s, m, CounterWrap))
         /\ UAdd(s, Increment(m), CounterWrap)
              = Increment(UAdd(s, m, CounterWrap))
BY WidthAssumption DEF Increment, UAdd, Count

-----------------------------------------------------------------------------
(***************************************************************************)
(* Type correctness.                                                       *)
(***************************************************************************)
LEMMA TypeInit == Init => TypeOK
BY WidthAssumption, QuietCapAssumption
   DEF Init, ControllerInit, TypeOK, Time, Count, FailoverState, Rloc,
       OutcomeRecord, PreferredReattachOutcome, FailoverAction, NoAction,
       FailoverActionType, FailoverActionReason

LEMMA TypeStep == TypeOK /\ [Next]_vars => TypeOK'
<1> SUFFICES ASSUME TypeOK, [Next]_vars PROVE TypeOK'
  OBVIOUS
<1>1. CASE UNCHANGED vars
  BY <1>1 DEF vars, controllerVars, completionVars, attemptVars, outcomeVars,
              TypeOK
<1>2. ASSUME NEW d \in 1 .. MaxGap, NEW in \in Inputs, Poll(d, in)
      PROVE  TypeOK'
  <2> DEFINE t == UAdd(now, d, Wrap)
  <2>1. t \in Time /\ now' = t
    BY <1>2, ClockType DEF Poll, TypeOK
  <2>2. Evaluate(t, in) /\ CountQuiet(d)
    BY <1>2 DEF Poll
  <2>3. quiet' \in 0 .. QuietCap
    BY <2>2, QuietCapAssumption, TimerAssumption
       DEF CountQuiet, Saturate, TypeOK
  <2>4. NoAction \in FailoverAction
    BY DEF NoAction, FailoverAction, FailoverActionType,
           FailoverActionReason, Rloc
  <2>5. /\ in.attached \in BOOLEAN
        /\ in.parent \in Rloc
        /\ in.standby \in Rloc
        /\ AttachedState(in) \in FailoverState
    BY DEF Inputs, AttachedState, FailoverState
  <2>6. /\ Increment(failoverCount) \in Count
        /\ Increment(attemptCount) \in Count
        /\ Increment(successCount) \in Count
        /\ Increment(missCount) \in Count
        /\ Increment(outcomeEvents) \in Count
    BY IncrementType DEF TypeOK
  <2> HIDE DEF t
  <2> USE DEF TypeOK, Transition, Stay, ReturnNothing, completionVars,
              attemptVars, outcomeVars
  <2>10. CASE Bootstrap(t, in)
    BY <2>1, <2>3, <2>4, <2>10 DEF Bootstrap, FailoverState
  <2>11. CASE AttachingInitial(t, in)
    BY <2>1, <2>3, <2>4, <2>5, <2>11 DEF AttachingInitial
  <2>12. CASE NoStandby(t, in)
    BY <2>1, <2>3, <2>4, <2>12 DEF NoStandby, FailoverState
  <2>13. CASE StandbyWarm(t, in)
    BY <2>1, <2>3, <2>4, <2>13 DEF StandbyWarm, FailoverState
  <2>14. CASE Eligible(t, in)
    BY <2>1, <2>3, <2>4, <2>5, <2>14 DEF Eligible, FailoverState
  <2>15. CASE TriggerPreferred(t, in)
    BY <2>1, <2>3, <2>5, <2>6, <2>15
       DEF TriggerPreferred, FailoverState, Return, FailoverAction,
           FailoverActionType, FailoverActionReason, Rloc
  <2>16. CASE TriggerGeneric(t, in)
    BY <2>1, <2>3, <2>16
       DEF TriggerGeneric, FailoverState, Return, FailoverAction,
           FailoverActionType, FailoverActionReason, Rloc
  <2>17. CASE PreferredSuccess(t, in)
    BY <2>1, <2>3, <2>4, <2>5, <2>6, <2>17
       DEF PreferredSuccess, CompleteFailover, FailoverState, Rloc,
           RecordPreferredOutcome, OutcomeRecord, PreferredReattachOutcome
  <2>18. CASE PreferredFallback(t, in)
    BY <2>1, <2>3, <2>6, <2>18
       DEF PreferredFallback, FailoverState, Rloc, Return, FailoverAction,
           FailoverActionType, FailoverActionReason,
           RecordPreferredOutcome, OutcomeRecord, PreferredReattachOutcome
  <2>19. CASE PreferredWait(t, in)
    BY <2>1, <2>3, <2>4, <2>19 DEF PreferredWait
  <2>20. CASE ReattachingGeneric(t, in)
    BY <2>1, <2>3, <2>4, <2>6, <2>20
       DEF ReattachingGeneric, CompleteFailover, FailoverState
  <2>21. CASE PostFailoverStabilize(t, in)
    BY <2>1, <2>3, <2>4, <2>5, <2>21
       DEF PostFailoverStabilize, FailoverState
  <2> QED
    BY <2>2, <2>10, <2>11, <2>12, <2>13, <2>14, <2>15, <2>16, <2>17, <2>18,
       <2>19, <2>20, <2>21 DEF Evaluate
<1> QED
  BY <1>1, <1>2 DEF Next

\* Every reachable state of the controller is well typed: timestamps and
\* counters stay within their unsigned type, every record within its fields.
THEOREM TypeCorrect == Spec => []TypeOK
BY TypeInit, TypeStep, PTL DEF Spec
-----------------------------------------------------------------------------
(***************************************************************************)
(* Hold-down.  HoldDownRespected is not inductive: from a state in which   *)
(* the wrapping timer showed more than the true time, one more poll could  *)
(* start a failover too early.  QuietMeasured rules that out.              *)
(***************************************************************************)
HoldDownInv == TypeOK /\ QuietMeasured /\ HoldDownRespected

LEMMA HoldDownInit == Init => HoldDownInv
<1> SUFFICES ASSUME Init PROVE HoldDownInv
  OBVIOUS
<1>1. TypeOK
  BY TypeInit
<1>2. Elapsed(now, lastFailover) = 0
  BY <1>1, ElapsedZero DEF Init, ControllerInit, TypeOK
<1>3. QuietMeasured
  BY <1>2 DEF QuietMeasured, Init
<1>4. HoldDownRespected
  BY DEF HoldDownRespected, Init, ControllerInit
<1> QED
  BY <1>1, <1>3, <1>4 DEF HoldDownInv

\* A poll that completes no failover lets the history variable keep up with
\* the timer; one that completes a failover restarts both.
LEMMA QuietStep ==
  ASSUME TypeOK, QuietMeasured, NEW d \in 1 .. MaxGap, NEW in \in Inputs,
         Poll(d, in)
  PROVE  /\ QuietMeasured'
         /\ ~FailoverCompletes =>
              /\ lastFailover' = lastFailover
              /\ quiet >= HoldDown => quiet' >= HoldDown
              /\ HoldDownExpired(UAdd(now, d, Wrap)) => quiet' >= HoldDown
<1> DEFINE t == UAdd(now, d, Wrap)
<1>1. now' = t /\ Evaluate(t, in) /\ CountQuiet(d)
  BY DEF Poll
<1>2. t \in Time /\ now \in Time /\ lastFailover \in Time /\ quiet \in Nat
  BY ClockType DEF TypeOK
<1>3. /\ Elapsed(t, lastFailover) \in Nat
      /\ Elapsed(t, lastFailover) <= Elapsed(now, lastFailover) + d
      /\ Elapsed(now, lastFailover) \in Nat
  BY <1>2, ElapsedGrows, ElapsedNat
<1> HIDE DEF t
<1>4. CASE FailoverCompletes
  <2>1. lastFailover' = t
    BY <1>1, <1>4
       DEF FailoverCompletes, Evaluate, Bootstrap, AttachingInitial,
           NoStandby, StandbyWarm, Eligible, TriggerPreferred,
           TriggerGeneric, PreferredSuccess, PreferredFallback,
           PreferredWait, ReattachingGeneric, PostFailoverStabilize,
           CompleteFailover, Transition, Stay, AttachedState
  <2>2. Elapsed(now', lastFailover') = 0
    BY <2>1, <1>1, <1>2, ElapsedZero
  <2>3. quiet' = 0
    BY <1>1, <1>4 DEF CountQuiet
  <2> QED
    BY <1>4, <2>2, <2>3 DEF QuietMeasured
<1>5. CASE ~FailoverCompletes
  <2>1. lastFailover' = lastFailover
    BY <1>1, <1>5
       DEF FailoverCompletes, Evaluate, Bootstrap, AttachingInitial,
           NoStandby, StandbyWarm, Eligible, TriggerPreferred,
           TriggerGeneric, PreferredSuccess, PreferredFallback,
           PreferredWait, ReattachingGeneric, PostFailoverStabilize,
           CompleteFailover, Transition, Stay, completionVars
  <2>2. quiet' = Saturate(quiet + d, QuietCap)
    BY <1>1, <1>5 DEF CountQuiet
  <2>3. quiet >= HoldDown \/ Elapsed(now, lastFailover) <= quiet
    BY DEF QuietMeasured
  <2>4. quiet' >= HoldDown \/ Elapsed(t, lastFailover) <= quiet'
    BY <1>2, <1>3, <2>2, <2>3, QuietCapAssumption, TimerAssumption
       DEF Saturate
  <2>5. quiet >= HoldDown => quiet' >= HoldDown
    BY <1>2, <2>2, QuietCapAssumption, TimerAssumption DEF Saturate
  <2>6. HoldDownExpired(t) => quiet' >= HoldDown
    BY <1>2, <1>3, <2>2, <2>4, QuietCapAssumption, TimerAssumption
       DEF HoldDownExpired, Saturate
  <2> QED
    BY <1>1, <1>5, <2>1, <2>4, <2>5, <2>6 DEF QuietMeasured, t
<1> QED
  BY <1>4, <1>5

\* The states HoldDownRespected speaks of are entered only with the hold-down
\* over, and are kept only from each other.
LEMMA HoldDownEntered ==
  ASSUME NEW t, NEW in, Evaluate(t, in),
         state' \in {"FAILOVER_ELIGIBLE", "FAILOVER_TRIGGERED",
                     "REATTACHING_PREFERRED", "REATTACHING_GENERIC"}
  PROVE  \/ HoldDownExpired(t)
         \/ state \in {"FAILOVER_ELIGIBLE", "FAILOVER_TRIGGERED",
                       "REATTACHING_PREFERRED", "REATTACHING_GENERIC"}
BY DEF Evaluate, Bootstrap, AttachingInitial, NoStandby, StandbyWarm,
       Eligible, TriggerPreferred, TriggerGeneric, PreferredSuccess,
       PreferredFallback, PreferredWait, ReattachingGeneric,
       PostFailoverStabilize, CompleteFailover, Transition, Stay,
       AttachedState

LEMMA HoldDownStep == HoldDownInv /\ [Next]_vars => HoldDownInv'
<1> SUFFICES ASSUME HoldDownInv, [Next]_vars PROVE HoldDownInv'
  OBVIOUS
<1>1. TypeOK'
  BY TypeStep DEF HoldDownInv
<1>2. CASE UNCHANGED vars
  BY <1>1, <1>2
     DEF HoldDownInv, QuietMeasured, HoldDownRespected, Elapsed, vars,
         controllerVars, completionVars
<1>3. ASSUME NEW d \in 1 .. MaxGap, NEW in \in Inputs, Poll(d, in)
      PROVE  HoldDownInv'
  <2>1. QuietMeasured'
    BY <1>3, QuietStep DEF HoldDownInv
  <2>2. ASSUME state' \in {"FAILOVER_ELIGIBLE", "FAILOVER_TRIGGERED",
                           "REATTACHING_PREFERRED", "REATTACHING_GENERIC"}
        PROVE  quiet' >= HoldDown
    <3>1. ~FailoverCompletes
      BY <2>2 DEF FailoverCompletes
    <3>2. HoldDownExpired(UAdd(now, d, Wrap)) \/ quiet >= HoldDown
      BY <1>3, <2>2, HoldDownEntered
         DEF Poll, HoldDownInv, HoldDownRespected
    <3> QED
      BY <1>3, <3>1, <3>2, QuietStep DEF HoldDownInv
  <2>3. HoldDownRespected'
    BY <2>2 DEF HoldDownRespected
  <2> QED
    BY <1>1, <2>1, <2>3 DEF HoldDownInv
<1> QED
  BY <1>2, <1>3 DEF Next

\* For every hold-down, clock width and poll period: a failover is never
\* prepared or under way within hold_down_time_ms of the last one.
THEOREM HoldDownTheorem == Spec => []HoldDownRespected
<1>1. HoldDownInv => HoldDownRespected
  BY DEF HoldDownInv
<1> QED
  BY <1>1, HoldDownInit, HoldDownStep, PTL DEF Spec
-----------------------------------------------------------------------------
(***************************************************************************)
(* Bookkeeping of the preferred attempts.  The two invariants lean on each *)
(* other only through the type invariant; both need that nothing but the   *)
(* three actions on REATTACHING_PREFERRED enters or leaves that state.     *)
(***************************************************************************)
BookInv == TypeOK /\ TargetOnlyInFlight /\ AttemptsAccounted

LEMMA BookInit == Init => BookInv
BY TypeInit, WidthAssumption
   DEF BookInv, Init, ControllerInit, TargetOnlyInFlight, AttemptsAccounted,
       UAdd

\* Every action but the three on a preferred attempt keeps clear of it.
LEMMA OtherActionsKeepAttempts ==
  ASSUME NEW t, NEW in,
         \/ Bootstrap(t, in) \/ AttachingInitial(t, in) \/ NoStandby(t, in)
         \/ StandbyWarm(t, in) \/ Eligible(t, in) \/ TriggerGeneric(t, in)
         \/ ReattachingGeneric(t, in) \/ PostFailoverStabilize(t, in)
  PROVE  /\ state # "REATTACHING_PREFERRED"
         /\ state' # "REATTACHING_PREFERRED"
         /\ UNCHANGED <<attemptVars, outcomeVars>>
BY DEF Bootstrap, AttachingInitial, NoStandby, StandbyWarm, Eligible,
       TriggerGeneric, ReattachingGeneric, PostFailoverStabilize,
       CompleteFailover, Transition, Stay, AttachedState

LEMMA BookStep == BookInv /\ [Next]_vars => BookInv'
<1> SUFFICES ASSUME BookInv, [Next]_vars PROVE BookInv'
  OBVIOUS
<1>1. TypeOK'
  BY TypeStep DEF BookInv
<1> SUFFICES (TargetOnlyInFlight /\ AttemptsAccounted)'
  BY <1>1 DEF BookInv
<1> USE DEF BookInv, TargetOnlyInFlight, AttemptsAccounted
<1>2. CASE UNCHANGED vars
  BY <1>2 DEF vars, controllerVars, attemptVars, outcomeVars
<1>3. ASSUME NEW d \in 1 .. MaxGap, NEW in \in Inputs, Poll(d, in)
      PROVE  (TargetOnlyInFlight /\ AttemptsAccounted)'
  <2> DEFINE t == UAdd(now, d, Wrap)
  <2>1. Evaluate(t, in)
    BY <1>3 DEF Poll
  <2>2. /\ successCount \in Count /\ missCount \in Count
        /\ UAdd(Increment(successCount), missCount, CounterWrap)
             = Increment(outcomeEvents)
        /\ UAdd(successCount, Increment(missCount), CounterWrap)
             = Increment(outcomeEvents)
    BY IncrementOutcomes DEF TypeOK
  <2> HIDE DEF t
  <2>3. CASE TriggerPreferred(t, in)
    BY <2>3 DEF TriggerPreferred, StandbyAvailable, Transition, outcomeVars
  <2>4. CASE PreferredSuccess(t, in)
    BY <2>2, <2>4 DEF PreferredSuccess, CompleteFailover, Transition,
                      RecordPreferredOutcome
  <2>5. CASE PreferredFallback(t, in)
    BY <2>2, <2>5 DEF PreferredFallback, Transition, RecordPreferredOutcome
  <2>6. CASE PreferredWait(t, in)
    BY <2>6 DEF PreferredWait, Stay, attemptVars, outcomeVars
  <2>7. CASE ~(\/ TriggerPreferred(t, in) \/ PreferredSuccess(t, in)
               \/ PreferredFallback(t, in) \/ PreferredWait(t, in))
    <3>1. /\ state # "REATTACHING_PREFERRED"
          /\ state' # "REATTACHING_PREFERRED"
          /\ UNCHANGED <<attemptVars, outcomeVars>>
      BY <2>1, <2>7, OtherActionsKeepAttempts DEF Evaluate
    <3> QED
      BY <3>1 DEF attemptVars, outcomeVars
  <2> QED
    BY <2>3, <2>4, <2>5, <2>6, <2>7
<1> QED
  BY <1>2, <1>3 DEF Next

\* For every width of the counters: each preferred attempt is counted once as
\* an attempt, and once it is over once as a success or a miss and once as an
\* outcome event.
THEOREM AttemptsTheorem == Spec => []AttemptsAccounted
<1>1. BookInv => AttemptsAccounted
  BY DEF BookInv
<1> QED
  BY <1>1, BookInit, BookStep, PTL DEF Spec

\* A target is held exactly while its attach is awaited.
THEOREM TargetTheorem == Spec => []TargetOnlyInFlight
<1>1. BookInv => TargetOnlyInFlight
  BY DEF BookInv
<1> QED
  BY <1>1, BookInit, BookStep, PTL DEF Spec
-----------------------------------------------------------------------------
(***************************************************************************)
(* Timers.  As long as a timer's age is below its limit at every poll (or  *)
(* zero, at the poll that arms it), the wrapping subtraction is exact.     *)
(***************************************************************************)
LEMMA TimerStep ==
  ASSUME NEW n \in Time, NEW since \in Time, NEW d \in 1 .. MaxGap,
         NEW limit \in Nat, limit + MaxGap <= Wrap,
         Elapsed(n, since) = 0 \/ Elapsed(n, since) < limit
  PROVE  LET e == Elapsed(UAdd(n, d, Wrap), since) IN
         /\ e < limit => e = Elapsed(n, since) + d
         /\ e < limit <=> Elapsed(n, since) + d < limit
BY WidthAssumption, TimerAssumption DEF Elapsed, UAdd, USub, Time

DeadlineInv == TypeOK /\ NoDeadlineMissed

LEMMA DeadlineInit == Init => DeadlineInv
BY TypeInit DEF DeadlineInv, Init, ControllerInit, NoDeadlineMissed, AgeOf

\* One poll, seen through the refinement mapping: what becomes of the age.
LEMMA AgeStep ==
  ASSUME DeadlineInv, NEW d \in 1 .. MaxGap, NEW in \in Inputs, Poll(d, in)
  PROVE  /\ NoDeadlineMissed'
         /\ AgeOf' = 0 \/ (UNCHANGED state /\ AgeOf' = AgeOf + d)
         /\ state' # state => AgeOf' = 0
<1> DEFINE t == UAdd(now, d, Wrap)
<1>1. now' = t /\ Evaluate(t, in)
  BY DEF Poll
<1>2. /\ t \in Time /\ now \in Time
      /\ stateEntered \in Time /\ eligibleSince \in Time
      /\ state \in FailoverState
  BY ClockType DEF DeadlineInv, TypeOK
<1>3. Elapsed(t, t) = 0
  BY <1>2, ElapsedZero
<1>4. AgeOf = 0 \/ AgeOf < Deadline
  BY DEF DeadlineInv, NoDeadlineMissed
<1>5. /\ state = "FAILOVER_ELIGIBLE" =>
           /\ ~EligibleExpired(t) => /\ Elapsed(t, eligibleSince) = AgeOf + d
                                     /\ Elapsed(t, eligibleSince) < Deadline
      /\ state = "REATTACHING_PREFERRED" =>
           /\ ~PreferredExpired(t) => /\ Elapsed(t, stateEntered) = AgeOf + d
                                      /\ Elapsed(t, stateEntered) < Deadline
      /\ state = "POST_FAILOVER_STABILIZE" =>
           /\ ~StabilizeExpired(t) => /\ Elapsed(t, stateEntered) = AgeOf + d
                                      /\ Elapsed(t, stateEntered) < Deadline
  <2>1. /\ EligibleDelay \in Nat /\ PreferredTimeout \in Nat
        /\ StabilizeTime \in Nat
        /\ EligibleDelay + MaxGap <= Wrap
        /\ PreferredTimeout + MaxGap <= Wrap
        /\ StabilizeTime + MaxGap <= Wrap
    BY TimerAssumption
  <2>2. /\ Elapsed(t, eligibleSince) \in Nat
        /\ Elapsed(t, stateEntered) \in Nat
    BY <1>2, ElapsedNat
  <2>3. CASE state = "FAILOVER_ELIGIBLE"
    BY <1>2, <1>4, <2>1, <2>2, <2>3, TimerStep
       DEF AgeOf, Deadline, EligibleExpired
  <2>4. CASE state = "REATTACHING_PREFERRED"
    BY <1>2, <1>4, <2>1, <2>2, <2>4, TimerStep
       DEF AgeOf, Deadline, PreferredExpired
  <2>5. CASE state = "POST_FAILOVER_STABILIZE"
    BY <1>2, <1>4, <2>1, <2>2, <2>5, TimerStep
       DEF AgeOf, Deadline, StabilizeExpired
  <2> QED
    BY <2>3, <2>4, <2>5
<1> HIDE DEF t
<1>6. CASE state' # state
  <2>1. AgeOf' = 0
    <3>1. /\ state' = "FAILOVER_ELIGIBLE" => eligibleSince' = t
          /\ state' \in {"REATTACHING_PREFERRED", "POST_FAILOVER_STABILIZE"}
               => stateEntered' = t
      BY <1>1, <1>6
         DEF Evaluate, Bootstrap, AttachingInitial, NoStandby, StandbyWarm,
             Eligible, TriggerPreferred, TriggerGeneric, PreferredSuccess,
             PreferredFallback, PreferredWait, ReattachingGeneric,
             PostFailoverStabilize, CompleteFailover, Transition, Stay,
             AttachedState
    <3> QED
      BY <1>1, <1>3, <3>1 DEF AgeOf
  <2> QED
    BY <1>6, <2>1 DEF NoDeadlineMissed
<1>7. CASE state' = state
  <2>1. CASE state = "FAILOVER_ELIGIBLE"
    <3>1. ~EligibleExpired(t) /\ UNCHANGED eligibleSince
      BY <1>1, <1>7, <2>1
         DEF Evaluate, Bootstrap, AttachingInitial, NoStandby, StandbyWarm,
             Eligible, TriggerPreferred, TriggerGeneric, PreferredSuccess,
             PreferredFallback, PreferredWait, ReattachingGeneric,
             PostFailoverStabilize, CompleteFailover, Transition,
             AttachedState
    <3> QED
      BY <1>1, <1>5, <1>7, <2>1, <3>1 DEF AgeOf, Deadline, NoDeadlineMissed
  <2>2. CASE state = "REATTACHING_PREFERRED"
    <3>1. ~PreferredExpired(t) /\ UNCHANGED stateEntered
      BY <1>1, <1>7, <2>2
         DEF Evaluate, Bootstrap, AttachingInitial, NoStandby, StandbyWarm,
             Eligible, TriggerPreferred, TriggerGeneric, PreferredSuccess,
             PreferredFallback, PreferredWait, ReattachingGeneric,
             PostFailoverStabilize, CompleteFailover, Transition, Stay
    <3> QED
      BY <1>1, <1>5, <1>7, <2>2, <3>1 DEF AgeOf, Deadline, NoDeadlineMissed
  <2>3. CASE state = "POST_FAILOVER_STABILIZE"
    <3>1. ~StabilizeExpired(t) /\ UNCHANGED stateEntered
      BY <1>1, <1>7, <2>3
         DEF Evaluate, Bootstrap, AttachingInitial, NoStandby, StandbyWarm,
             Eligible, TriggerPreferred, TriggerGeneric, PreferredSuccess,
             PreferredFallback, PreferredWait, ReattachingGeneric,
             PostFailoverStabilize, Transition, Stay, AttachedState
    <3> QED
      BY <1>1, <1>5, <1>7, <2>3, <3>1 DEF AgeOf, Deadline, NoDeadlineMissed
  <2>4. CASE state \notin {"FAILOVER_ELIGIBLE", "REATTACHING_PREFERRED",
                           "POST_FAILOVER_STABILIZE"}
    BY <1>7, <2>4 DEF AgeOf, NoDeadlineMissed
  <2> QED
    BY <1>7, <2>1, <2>2, <2>3, <2>4
<1> QED
  BY <1>6, <1>7

LEMMA DeadlineStep == DeadlineInv /\ [Next]_vars => DeadlineInv'
<1> SUFFICES ASSUME DeadlineInv, [Next]_vars PROVE DeadlineInv'
  OBVIOUS
<1>1. TypeOK'
  BY TypeStep DEF DeadlineInv
<1>2. CASE UNCHANGED vars
  BY <1>1, <1>2 DEF DeadlineInv, NoDeadlineMissed, AgeOf, Deadline, Elapsed,
                    vars, controllerVars
<1>3. CASE Next
  BY <1>1, <1>3, AgeStep DEF Next, DeadlineInv
<1> QED
  BY <1>2, <1>3

\* For all durations and every clock width that leaves room for one poll: no
\* timed state outlives the poll that finds its deadline passed.
THEOREM DeadlineTheorem == Spec => []NoDeadlineMissed
<1>1. DeadlineInv => NoDeadlineMissed
  BY DEF DeadlineInv
<1> QED
  BY <1>1, DeadlineInit, DeadlineStep, PTL DEF Spec
-----------------------------------------------------------------------------
(***************************************************************************)
(* Refinement of FailoverPolicy: one poll of the controller is one step of *)
(* the policy, with the same d.                                            *)
(***************************************************************************)
RefinementInv == HoldDownInv /\ DeadlineInv /\ BookInv

LEMMA PolicyInit == Init => Policy!PInit
BY DEF Init, ControllerInit, Policy!PInit, PhaseOf, AgeOf, NoAction

LEMMA PolicyStep ==
  ASSUME RefinementInv, NEW d \in 1 .. MaxGap, NEW in \in Inputs, Poll(d, in)
  PROVE  Policy!PStep(d)
<1> DEFINE t == UAdd(now, d, Wrap)
<1>1. now' = t /\ Evaluate(t, in) /\ CountQuiet(d)
  BY DEF Poll
<1>2. /\ AgeOf' = 0 \/ (UNCHANGED state /\ AgeOf' = AgeOf + d)
      /\ state' # state => AgeOf' = 0
  BY AgeStep DEF RefinementInv
<1>3. /\ ~FailoverCompletes => quiet' = Policy!Later(d)
      /\ FailoverCompletes => quiet' = 0
  BY <1>1 DEF CountQuiet, Saturate, Policy!Later, Policy!Saturate
<1>4. ~FailoverCompletes => /\ HoldDownExpired(t) => quiet' >= HoldDown
                            /\ quiet >= HoldDown => quiet' >= HoldDown
  BY QuietStep DEF RefinementInv, HoldDownInv
<1>5. /\ now \in Time /\ t \in Time
      /\ stateEntered \in Time /\ eligibleSince \in Time
      /\ NoDeadlineMissed
      /\ HoldDownRespected
  BY ClockType DEF RefinementInv, HoldDownInv, DeadlineInv, TypeOK
\* A timer reads expired exactly when the policy's true time has come.
<1>6. /\ state = "FAILOVER_ELIGIBLE" =>
           (EligibleExpired(t) <=> AgeOf + d >= EligibleDelay)
      /\ state = "REATTACHING_PREFERRED" =>
           (PreferredExpired(t) <=> AgeOf + d >= PreferredTimeout)
      /\ state = "POST_FAILOVER_STABILIZE" =>
           (StabilizeExpired(t) <=> AgeOf + d >= StabilizeTime)
  <2>1. /\ EligibleDelay \in Nat /\ PreferredTimeout \in Nat
        /\ StabilizeTime \in Nat
        /\ EligibleDelay + MaxGap <= Wrap
        /\ PreferredTimeout + MaxGap <= Wrap
        /\ StabilizeTime + MaxGap <= Wrap
    BY TimerAssumption
  <2>2. /\ Elapsed(t, eligibleSince) \in Nat
        /\ Elapsed(t, stateEntered) \in Nat
        /\ Elapsed(now, eligibleSince) \in Nat
        /\ Elapsed(now, stateEntered) \in Nat
    BY <1>5, ElapsedNat
  <2>3. CASE state = "FAILOVER_ELIGIBLE"
    BY <1>5, <2>1, <2>2, <2>3, TimerStep
       DEF AgeOf, Deadline, EligibleExpired, NoDeadlineMissed
  <2>4. CASE state = "REATTACHING_PREFERRED"
    BY <1>5, <2>1, <2>2, <2>4, TimerStep
       DEF AgeOf, Deadline, PreferredExpired, NoDeadlineMissed
  <2>5. CASE state = "POST_FAILOVER_STABILIZE"
    BY <1>5, <2>1, <2>2, <2>5, TimerStep
       DEF AgeOf, Deadline, StabilizeExpired, NoDeadlineMissed
  <2> QED
    BY <2>3, <2>4, <2>5
<1>7. /\ AgeOf \in Nat
      /\ EligibleDelay \in Nat /\ PreferredTimeout \in Nat
      /\ StabilizeTime \in Nat
  BY <1>5, ElapsedNat, TimerAssumption DEF AgeOf
<1>8. TargetOnlyInFlight
  BY DEF RefinementInv, BookInv
<1> HIDE DEF t
<1> USE DEF PhaseOf, Policy!Enter, Policy!Ask, FailoverCompletes,
            Transition, Stay, ReturnNothing, NoAction, AttachedState,
            attemptVars, Policy!PStep
<1>10. CASE Bootstrap(t, in)
  BY <1>2, <1>3, <1>10 DEF Bootstrap, Policy!Seek
<1>11. CASE AttachingInitial(t, in)
  <2>1. AgeOf' = 0
    BY <1>11 DEF AttachingInitial, AgeOf
  <2> QED
    BY <1>3, <1>11, <2>1 DEF AttachingInitial, Policy!Seek, Policy!Serve
<1>12. CASE NoStandby(t, in)
  <2>1. AgeOf' = 0
    BY <1>12 DEF NoStandby, AgeOf
  <2>2. CASE state' = "FAILOVER_TRIGGERED"
    BY <1>3, <1>4, <1>12, <2>1, <2>2 DEF NoStandby, Policy!Decide
  <2>3. CASE state' # "FAILOVER_TRIGGERED"
    BY <1>3, <1>12, <2>1, <2>3 DEF NoStandby, Policy!Seek, Policy!Serve
  <2> QED
    BY <2>2, <2>3
<1>13. CASE StandbyWarm(t, in)
  <2>1. CASE state' = state
    <3>1. AgeOf' = 0
      BY <1>13, <2>1 DEF StandbyWarm, AgeOf
    <3> QED
      BY <1>3, <1>13, <2>1, <3>1 DEF StandbyWarm, Policy!Serve
  <2>2. CASE state' = "FAILOVER_TRIGGERED"
    BY <1>2, <1>3, <1>4, <1>13, <2>2 DEF StandbyWarm, Policy!Decide
  <2>3. CASE state' = "FAILOVER_ELIGIBLE"
    BY <1>2, <1>3, <1>4, <1>13, <2>3 DEF StandbyWarm, Policy!Watch
  <2>4. CASE state' \notin {state, "FAILOVER_TRIGGERED",
                            "FAILOVER_ELIGIBLE"}
    BY <1>2, <1>3, <1>13, <2>4 DEF StandbyWarm, Policy!Seek, Policy!Serve
  <2> QED
    BY <2>1, <2>2, <2>3, <2>4
<1>14. CASE Eligible(t, in)
  <2>1. quiet >= HoldDown
    BY <1>5, <1>14 DEF Eligible, HoldDownRespected
  <2>2. CASE state' = "FAILOVER_TRIGGERED"
    BY <1>2, <1>3, <1>4, <1>6, <1>14, <2>1, <2>2
       DEF Eligible, Policy!Decide
  <2>3. CASE state' = state
    <3>1. ~EligibleExpired(t) /\ UNCHANGED eligibleSince
      BY <1>14, <2>3 DEF Eligible
    <3>2. AgeOf' = Elapsed(t, eligibleSince)
      BY <1>1, <1>14, <2>3, <3>1 DEF Eligible, AgeOf
    <3>3. AgeOf' = AgeOf + d
      BY <1>5, <1>14, <3>1, <3>2, TimerStep, TimerAssumption, ElapsedNat
         DEF t, Eligible, EligibleExpired, AgeOf, Deadline, NoDeadlineMissed
    <3>4. AgeOf + d < EligibleDelay
      BY <1>6, <1>7, <1>14, <3>1 DEF Eligible
    <3> QED
      BY <1>3, <1>14, <2>3, <3>3, <3>4 DEF Eligible, Policy!KeepWatching
  <2>4. CASE state' \notin {state, "FAILOVER_TRIGGERED"}
    BY <1>2, <1>3, <1>14, <2>4 DEF Eligible, Policy!Seek, Policy!Serve
  <2> QED
    BY <2>2, <2>3, <2>4
<1>15. CASE TriggerPreferred(t, in)
  <2>1. in.standby \in Router
    BY <1>15 DEF TriggerPreferred, StandbyAvailable, Inputs, Rloc
  <2> QED
    BY <1>2, <1>3, <1>15, <2>1 DEF TriggerPreferred, Return,
                                   Policy!AskPreferred
<1>16. CASE TriggerGeneric(t, in)
  BY <1>2, <1>3, <1>16 DEF TriggerGeneric, Return, Policy!AskGeneric
<1>17. CASE PreferredSuccess(t, in)
  BY <1>2, <1>3, <1>17 DEF PreferredSuccess, CompleteFailover, Policy!Arrive
<1>18. CASE PreferredFallback(t, in)
  BY <1>2, <1>3, <1>6, <1>18 DEF PreferredFallback, Return, Policy!FallBack
<1>19. CASE PreferredWait(t, in)
  <2>1. AgeOf' = Elapsed(t, stateEntered)
    BY <1>1, <1>19 DEF PreferredWait, AgeOf
  <2>2. AgeOf' = AgeOf + d
    BY <1>5, <1>19, <2>1, TimerStep, TimerAssumption, ElapsedNat
       DEF t, PreferredWait, PreferredExpired, AgeOf, Deadline,
           NoDeadlineMissed
  <2>3. AgeOf + d < PreferredTimeout
    BY <1>6, <1>7, <1>19 DEF PreferredWait
  <2> QED
    BY <1>3, <1>19, <2>2, <2>3 DEF PreferredWait, Policy!AwaitPreferred
<1>20. CASE ReattachingGeneric(t, in)
  <2>1. CASE in.attached
    <3>1. currentTarget = NoRloc /\ UNCHANGED currentTarget
      BY <1>20, <1>8 DEF ReattachingGeneric, TargetOnlyInFlight
    <3> QED
      BY <1>2, <1>3, <1>20, <2>1, <3>1
         DEF ReattachingGeneric, CompleteFailover, Policy!Arrive
  <2>2. CASE ~in.attached
    BY <1>3, <1>20, <2>2 DEF ReattachingGeneric, AgeOf, Policy!AwaitGeneric
  <2> QED
    BY <2>1, <2>2
<1>21. CASE PostFailoverStabilize(t, in)
  <2>1. CASE state' # state
    <3>1. CASE in.attached
      <4>1. StabilizeExpired(t)
        BY <1>21, <2>1, <3>1 DEF PostFailoverStabilize
      <4>2. AgeOf + d >= StabilizeTime
        BY <1>6, <1>21, <4>1 DEF PostFailoverStabilize
      <4> QED
        BY <1>2, <1>3, <1>21, <2>1, <3>1, <4>2
           DEF PostFailoverStabilize, Policy!Settled
    <3>2. CASE ~in.attached
      BY <1>2, <1>3, <1>21, <2>1, <3>2 DEF PostFailoverStabilize, Policy!Seek
    <3> QED
      BY <3>1, <3>2
  <2>2. CASE state' = state
    <3>1. ~StabilizeExpired(t) /\ UNCHANGED stateEntered
      BY <1>21, <2>2 DEF PostFailoverStabilize
    <3>2. AgeOf' = Elapsed(t, stateEntered)
      BY <1>1, <1>21, <2>2, <3>1 DEF PostFailoverStabilize, AgeOf
    <3>3. AgeOf' = AgeOf + d
      BY <1>5, <1>21, <3>1, <3>2, TimerStep, TimerAssumption, ElapsedNat
         DEF t, PostFailoverStabilize, StabilizeExpired, AgeOf, Deadline,
             NoDeadlineMissed
    <3>4. AgeOf + d < StabilizeTime
      BY <1>6, <1>7, <1>21, <3>1 DEF PostFailoverStabilize
    <3> QED
      BY <1>3, <1>21, <2>2, <3>3, <3>4
         DEF PostFailoverStabilize, Policy!Settling
  <2> QED
    BY <2>1, <2>2
<1> QED
  BY <1>1, <1>10, <1>11, <1>12, <1>13, <1>14, <1>15, <1>16, <1>17, <1>18,
     <1>19, <1>20, <1>21 DEF Evaluate

LEMMA PolicyNext ==
  RefinementInv /\ [Next]_vars => [Policy!PNext]_(Policy!pvars)
<1> SUFFICES ASSUME RefinementInv, [Next]_vars
             PROVE  [Policy!PNext]_(Policy!pvars)
  OBVIOUS
<1>1. CASE UNCHANGED vars
  BY <1>1 DEF vars, controllerVars, attemptVars, Policy!pvars, PhaseOf,
              AgeOf, Elapsed
<1>2. CASE Next
  BY <1>2, PolicyStep DEF Next, Policy!PNext
<1> QED
  BY <1>1, <1>2

LEMMA RefinementInvInit == Init => RefinementInv
BY HoldDownInit, DeadlineInit, BookInit DEF RefinementInv

LEMMA RefinementInvStep == RefinementInv /\ [Next]_vars => RefinementInv'
BY HoldDownStep, DeadlineStep, BookStep DEF RefinementInv

\* None of this needs the scheduler's fairness: it holds of every sequence of
\* polls, finite or infinite, and so of those that a larger system makes.
LEMMA PollsAreSafe == Init /\ [][Next]_vars => []RefinementInv
BY RefinementInvInit, RefinementInvStep, PTL

LEMMA PollsFollowPolicy == Init /\ [][Next]_vars => PolicySpec
BY PollsAreSafe, PolicyInit, PolicyNext, PTL DEF PolicySpec, Policy!PSpec

\* The controller, with its wrapping timestamps, implements the policy stated
\* with true time: every run of FailoverController is, seen through PhaseOf
\* and AgeOf, a run of FailoverPolicy.
THEOREM ImplementsPolicy == Spec => PolicySpec
BY PollsFollowPolicy, PTL DEF Spec
=============================================================================
