------------------------- MODULE BiparentalED_proofs -------------------------
(***************************************************************************)
(* Proofs about the composition of update() with the OpenThread stack, for *)
(* every set of routers, clock width and configured duration, and for      *)
(* every behaviour of the stack between two adapter calls.                 *)
(***************************************************************************)
EXTENDS BiparentalED, TLAPS

-----------------------------------------------------------------------------
(***************************************************************************)
(* What one call of evaluate() can do, in any state.                       *)
(***************************************************************************)
FailoverStates == {"FAILOVER_ELIGIBLE", "FAILOVER_TRIGGERED",
                   "REATTACHING_PREFERRED", "REATTACHING_GENERIC"}

\* A completed failover stamps last_failover_ms_ and nothing else does.
LEMMA CompletionStamps ==
  ASSUME NEW t, NEW in, Evaluate(t, in)
  PROVE  /\ FailoverCompletes => lastFailover' = t
         /\ ~FailoverCompletes => lastFailover' = lastFailover
BY DEF FailoverCompletes, Evaluate, Bootstrap, AttachingInitial, NoStandby,
       StandbyWarm, Eligible, TriggerPreferred, TriggerGeneric,
       PreferredSuccess, PreferredFallback, PreferredWait,
       ReattachingGeneric, PostFailoverStabilize, CompleteFailover,
       Transition, Stay, AttachedState, completionVars

\* The hold-down is tested on every way into a failover.
LEMMA FailoverEntered ==
  ASSUME NEW t, NEW in, Evaluate(t, in), state' \in FailoverStates
  PROVE  HoldDownExpired(t) \/ state \in FailoverStates
BY DEF FailoverStates, Evaluate, Bootstrap, AttachingInitial, NoStandby,
       StandbyWarm, Eligible, TriggerPreferred, TriggerGeneric,
       PreferredSuccess, PreferredFallback, PreferredWait,
       ReattachingGeneric, PostFailoverStabilize, CompleteFailover,
       Transition, Stay, AttachedState

\* Which requests evaluate() returns on which transitions.
RequestFits ==
  /\ action'.type \in FailoverActionType
  /\ action'.type = "TRIGGER_PREFERRED_REATTACH"
       => state = "FAILOVER_TRIGGERED" /\ state' = "REATTACHING_PREFERRED"
  /\ action'.type = "TRIGGER_GENERIC_REATTACH"
       => /\ state \in {"FAILOVER_TRIGGERED", "REATTACHING_PREFERRED"}
          /\ state' = "REATTACHING_GENERIC"
  /\ action'.type = "NONE"
       => /\ state # "FAILOVER_TRIGGERED"
          /\ state' = "REATTACHING_PREFERRED" => state' = state
          /\ state' = "REATTACHING_GENERIC" => state' = state
          /\ state' = "FAILOVER_TRIGGERED" => state # state'

LEMMA RequestsFit ==
  ASSUME NEW t, NEW in, Evaluate(t, in)
  PROVE  RequestFits
<1> USE DEF RequestFits, FailoverActionType, Transition, Stay, AttachedState,
            ReturnNothing, NoAction, Return
<1>1. CASE TriggerPreferred(t, in)
  BY <1>1 DEF TriggerPreferred
<1>2. CASE TriggerGeneric(t, in)
  BY <1>2 DEF TriggerGeneric
<1>3. CASE PreferredFallback(t, in)
  BY <1>3 DEF PreferredFallback
<1>4. CASE PreferredSuccess(t, in)
  BY <1>4 DEF PreferredSuccess, CompleteFailover
<1>5. CASE PreferredWait(t, in) \/ ReattachingGeneric(t, in)
  BY <1>5 DEF PreferredWait, ReattachingGeneric, CompleteFailover
<1>6. CASE Bootstrap(t, in) \/ AttachingInitial(t, in) \/ NoStandby(t, in)
  BY <1>6 DEF Bootstrap, AttachingInitial, NoStandby
<1>7. CASE \/ StandbyWarm(t, in) \/ Eligible(t, in)
           \/ PostFailoverStabilize(t, in)
  BY <1>7 DEF StandbyWarm, Eligible, PostFailoverStabilize
<1> QED
  BY <1>1, <1>2, <1>3, <1>4, <1>5, <1>6, <1>7 DEF Evaluate

\* Where update() goes after evaluate().
LEMMA ContinuesFit ==
  ASSUME Continue, action'.type \in FailoverActionType
  PROVE  /\ pc' = "target" <=> action'.type = "TRIGGER_PREFERRED_REATTACH"
         /\ pc' = "generic" <=> action'.type = "TRIGGER_GENERIC_REATTACH"
         /\ pc' = "idle" <=> action'.type = "NONE"
BY DEF Continue, FailoverActionType

-----------------------------------------------------------------------------
(***************************************************************************)
(* Hold-down, end to end.                                                  *)
(***************************************************************************)

\* update() requests an attach only for the failover the controller is in.
CallMatchesState ==
  /\ pc = "target" => state = "REATTACHING_PREFERRED"
  /\ pc = "generic" => state \in {"REATTACHING_PREFERRED",
                                  "REATTACHING_GENERIC"}

ClockTypes == now \in Time /\ lastFailover \in Time /\ quiet \in 0 .. QuietCap

SystemHoldInv ==
  ClockTypes /\ QuietMeasured /\ HoldDownRespected /\ CallMatchesState

\* Every step other than Begin and Decide leaves the controller alone.
LEMMA OtherStepsKeepController ==
  ASSUME \/ TargetAccepted \/ TargetRejected
         \/ GenericDetaches \/ GenericChangesNothing \/ Stack
  PROVE  UNCHANGED vars
BY DEF TargetAccepted, TargetRejected, GenericDetaches,
       GenericChangesNothing, Stack, Start, Attach, Lose, Move,
       SelectedSucceeds, SelectedFails, Become

LEMMA SystemHoldInit == SystemInit => SystemHoldInv
<1> SUFFICES ASSUME SystemInit PROVE SystemHoldInv
  OBVIOUS
<1>1. now = 0 /\ lastFailover = 0 /\ quiet = 0 /\ pc = "idle"
      /\ state = "BOOTSTRAP"
  BY DEF SystemInit, Init, ControllerInit
<1>2. ClockTypes
  BY <1>1, WidthAssumption, QuietCapAssumption DEF ClockTypes, Time
<1>3. QuietMeasured
  BY <1>1, WidthAssumption DEF QuietMeasured, Elapsed, USub
<1>4. HoldDownRespected /\ CallMatchesState
  BY <1>1 DEF HoldDownRespected, CallMatchesState
<1> QED
  BY <1>2, <1>3, <1>4 DEF SystemHoldInv

LEMMA BeginKeepsHold ==
  ASSUME SystemHoldInv, NEW d \in 1 .. MaxGap, Begin(d)
  PROVE  SystemHoldInv'
<1>1. /\ now' = UAdd(now, d, Wrap)
      /\ quiet' = Saturate(quiet + d, QuietCap)
      /\ lastFailover' = lastFailover /\ state' = state /\ pc' = "decide"
  BY DEF Begin, controllerVars, completionVars
<1>2. now \in Time /\ lastFailover \in Time /\ quiet \in 0 .. QuietCap
  BY DEF SystemHoldInv, ClockTypes
<1>3. ClockTypes'
  BY <1>1, <1>2, WidthAssumption, TimerAssumption, QuietCapAssumption
     DEF ClockTypes, Time, UAdd, Saturate
<1>4. quiet >= HoldDown => quiet' >= HoldDown
  BY <1>1, <1>2, TimerAssumption, QuietCapAssumption DEF Saturate
<1>5. /\ Elapsed(now, lastFailover) \in Nat
      /\ Elapsed(now', lastFailover) \in Nat
      /\ Elapsed(now', lastFailover) <= Elapsed(now, lastFailover) + d
  BY <1>1, <1>2, WidthAssumption, TimerAssumption
     DEF Elapsed, UAdd, USub, Time
<1>6. quiet >= HoldDown \/ Elapsed(now, lastFailover) <= quiet
  BY DEF SystemHoldInv, QuietMeasured
<1>7. quiet' >= HoldDown \/ Elapsed(now', lastFailover) <= quiet'
  BY <1>1, <1>2, <1>4, <1>5, <1>6, TimerAssumption, QuietCapAssumption
     DEF Saturate
<1>8. QuietMeasured'
  BY <1>1, <1>7 DEF QuietMeasured
<1>9. HoldDownRespected' /\ CallMatchesState'
  BY <1>1, <1>4 DEF SystemHoldInv, HoldDownRespected, CallMatchesState
<1> QED
  BY <1>3, <1>8, <1>9 DEF SystemHoldInv

LEMMA DecideKeepsHold ==
  ASSUME SystemHoldInv, NEW offer \in Offers, Decide(offer)
  PROVE  SystemHoldInv'
<1>1. PICK in : Evaluate(now, in)
  BY DEF Decide
<1>2. /\ now' = now /\ Continue
      /\ quiet' = IF FailoverCompletes THEN 0 ELSE quiet
  BY DEF Decide
<1>3. now \in Time /\ lastFailover \in Time /\ quiet \in 0 .. QuietCap
  BY DEF SystemHoldInv, ClockTypes
<1>4. lastFailover' = IF FailoverCompletes THEN now ELSE lastFailover
  BY <1>1, CompletionStamps
<1>5. ClockTypes'
  BY <1>2, <1>3, <1>4, QuietCapAssumption DEF ClockTypes
<1>6. QuietMeasured'
  <2>1. CASE FailoverCompletes
    <3>1. Elapsed(now', lastFailover') = 0 /\ quiet' = 0
      BY <1>2, <1>3, <1>4, <2>1, WidthAssumption DEF Elapsed, USub, Time
    <3> QED
      BY <3>1 DEF QuietMeasured
  <2>2. CASE ~FailoverCompletes
    BY <1>2, <1>4, <2>2 DEF QuietMeasured, SystemHoldInv
  <2> QED
    BY <2>1, <2>2
<1>7. HoldDownRespected'
  <2> SUFFICES ASSUME state' \in FailoverStates PROVE quiet' >= HoldDown
    BY DEF HoldDownRespected, FailoverStates
  <2>1. quiet' = quiet
    BY <1>2 DEF FailoverCompletes, FailoverStates
  <2>2. CASE HoldDownExpired(now)
    <3>1. Elapsed(now, lastFailover) \in Nat
      BY <1>3, WidthAssumption DEF Elapsed, USub, Time
    <3>2. Elapsed(now, lastFailover) >= HoldDown
      BY <2>2 DEF HoldDownExpired
    <3>3. quiet >= HoldDown \/ Elapsed(now, lastFailover) <= quiet
      BY DEF SystemHoldInv, QuietMeasured
    <3> QED
      BY <1>3, <2>1, <3>1, <3>2, <3>3, TimerAssumption
  <2>3. CASE state \in FailoverStates
    BY <2>1, <2>3 DEF SystemHoldInv, HoldDownRespected, FailoverStates
  <2> QED
    BY <1>1, <2>2, <2>3, FailoverEntered
<1>8. CallMatchesState'
  <2>1. RequestFits
    BY <1>1, RequestsFit
  <2> QED
    BY <1>2, <2>1, ContinuesFit DEF RequestFits, CallMatchesState
<1> QED
  BY <1>5, <1>6, <1>7, <1>8 DEF SystemHoldInv

LEMMA SystemHoldStep == SystemHoldInv /\ [SystemNext]_systemVars => SystemHoldInv'
<1> SUFFICES ASSUME SystemHoldInv, [SystemNext]_systemVars
             PROVE  SystemHoldInv'
  OBVIOUS
<1>1. ASSUME UNCHANGED vars, CallMatchesState'
      PROVE  SystemHoldInv'
  BY <1>1 DEF SystemHoldInv, ClockTypes, QuietMeasured, HoldDownRespected,
              Elapsed, vars, controllerVars, completionVars
<1>2. CASE UNCHANGED systemVars
  BY <1>1, <1>2 DEF systemVars, loopVars, vars, controllerVars,
                    SystemHoldInv, CallMatchesState
<1>3. CASE \E d \in 1 .. MaxGap : Begin(d)
  BY <1>3, BeginKeepsHold
<1>4. CASE \E offer \in Offers : Decide(offer)
  BY <1>4, DecideKeepsHold
<1>5. CASE TargetAccepted \/ GenericDetaches \/ GenericChangesNothing
  <2>1. UNCHANGED vars /\ pc' = "idle"
    BY <1>5, OtherStepsKeepController
       DEF TargetAccepted, GenericDetaches, GenericChangesNothing
  <2> QED
    BY <1>1, <2>1 DEF CallMatchesState
<1>6. CASE TargetRejected
  <2>1. UNCHANGED vars /\ pc = "target" /\ pc' = "generic"
    BY <1>6, OtherStepsKeepController DEF TargetRejected
  <2> QED
    BY <1>1, <2>1
       DEF CallMatchesState, SystemHoldInv, vars, controllerVars
<1>7. CASE Stack
  <2>1. UNCHANGED vars /\ pc' = pc
    BY <1>7, OtherStepsKeepController
       DEF Stack, Start, Attach, Lose, Move, SelectedSucceeds,
           SelectedFails, Become, loopVars
  <2> QED
    BY <1>1, <2>1
       DEF CallMatchesState, SystemHoldInv, vars, controllerVars
<1> QED
  BY <1>2, <1>3, <1>4, <1>5, <1>6, <1>7 DEF SystemNext, Update

\* In the running system, too, no failover is prepared or under way within
\* hold_down_time_ms of the last one, whatever the stack does to the device.
THEOREM SystemHoldDownTheorem == SystemSpec => []HoldDownRespected
<1>1. SystemHoldInv => HoldDownRespected
  BY DEF SystemHoldInv
<1> QED
  BY <1>1, SystemHoldInit, SystemHoldStep, PTL DEF SystemSpec

\* update() never takes the device off its parent within hold_down_time_ms of
\* the last failover.
THEOREM DetachTheorem == SystemSpec => DetachRespectsHoldDown
<1>1. ASSUME SystemHoldInv, [SystemNext]_systemVars
      PROVE  [Detaches /\ pc' = "idle" => quiet >= HoldDown]_systemVars
  BY <1>1 DEF SystemHoldInv, CallMatchesState, HoldDownRespected, Detaches
<1> QED
  BY <1>1, SystemHoldInit, SystemHoldStep, PTL
     DEF SystemSpec, DetachRespectsHoldDown
-----------------------------------------------------------------------------
(***************************************************************************)
(* Types of the composition.                                               *)
(***************************************************************************)

\* The parts that update() and the stack disturb, apart.
LoopTypes ==
  /\ pc \in {"idle", "decide", "target", "generic"}
  /\ metrics \in [parent: Rloc, health: Health]
  /\ standby \in [rloc: Rloc, known: BOOLEAN]

StackTypes ==
  /\ role \in {"DISABLED", "DETACHED", "CHILD"}
  /\ parent \in Rloc /\ (parent # NoRloc <=> role = "CHILD")
  /\ selected \in Rloc /\ (selected # NoRloc => role = "CHILD")

HistoryTypes ==
  /\ seen \in SUBSET Router
  /\ detaches \in 0 .. MaxDetaches
  /\ accepted \in BOOLEAN
  /\ polled \in [now: Time, quiet: 0 .. QuietCap]

LEMMA TypesSplit == SystemTypeOK <=> LoopTypes /\ StackTypes /\ HistoryTypes
BY DEF SystemTypeOK, LoopTypes, StackTypes, HistoryTypes

LEMMA EmptyTypes ==
  /\ NoMetrics \in [parent: Rloc, health: Health]
  /\ NoStandbyFound \in [rloc: Rloc, known: BOOLEAN]
BY DEF NoMetrics, NoStandbyFound, Rloc, Health

LEMMA SystemTypeInit == SystemInit => SystemTypeOK
<1> SUFFICES ASSUME SystemInit PROVE SystemTypeOK
  OBVIOUS
<1>1. LoopTypes
  BY EmptyTypes DEF SystemInit, LoopTypes, Rloc
<1>2. StackTypes
  BY DEF SystemInit, StackTypes, Rloc
<1>3. seen \in SUBSET Router /\ accepted \in BOOLEAN
  BY DEF SystemInit
<1>4. detaches \in 0 .. MaxDetaches
  BY DEF SystemInit, MaxDetaches
<1>5. polled \in [now: Time, quiet: 0 .. QuietCap]
  BY WidthAssumption, QuietCapAssumption DEF SystemInit, Time
<1> QED
  BY <1>1, <1>2, <1>3, <1>4, <1>5, TypesSplit DEF HistoryTypes

LEMMA BeginTypes ==
  ASSUME SystemTypeOK, NEW d \in 1 .. MaxGap, Begin(d)
  PROVE  SystemTypeOK'
<1>1. LoopTypes /\ StackTypes /\ HistoryTypes
  BY TypesSplit
<1>2. ReadMetrics \subseteq [parent: Rloc, health: Health]
  BY <1>1, EmptyTypes DEF ReadMetrics, StackTypes, Rloc, Health
<1>3. metrics' \in [parent: Rloc, health: Health]
  BY <1>2 DEF Begin
<1>4. LoopTypes'
  BY <1>1, <1>3 DEF Begin, LoopTypes
<1>5. StackTypes'
  BY <1>1 DEF Begin, StackTypes, stackVars
<1>6. HistoryTypes'
  BY <1>1 DEF Begin, StackTypes, HistoryTypes, Rloc
<1> QED
  BY <1>4, <1>5, <1>6 DEF SystemTypeOK, LoopTypes, StackTypes, HistoryTypes

LEMMA DecideTypes ==
  ASSUME SystemTypeOK, ClockTypes', NEW offer \in Offers, Decide(offer)
  PROVE  SystemTypeOK'
<1>1. LoopTypes /\ StackTypes /\ HistoryTypes
  BY TypesSplit
<1>2. pc' \in {"idle", "target", "generic"}
  <2>1. PICK in : Evaluate(now, in)
    BY DEF Decide
  <2>2. action'.type \in FailoverActionType
    BY <2>1, RequestsFit DEF RequestFits
  <2> QED
    BY <2>2, ContinuesFit DEF Decide, FailoverActionType
<1>3. offer \in [rloc: Rloc, known: BOOLEAN]
  BY EmptyTypes DEF Offers, Rloc
<1>4. LoopTypes'
  BY <1>1, <1>2, <1>3, EmptyTypes DEF Decide, LoopTypes
<1>5. StackTypes'
  BY <1>1 DEF Decide, StackTypes, stackVars
<1>6. seen' \in SUBSET Router
  BY DEF Decide
<1>7. /\ detaches' = 0 \/ detaches' = detaches
      /\ accepted' = FALSE \/ accepted' = accepted
  BY DEF Decide
<1>8. detaches' \in 0 .. MaxDetaches
  BY <1>1, <1>7 DEF HistoryTypes, MaxDetaches
<1>9. accepted' \in BOOLEAN
  BY <1>1, <1>7 DEF HistoryTypes
<1>10. polled' \in [now: Time, quiet: 0 .. QuietCap]
  BY DEF Decide, ClockTypes
<1> QED
  BY <1>4, <1>5, <1>6, <1>8, <1>9, <1>10
     DEF SystemTypeOK, LoopTypes, StackTypes, HistoryTypes

\* The stack's device is a child exactly of the parent it has.
LEMMA BecomeTypes ==
  ASSUME SystemTypeOK, NEW newRole, NEW newParent, Become(newRole, newParent),
         newRole \in {"DISABLED", "DETACHED", "CHILD"}, newParent \in Rloc,
         newParent # NoRloc <=> newRole = "CHILD"
  PROVE  SystemTypeOK'
<1>1. LoopTypes /\ StackTypes /\ HistoryTypes
  BY TypesSplit
<1>2. LoopTypes'
  BY <1>1 DEF Become, LoopTypes, loopVars
<1>3. StackTypes'
  BY DEF Become, StackTypes, Rloc
<1>4. HistoryTypes'
  BY <1>1 DEF Become, HistoryTypes, Rloc
<1> QED
  BY <1>2, <1>3, <1>4 DEF SystemTypeOK, LoopTypes, StackTypes, HistoryTypes

LEMMA SystemTypeStep ==
  SystemTypeOK /\ ClockTypes' /\ [SystemNext]_systemVars => SystemTypeOK'
<1> SUFFICES ASSUME SystemTypeOK, ClockTypes', [SystemNext]_systemVars
             PROVE  SystemTypeOK'
  OBVIOUS
<1>1. LoopTypes /\ StackTypes /\ HistoryTypes
  BY TypesSplit
<1> USE DEF LoopTypes, StackTypes, HistoryTypes
<1>2. CASE UNCHANGED systemVars
  BY <1>2 DEF SystemTypeOK, systemVars, loopVars, stackVars, historyVars
<1>3. ASSUME NEW d \in 1 .. MaxGap, Begin(d) PROVE SystemTypeOK'
  BY <1>3, BeginTypes
<1>4. CASE \E offer \in Offers : Decide(offer)
  BY <1>4, DecideTypes
<1>5. CASE TargetAccepted
  <2>1. accepted' \in BOOLEAN
    BY <1>5 DEF TargetAccepted
  <2> QED
    BY <1>1, <1>5, <2>1, EmptyTypes DEF TargetAccepted, Accepts, SystemTypeOK
<1>6. CASE TargetRejected
  BY <1>1, <1>6, EmptyTypes
     DEF TargetRejected, SystemTypeOK, stackVars, historyVars
<1>7. CASE GenericDetaches
  <2>1. detaches' \in 0 .. MaxDetaches
    BY <1>1, <1>7 DEF GenericDetaches, Saturate, MaxDetaches
  <2> QED
    BY <1>1, <1>7, <2>1 DEF GenericDetaches, SystemTypeOK, Rloc
<1>8. CASE GenericChangesNothing
  BY <1>1, <1>8 DEF GenericChangesNothing, SystemTypeOK, stackVars,
                    historyVars
<1>9. CASE Start \/ Lose
  BY <1>9, BecomeTypes DEF Start, Lose, Rloc
<1>10. CASE \E r \in Router : Attach(r) \/ Move(r)
  BY <1>10, BecomeTypes, RlocAssumption DEF Attach, Move, Rloc
<1>11. CASE SelectedSucceeds \/ SelectedFails
  BY <1>1, <1>11, BecomeTypes DEF SelectedSucceeds, SelectedFails
<1> QED
  BY <1>2, <1>3, <1>4, <1>5, <1>6, <1>7, <1>8, <1>9, <1>10, <1>11
     DEF SystemNext, Update, Stack

\* Every reachable state of the composition is well typed; in particular an
\* attach to a selected parent is under way only while the device is a child.
THEOREM SystemTypeCorrect == SystemSpec => []SystemTypeOK
<1>1. SystemHoldInv => ClockTypes
  BY DEF SystemHoldInv
<1> QED
  BY <1>1, SystemHoldInit, SystemHoldStep, SystemTypeInit, SystemTypeStep,
     PTL DEF SystemSpec

-----------------------------------------------------------------------------
(***************************************************************************)
(* How often the device is detached.  A rejected targeted request may have *)
(* detached it once before the timeout orders the generic attach; one that *)
(* was accepted has not.                                                   *)
(***************************************************************************)
Spent == IF accepted THEN 0 ELSE 1

DetachInv ==
  /\ detaches \in 0 .. MaxDetaches
  /\ accepted \in BOOLEAN
  /\ DetachesBounded
  /\ pc = "target" => /\ state = "REATTACHING_PREFERRED"
                      /\ detaches = 0 /\ ~accepted
  /\ pc = "generic" => state \in {"REATTACHING_PREFERRED",
                                  "REATTACHING_GENERIC"}
  /\ state = "FAILOVER_TRIGGERED" => detaches = 0 /\ ~accepted
  /\ state = "REATTACHING_PREFERRED" =>
       /\ detaches <= Spent
       /\ pc = "generic" => detaches = 0 /\ ~accepted
  /\ state = "REATTACHING_GENERIC" /\ pc = "generic" => detaches <= Spent

LEMMA DetachInit == SystemInit => DetachInv
<1> SUFFICES ASSUME SystemInit PROVE DetachInv
  OBVIOUS
<1>1. /\ detaches = 0 /\ accepted = FALSE
      /\ pc = "idle" /\ state = "BOOTSTRAP"
  BY DEF SystemInit, Init, ControllerInit
<1>2. DetachesBounded
  BY <1>1 DEF DetachesBounded
<1>3. detaches \in 0 .. MaxDetaches
  BY <1>1 DEF MaxDetaches
<1>4. accepted \in BOOLEAN
  BY <1>1
<1> QED
  BY <1>1, <1>2, <1>3, <1>4 DEF DetachInv

\* A step that leaves the controller and the counts alone and does not bring
\* update() to another request keeps the invariant.
LEMMA QuietStepsKeepDetach ==
  ASSUME DetachInv, state' = state, detaches' = detaches,
         accepted' = accepted, pc' \in {"idle", "decide"} \/ pc' = pc
  PROVE  DetachInv'
BY DEF DetachInv, DetachesBounded, Spent

LEMMA DecideKeepsDetach ==
  ASSUME DetachInv, NEW offer \in Offers, Decide(offer)
  PROVE  DetachInv'
<1>1. RequestFits
  <2>1. PICK in : Evaluate(now, in)
    BY DEF Decide
  <2> QED
    BY <2>1, RequestsFit
<1>2. /\ pc = "decide"
      /\ pc' = "target" <=> action'.type = "TRIGGER_PREFERRED_REATTACH"
      /\ pc' = "generic" <=> action'.type = "TRIGGER_GENERIC_REATTACH"
      /\ pc' = "idle" <=> action'.type = "NONE"
  BY <1>1, ContinuesFit DEF Decide, RequestFits
<1>3. IF state' = "FAILOVER_TRIGGERED" /\ state # "FAILOVER_TRIGGERED"
      THEN detaches' = 0 /\ accepted' = FALSE
      ELSE detaches' = detaches /\ accepted' = accepted
  BY DEF Decide
<1>4. CASE action'.type = "TRIGGER_PREFERRED_REATTACH"
  BY <1>1, <1>2, <1>3, <1>4
     DEF DetachInv, DetachesBounded, Spent, RequestFits
<1>5. CASE action'.type = "TRIGGER_GENERIC_REATTACH"
  BY <1>1, <1>2, <1>3, <1>5
     DEF DetachInv, DetachesBounded, Spent, RequestFits
<1>6. CASE action'.type = "NONE"
  <2>1. CASE state' = "FAILOVER_TRIGGERED"
    <3>1. detaches' = 0 /\ accepted' = FALSE /\ pc' = "idle"
      BY <1>1, <1>2, <1>3, <1>6, <2>1 DEF RequestFits
    <3>2. DetachesBounded'
      BY <3>1 DEF DetachesBounded
    <3>3. detaches' \in 0 .. MaxDetaches
      BY <3>1 DEF MaxDetaches
    <3>4. accepted' \in BOOLEAN
      BY <3>1
    <3> QED
      BY <2>1, <3>1, <3>2, <3>3, <3>4 DEF DetachInv
  <2>2. CASE state' # "FAILOVER_TRIGGERED"
    <3>1. detaches' = detaches /\ accepted' = accepted /\ pc' = "idle"
      BY <1>2, <1>3, <1>6, <2>2
    <3>2. Spent' = Spent /\ DetachesBounded'
      BY <3>1 DEF Spent, DetachesBounded, DetachInv
    <3> QED
      BY <1>1, <1>6, <2>2, <3>1, <3>2 DEF DetachInv, RequestFits
  <2> QED
    BY <2>1, <2>2
<1> QED
  BY <1>1, <1>4, <1>5, <1>6 DEF RequestFits, FailoverActionType

LEMMA DetachStep == DetachInv /\ [SystemNext]_systemVars => DetachInv'
<1> SUFFICES ASSUME DetachInv, [SystemNext]_systemVars PROVE DetachInv'
  OBVIOUS
<1>1. CASE UNCHANGED systemVars
  BY <1>1, QuietStepsKeepDetach
     DEF systemVars, loopVars, historyVars, vars, controllerVars
<1>2. ASSUME NEW d \in 1 .. MaxGap, Begin(d) PROVE DetachInv'
  BY <1>2, QuietStepsKeepDetach DEF Begin, controllerVars
<1>3. CASE \E offer \in Offers : Decide(offer)
  BY <1>3, DecideKeepsDetach
<1>4. CASE TargetAccepted
  BY <1>4 DEF TargetAccepted, vars, controllerVars, DetachInv,
              DetachesBounded, Spent
<1>5. CASE TargetRejected
  BY <1>5 DEF TargetRejected, vars, controllerVars, historyVars, DetachInv,
              DetachesBounded, Spent
<1>6. CASE GenericDetaches
  BY <1>6 DEF GenericDetaches, vars, controllerVars, DetachInv,
              DetachesBounded, Spent, Saturate, MaxDetaches
<1>7. CASE GenericChangesNothing
  BY <1>7, QuietStepsKeepDetach
     DEF GenericChangesNothing, vars, controllerVars, historyVars
<1>8. CASE Stack
  BY <1>8, QuietStepsKeepDetach
     DEF Stack, Start, Attach, Lose, Move, SelectedSucceeds, SelectedFails,
         Become, vars, controllerVars, loopVars
<1> QED
  BY <1>1, <1>2, <1>3, <1>4, <1>5, <1>6, <1>7, <1>8 DEF SystemNext, Update

\* For one failover update() detaches the device at most twice, and at most
\* once if the stack took the targeted request.
THEOREM DetachesTheorem == SystemSpec => []DetachesBounded
<1>1. DetachInv => DetachesBounded
  BY DEF DetachInv
<1> QED
  BY <1>1, DetachInit, DetachStep, PTL DEF SystemSpec

-----------------------------------------------------------------------------
(***************************************************************************)
(* Success is not invented.                                                *)
(***************************************************************************)
MetricsSeen == metrics.parent # NoRloc => metrics.parent \in seen

LEMMA MetricsSeenStep ==
  ASSUME ParentInfoFails = FALSE, MetricsSeen, [SystemNext]_systemVars
  PROVE  MetricsSeen'
<1>1. CASE UNCHANGED systemVars
  BY <1>1 DEF systemVars, loopVars, historyVars, MetricsSeen
<1>2. ASSUME NEW d \in 1 .. MaxGap, Begin(d) PROVE MetricsSeen'
  <2>1. metrics' \in ReadMetrics /\ seen' = {parent} \ {NoRloc}
    BY <1>2 DEF Begin
  <2>2. CASE role = "CHILD"
    <3>1. metrics' \in { [parent |-> p, health |-> h] :
                            p \in {parent}, h \in {"HEALTHY", "DEGRADED"} }
      BY <2>1, <2>2 DEF ReadMetrics
    <3>2. metrics'.parent = parent
      BY <3>1
    <3> QED
      BY <2>1, <3>2 DEF MetricsSeen
  <2>3. CASE role # "CHILD"
    BY <2>1, <2>3 DEF ReadMetrics, NoMetrics, MetricsSeen
  <2> QED
    BY <2>2, <2>3
<1>3. CASE \E offer \in Offers : Decide(offer)
  BY <1>3 DEF Decide, NoMetrics, MetricsSeen
<1>4. CASE \/ TargetAccepted \/ TargetRejected
           \/ GenericDetaches \/ GenericChangesNothing
  BY <1>4 DEF TargetAccepted, TargetRejected, GenericDetaches,
              GenericChangesNothing, historyVars, MetricsSeen
<1>5. CASE Stack
  BY <1>5 DEF Stack, Start, Attach, Lose, Move, SelectedSucceeds,
              SelectedFails, Become, loopVars, MetricsSeen
<1> QED
  BY <1>1, <1>2, <1>3, <1>4, <1>5 DEF SystemNext, Update

\* As long as the stack answers a child's question for its parent, a preferred
\* attach counts as a success only if the device was a child of the target.
THEOREM SuccessTheorem ==
  ASSUME ParentInfoFails = FALSE
  PROVE  SystemSpec => SuccessWasOnTarget
<1>1. SystemInit => MetricsSeen
  BY DEF SystemInit, NoMetrics, MetricsSeen
<1>2. MetricsSeen /\ [SystemNext]_systemVars => MetricsSeen'
  BY MetricsSeenStep
<1>3. ASSUME MetricsSeen, [SystemNext]_systemVars
      PROVE  [ state = "REATTACHING_PREFERRED"
                 /\ state' = "POST_FAILOVER_STABILIZE"
               => currentTarget \in seen ]_systemVars
  <2> SUFFICES ASSUME state = "REATTACHING_PREFERRED",
                      state' = "POST_FAILOVER_STABILIZE"
               PROVE  currentTarget \in seen
    OBVIOUS
  <2>1. PICK offer \in Offers : Decide(offer)
    BY <1>3, OtherStepsKeepController
       DEF SystemNext, Update, Begin, systemVars, vars, controllerVars
  <2> DEFINE in == [attached |-> role = "CHILD", parent |-> metrics.parent,
                    standby |-> offer.rloc, health |-> metrics.health]
  <2>2. Evaluate(now, in)
    BY <2>1 DEF Decide, IsAttachedAsChild
  <2> HIDE DEF in
  <2>3. OnTarget(in)
    BY <2>2 DEF Evaluate, Bootstrap, AttachingInitial, NoStandby,
       StandbyWarm, Eligible, TriggerPreferred, TriggerGeneric,
       PreferredSuccess, PreferredFallback, PreferredWait,
       ReattachingGeneric, PostFailoverStabilize, Transition, Stay
  <2> QED
    BY <1>3, <2>3 DEF OnTarget, MetricsSeen, in
<1> QED
  BY <1>1, <1>2, <1>3, PTL DEF SystemSpec, SuccessWasOnTarget
-----------------------------------------------------------------------------
(***************************************************************************)
(* The controller inside the device.  Between two calls of evaluate() the  *)
(* clock runs ahead of the controller: by the one gap that update() read   *)
(* off millis() when it began.                                             *)
(***************************************************************************)
Proved == INSTANCE FailoverController_proofs WITH
            now <- polled.now, quiet <- polled.quiet

PollInv ==
  /\ SystemTypeOK
  /\ pc # "decide" => polled.now = now /\ polled.quiet = quiet
  /\ pc = "decide" =>
       \E d \in 1 .. MaxGap :
          /\ now = UAdd(polled.now, d, Wrap)
          /\ quiet = Saturate(polled.quiet + d, QuietCap)

LEMMA PollInit == SystemInit => PollInv
<1>1. SystemInit => SystemTypeOK
  BY SystemTypeInit
<1> QED
  BY <1>1 DEF SystemInit, Init, PollInv

LEMMA PollStep ==
  PollInv /\ ClockTypes' /\ [SystemNext]_systemVars => PollInv'
<1> SUFFICES ASSUME PollInv, ClockTypes', [SystemNext]_systemVars
             PROVE  PollInv'
  OBVIOUS
<1>1. SystemTypeOK'
  BY SystemTypeStep DEF PollInv
<1>2. CASE UNCHANGED systemVars
  BY <1>1, <1>2 DEF PollInv, systemVars, vars, loopVars, historyVars
<1>3. ASSUME NEW d \in 1 .. MaxGap, Begin(d) PROVE PollInv'
  <2>1. /\ pc = "idle" /\ pc' = "decide"
        /\ now' = UAdd(now, d, Wrap)
        /\ quiet' = Saturate(quiet + d, QuietCap)
        /\ polled' = polled
    BY <1>3 DEF Begin
  <2>2. polled.now = now /\ polled.quiet = quiet
    BY <2>1 DEF PollInv
  <2> QED
    BY <1>1, <2>1, <2>2 DEF PollInv
<1>4. ASSUME NEW offer \in Offers, Decide(offer) PROVE PollInv'
  <2>1. /\ polled' = [now |-> now, quiet |-> quiet']
        /\ now' = now
        /\ Continue
    BY <1>4 DEF Decide
  <2>2. pc' # "decide"
    <3>1. PICK in : Evaluate(now, in)
      BY <1>4 DEF Decide
    <3>2. action'.type \in FailoverActionType
      BY <3>1, RequestsFit DEF RequestFits
    <3> QED
      BY <2>1, <3>2 DEF Continue, FailoverActionType
  <2> QED
    BY <1>1, <2>1, <2>2 DEF PollInv
<1>5. CASE \/ TargetAccepted \/ TargetRejected
           \/ GenericDetaches \/ GenericChangesNothing
  <2>1. UNCHANGED <<vars, polled>> /\ pc # "decide" /\ pc' # "decide"
    BY <1>5 DEF TargetAccepted, TargetRejected, GenericDetaches,
                GenericChangesNothing, historyVars
  <2> QED
    BY <1>1, <2>1 DEF PollInv, vars
<1>6. CASE Stack
  <2>1. UNCHANGED <<vars, polled, pc>>
    BY <1>6 DEF Stack, Start, Attach, Lose, Move, SelectedSucceeds,
                SelectedFails, Become, loopVars
  <2> QED
    BY <1>1, <2>1 DEF PollInv, vars
<1> QED
  BY <1>2, <1>3, <1>4, <1>5, <1>6 DEF SystemNext, Update

\* evaluate() is given its time, so it does not notice whose clock that is.
LEMMA SameEvaluate ==
  ASSUME NEW t, NEW in
  PROVE  Evaluate(t, in) => Controller!Evaluate(t, in)
<1> USE DEF Transition, Stay, ReturnNothing, NoAction, AttachedState,
            StandbyAvailable, HoldDownExpired, Elapsed, OnTarget, Return,
            Increment, RecordPreferredOutcome, CompleteFailover,
            PreferredExpired, completionVars, attemptVars, outcomeVars,
            UAdd, USub, Controller!UAdd, Controller!USub,
            Controller!Transition, Controller!Stay,
            Controller!ReturnNothing, Controller!NoAction,
            Controller!AttachedState, Controller!StandbyAvailable,
            Controller!HoldDownExpired, Controller!Elapsed,
            Controller!OnTarget, Controller!Return, Controller!Increment,
            Controller!RecordPreferredOutcome, Controller!CompleteFailover,
            Controller!PreferredExpired, Controller!completionVars,
            Controller!attemptVars, Controller!outcomeVars
<1>1. Bootstrap(t, in) => Controller!Bootstrap(t, in)
  BY DEF Bootstrap, Controller!Bootstrap
<1>2. AttachingInitial(t, in) => Controller!AttachingInitial(t, in)
  BY DEF AttachingInitial, Controller!AttachingInitial
<1>3. NoStandby(t, in) => Controller!NoStandby(t, in)
  BY DEF NoStandby, Controller!NoStandby
<1>4. StandbyWarm(t, in) => Controller!StandbyWarm(t, in)
  BY DEF StandbyWarm, Controller!StandbyWarm
<1>5. Eligible(t, in) => Controller!Eligible(t, in)
  BY DEF Eligible, Controller!Eligible, EligibleExpired,
         Controller!EligibleExpired
<1>6. TriggerPreferred(t, in) => Controller!TriggerPreferred(t, in)
  BY DEF TriggerPreferred, Controller!TriggerPreferred
<1>7. TriggerGeneric(t, in) => Controller!TriggerGeneric(t, in)
  BY DEF TriggerGeneric, Controller!TriggerGeneric
<1>8. PreferredSuccess(t, in) => Controller!PreferredSuccess(t, in)
  BY DEF PreferredSuccess, Controller!PreferredSuccess
<1>9. PreferredFallback(t, in) => Controller!PreferredFallback(t, in)
  BY DEF PreferredFallback, Controller!PreferredFallback
<1>10. PreferredWait(t, in) => Controller!PreferredWait(t, in)
  BY DEF PreferredWait, Controller!PreferredWait
<1>11. ReattachingGeneric(t, in) => Controller!ReattachingGeneric(t, in)
  BY DEF ReattachingGeneric, Controller!ReattachingGeneric
<1>12. PostFailoverStabilize(t, in)
         => Controller!PostFailoverStabilize(t, in)
  BY DEF PostFailoverStabilize, Controller!PostFailoverStabilize,
         StabilizeExpired, Controller!StabilizeExpired
<1> QED
  BY <1>1, <1>2, <1>3, <1>4, <1>5, <1>6, <1>7, <1>8, <1>9, <1>10, <1>11,
     <1>12 DEF Evaluate, Controller!Evaluate

\* One step of the device is one call of the controller or none.
LEMMA PollsNext ==
  PollInv /\ [SystemNext]_systemVars
    => [Controller!Next]_(Controller!vars)
<1> SUFFICES ASSUME PollInv, [SystemNext]_systemVars
             PROVE  [Controller!Next]_(Controller!vars)
  OBVIOUS
<1> USE DEF Controller!vars, Controller!controllerVars,
            Controller!completionVars, Controller!attemptVars,
            Controller!outcomeVars
<1>1. ASSUME UNCHANGED <<controllerVars, polled>>
      PROVE  UNCHANGED Controller!vars
  BY <1>1 DEF controllerVars, completionVars, attemptVars, outcomeVars
<1>2. CASE UNCHANGED systemVars
  BY <1>1, <1>2 DEF systemVars, vars, historyVars
<1>3. CASE \E d \in 1 .. MaxGap : Begin(d)
  BY <1>1, <1>3 DEF Begin
<1>4. CASE \/ TargetAccepted \/ TargetRejected
           \/ GenericDetaches \/ GenericChangesNothing \/ Stack
  <2>1. UNCHANGED vars
    BY <1>4, OtherStepsKeepController
  <2>2. UNCHANGED polled
    BY <1>4 DEF TargetAccepted, TargetRejected, GenericDetaches,
                GenericChangesNothing, Stack, Start, Attach, Lose, Move,
                SelectedSucceeds, SelectedFails, Become, historyVars
  <2> QED
    BY <1>1, <2>1, <2>2 DEF vars
<1>5. ASSUME NEW offer \in Offers, Decide(offer) PROVE Controller!Next
  <2> DEFINE in == [attached |-> IsAttachedAsChild,
                    parent |-> metrics.parent,
                    standby |-> offer.rloc, health |-> metrics.health]
  <2>1. /\ Evaluate(now, in)
        /\ quiet' = IF FailoverCompletes THEN 0 ELSE quiet
        /\ polled' = [now |-> now, quiet |-> quiet']
        /\ pc = "decide"
    BY <1>5 DEF Decide
  <2>2. PICK d \in 1 .. MaxGap :
          /\ now = UAdd(polled.now, d, Wrap)
          /\ quiet = Saturate(polled.quiet + d, QuietCap)
    BY <2>1 DEF PollInv
  <2>3. in \in Inputs
    <3>1. metrics.parent \in Rloc /\ metrics.health \in Health
      BY DEF PollInv, SystemTypeOK
    <3>2. offer.rloc \in Rloc
      BY DEF Offers, NoStandbyFound, Rloc
    <3>3. IsAttachedAsChild \in BOOLEAN
      BY DEF IsAttachedAsChild
    <3> QED
      BY <3>1, <3>2, <3>3 DEF Inputs
  <2>4. in \in Controller!Inputs
    BY <2>3 DEF Inputs, Rloc, Health, Controller!Inputs, Controller!Rloc,
                Controller!Health
  <2> HIDE DEF in
  <2>5. Controller!UAdd(polled.now, d, Wrap) = now
    BY <2>2 DEF UAdd, Controller!UAdd
  <2>6. Controller!Evaluate(now, in)
    BY <2>1, SameEvaluate
  <2>7. Controller!CountQuiet(d)
    BY <2>1, <2>2 DEF Controller!CountQuiet, Controller!FailoverCompletes,
                      FailoverCompletes, Saturate, Controller!Saturate
  <2>8. Controller!Poll(d, in)
    BY <2>1, <2>5, <2>6, <2>7 DEF Controller!Poll
  <2> QED
    BY <2>4, <2>8 DEF Controller!Next
<1> QED
  BY <1>2, <1>3, <1>4, <1>5 DEF SystemNext, Update

LEMMA PollsInit == SystemInit => Controller!Init
BY DEF SystemInit, Init, ControllerInit, NoAction, Controller!Init,
       Controller!ControllerInit, Controller!NoAction

\* The device, watched at its calls of evaluate(), is the controller.
THEOREM SystemPollsTheorem == SystemSpec => SystemPolls
<1>1. SystemHoldInv => ClockTypes
  BY DEF SystemHoldInv
<1> QED
  BY <1>1, SystemHoldInit, SystemHoldStep, PollInit, PollStep, PollsInit,
     PollsNext, PTL DEF SystemSpec, SystemPolls

\* Proved and Controller are instances of the same definitions under the same
\* substitution, with the theorems and without them; written out, they agree.
LEMMA SameInit == Controller!Init => Proved!Init
BY DEF Proved!Init, Proved!ControllerInit, Proved!NoAction,
       Controller!Init, Controller!ControllerInit, Controller!NoAction

LEMMA SameVars == UNCHANGED Controller!vars => UNCHANGED Proved!vars
BY DEF Proved!vars, Proved!controllerVars, Proved!completionVars,
       Proved!attemptVars, Proved!outcomeVars, Controller!vars,
       Controller!controllerVars, Controller!completionVars,
       Controller!attemptVars, Controller!outcomeVars

LEMMA SameNext == Controller!Next => Proved!Next
BY DEF Proved!Next, Proved!Poll, Proved!CountQuiet, Proved!FailoverCompletes,
       Proved!Inputs, Proved!Rloc, Proved!Health, Proved!Evaluate,
       Proved!Transition, Proved!Stay, Proved!ReturnNothing, Proved!NoAction,
       Proved!AttachedState, Proved!StandbyAvailable, Proved!HoldDownExpired,
       Proved!EligibleExpired, Proved!StabilizeExpired,
       Proved!PreferredExpired, Proved!Elapsed, Proved!OnTarget,
       Proved!Return, Proved!Increment, Proved!RecordPreferredOutcome,
       Proved!CompleteFailover, Proved!completionVars, Proved!attemptVars,
       Proved!outcomeVars, Proved!UAdd, Proved!USub, Proved!Saturate,
       Proved!Bootstrap, Proved!AttachingInitial, Proved!NoStandby,
       Proved!StandbyWarm, Proved!Eligible, Proved!TriggerPreferred,
       Proved!TriggerGeneric, Proved!PreferredSuccess,
       Proved!PreferredFallback, Proved!PreferredWait,
       Proved!ReattachingGeneric, Proved!PostFailoverStabilize,
       Controller!Next, Controller!Poll, Controller!CountQuiet,
       Controller!FailoverCompletes, Controller!Inputs, Controller!Rloc,
       Controller!Health, Controller!Evaluate, Controller!Transition,
       Controller!Stay, Controller!ReturnNothing, Controller!NoAction,
       Controller!AttachedState, Controller!StandbyAvailable,
       Controller!HoldDownExpired, Controller!EligibleExpired,
       Controller!StabilizeExpired, Controller!PreferredExpired,
       Controller!Elapsed, Controller!OnTarget, Controller!Return,
       Controller!Increment, Controller!RecordPreferredOutcome,
       Controller!CompleteFailover, Controller!completionVars,
       Controller!attemptVars, Controller!outcomeVars, Controller!UAdd,
       Controller!USub, Controller!Saturate, Controller!Bootstrap,
       Controller!AttachingInitial, Controller!NoStandby,
       Controller!StandbyWarm, Controller!Eligible,
       Controller!TriggerPreferred, Controller!TriggerGeneric,
       Controller!PreferredSuccess, Controller!PreferredFallback,
       Controller!PreferredWait, Controller!ReattachingGeneric,
       Controller!PostFailoverStabilize

LEMMA SamePolicyInit == Proved!Policy!PInit => Controller!Policy!PInit
BY DEF Proved!Policy!PInit, Controller!Policy!PInit, Proved!PhaseOf,
       Proved!AgeOf, Proved!Elapsed, Proved!USub, Controller!PhaseOf,
       Controller!AgeOf, Controller!Elapsed, Controller!USub

LEMMA SamePolicyVars ==
  UNCHANGED Proved!Policy!pvars => UNCHANGED Controller!Policy!pvars
BY DEF Proved!Policy!pvars, Controller!Policy!pvars, Proved!PhaseOf,
       Proved!AgeOf, Proved!Elapsed, Proved!USub, Controller!PhaseOf,
       Controller!AgeOf, Controller!Elapsed, Controller!USub

LEMMA SamePolicyNext == Proved!Policy!PNext => Controller!Policy!PNext
BY DEF Proved!Policy!PNext, Proved!Policy!PStep, Proved!Policy!Enter,
       Proved!Policy!Ask, Proved!Policy!Later, Proved!Policy!Saturate,
       Proved!Policy!Seek, Proved!Policy!Serve, Proved!Policy!Watch,
       Proved!Policy!KeepWatching,
       Proved!Policy!Decide, Proved!Policy!AskPreferred,
       Proved!Policy!AskGeneric, Proved!Policy!AwaitPreferred,
       Proved!Policy!FallBack, Proved!Policy!AwaitGeneric,
       Proved!Policy!Arrive, Proved!Policy!Settling, Proved!Policy!Settled,
       Proved!PhaseOf, Proved!AgeOf, Proved!Elapsed, Proved!USub,
       Controller!Policy!PNext, Controller!Policy!PStep,
       Controller!Policy!Enter, Controller!Policy!Ask,
       Controller!Policy!Later, Controller!Policy!Saturate,
       Controller!Policy!Seek, Controller!Policy!Serve,
       Controller!Policy!Watch,
       Controller!Policy!KeepWatching, Controller!Policy!Decide,
       Controller!Policy!AskPreferred, Controller!Policy!AskGeneric,
       Controller!Policy!AwaitPreferred, Controller!Policy!FallBack,
       Controller!Policy!AwaitGeneric, Controller!Policy!Arrive,
       Controller!Policy!Settling, Controller!Policy!Settled,
       Controller!PhaseOf, Controller!AgeOf, Controller!Elapsed,
       Controller!USub

LEMMA PollsOfProved ==
  SystemPolls => Proved!Init /\ [][Proved!Next]_(Proved!vars)
<1>1. [Controller!Next]_(Controller!vars) => [Proved!Next]_(Proved!vars)
  BY SameNext, SameVars
<1> QED
  BY <1>1, SameInit, PTL DEF SystemPolls

\* The running device follows the failover policy, in true time.
THEOREM SystemPolicyTheorem == SystemSpec => SystemFollowsPolicy
<1>1. Proved!Init /\ [][Proved!Next]_(Proved!vars) => Proved!PolicySpec
  BY Proved!PollsFollowPolicy, RlocAssumption, WidthAssumption,
     TimerAssumption, QuietCapAssumption
<1>2. [Proved!Policy!PNext]_(Proved!Policy!pvars)
        => [Controller!Policy!PNext]_(Controller!Policy!pvars)
  BY SamePolicyNext, SamePolicyVars
<1> QED
  BY <1>1, <1>2, SystemPollsTheorem, PollsOfProved, SamePolicyInit, PTL
     DEF SystemFollowsPolicy, Controller!PolicySpec, Proved!PolicySpec,
         Controller!Policy!PSpec, Proved!Policy!PSpec

\* In the running device, too, the published counters balance and a target is
\* held exactly while its attach is awaited.
THEOREM SystemBookTheorem ==
  SystemSpec => [](AttemptsAccounted /\ TargetOnlyInFlight)
<1>1. Proved!Init /\ [][Proved!Next]_(Proved!vars)
        => []Proved!RefinementInv
  BY Proved!PollsAreSafe, RlocAssumption, WidthAssumption,
     TimerAssumption, QuietCapAssumption
<1>2. Proved!RefinementInv => AttemptsAccounted /\ TargetOnlyInFlight
  BY DEF Proved!RefinementInv, Proved!BookInv, Proved!AttemptsAccounted,
         Proved!TargetOnlyInFlight, Proved!Increment, Proved!UAdd,
         AttemptsAccounted, TargetOnlyInFlight, Increment, UAdd
<1> QED
  BY <1>1, <1>2, SystemPollsTheorem, PollsOfProved, PTL
=============================================================================
