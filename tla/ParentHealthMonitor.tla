------------------------- MODULE ParentHealthMonitor -------------------------
(***************************************************************************)
(* The classification of the active parent, src/components/biparental_ed/  *)
(* parent_health_monitor.{h,cpp}.  update() calls evaluate() once per poll *)
(* with the metrics the OpenThread adapter has just read.                  *)
(*                                                                         *)
(* A signal strength and an error count matter only through a comparison   *)
(* with their thresholds, so a sample has one value on either side.  The   *)
(* timestamp last_parent_rx_ms is given by its true age.  The adapter      *)
(* takes its own, later millis() as the reference (ot_platform_adapter.cpp)*)
(* and so can hand over a timestamp that lies after the poll's now_ms: a   *)
(* negative age.                                                           *)
(***************************************************************************)
EXTENDS UnsignedArithmetic

CONSTANTS
  Parent,       \* the routers that can be the parent
  Wrap,         \* number of values of a millisecond timestamp
  MaxGap,       \* most milliseconds between two polls
  HardTimeout,  \* hard_failure_timeout_ms_
  PersistTime,  \* degrade_persist_time_ms_
  RxAge         \* the ages of the last reception that are told apart; below 0
                \* when the adapter's clock is past the poll's

ASSUME HealthAssumption ==
  /\ Wrap \in Nat \ {0}
  /\ MaxGap \in Nat \ {0}
  /\ MaxGap <= Wrap
  /\ HardTimeout \in Nat
  /\ PersistTime \in Nat
  /\ 0 \in RxAge
  /\ RxAge \subseteq 1 - Wrap .. Wrap - 1

VARIABLES
  now,            \* now_ms of the latest poll
  degradedSince,  \* degraded_since_ms_, 0 when not degraded
  health,         \* state_
  reason,         \* fail_reason_
  sample,         \* the metrics of the latest poll
  sinceGood,      \* history: milliseconds since a sample that cleared the
                  \* degradation (or boot), up to Wrap
  badRun          \* history: milliseconds over which every sample was of the
                  \* same parent, valid and degraded, up to Wrap

hvars == <<now, degradedSince, health, reason, sample, sinceGood, badRun>>

ParentHealthState == {"HEALTHY", "DEGRADED", "FAILED"}
ParentFailReason == {"NONE", "HARD_TIMEOUT", "LINK_DEGRADED", "CONTROL_PLANE"}

\* weak: average_rssi below its threshold; unstable: control_plane_error_count
\* at its threshold; inferred: last_parent_rx_is_inferred.
Metrics == [valid: BOOLEAN, parent: Parent, weak: BOOLEAN, unstable: BOOLEAN,
            supervisionOk: BOOLEAN, rxAge: RxAge,
            inferred: BOOLEAN]

\* What read_parent_metrics() leaves behind when it fails has only valid of
\* interest; a timestamp taken from the future is always an inferred one.
Sampled == { m \in Metrics :
               /\ ~m.valid => /\ ~m.weak /\ ~m.unstable /\ m.supervisionOk
                              /\ m.rxAge = 0 /\ m.inferred
               /\ m.rxAge < 0 => m.inferred }

-----------------------------------------------------------------------------
\* last_parent_rx_ms of a sample read at poll time t
LastRx(t, m) == IF m.rxAge >= 0 THEN USub(t, m.rxAge, Wrap)
                                ELSE UAdd(t, -m.rxAge, Wrap)

HardTimedOut(t, m) == USub(t, LastRx(t, m), Wrap) >= HardTimeout

\* Slip: an inferred reception counts as a real one.
FailingOnInferred(t, m) == ~m.valid \/ HardTimedOut(t, m) \/ ~m.supervisionOk

Failing(t, m) == \/ ~m.valid
                 \/ HardTimedOut(t, m) /\ ~m.inferred
                 \/ ~m.supervisionOk

Degraded(m) == m.weak \/ m.unstable

\* Slip: every degraded sample restarts the timer.
SinceNow(t) == t

\* degraded_since_ms_ once a degraded sample was seen at t: 0 means unset
SinceWhen(t) == IF degradedSince = 0 THEN t ELSE degradedSince

\* Slip: reads the timestamp before it is set.
PersistedUnset(t) == USub(t, degradedSince, Wrap) >= PersistTime

Persisted(t) == USub(t, SinceWhen(t), Wrap) >= PersistTime

\* Slip: the two results exchanged.
ClassifySwapped(state, why) == health' = why /\ reason' = state

Classify(state, why) == health' = state /\ reason' = why

\* evaluate(), by its early returns.
EvaluateFailed(t, m) ==
  /\ Failing(t, m)
  /\ Classify("FAILED", "HARD_TIMEOUT")
  /\ UNCHANGED degradedSince

EvaluateDegraded(t, m) ==
  /\ ~Failing(t, m)
  /\ Degraded(m)
  /\ degradedSince' = SinceWhen(t)
  /\ IF Persisted(t)
     THEN Classify("DEGRADED",
                   IF m.unstable THEN "CONTROL_PLANE" ELSE "LINK_DEGRADED")
     ELSE Classify("HEALTHY", "NONE")

EvaluateHealthy(t, m) ==
  /\ ~Failing(t, m)
  /\ ~Degraded(m)
  /\ degradedSince' = 0
  /\ Classify("HEALTHY", "NONE")

EvaluateHealth(t, m) ==
  \/ EvaluateFailed(t, m)
  \/ EvaluateDegraded(t, m)
  \/ EvaluateHealthy(t, m)

\* The history variables.
Watched(t, m, d) ==
  /\ sinceGood' = IF ~Failing(t, m) /\ ~Degraded(m)
                  THEN 0 ELSE Saturate(sinceGood + d, Wrap)
  /\ badRun' = IF ~Failing(t, m) /\ Degraded(m)
               THEN IF /\ health # "FAILED" /\ Degraded(sample)
                       /\ m.parent = sample.parent
                    THEN Saturate(badRun + d, Wrap) ELSE 0
               ELSE 0

NoSample(p) == [valid |-> FALSE, parent |-> p, weak |-> FALSE,
                unstable |-> FALSE, supervisionOk |-> TRUE, rxAge |-> 0,
                inferred |-> TRUE]

HealthInit ==
  /\ now = 0
  /\ degradedSince = 0
  /\ health = "HEALTHY"
  /\ reason = "NONE"
  /\ sample \in { NoSample(p) : p \in Parent }
  /\ sinceGood = 0
  /\ badRun = 0

HealthPoll(d, m) ==
  LET t == UAdd(now, d, Wrap) IN
  /\ now' = t
  /\ EvaluateHealth(t, m)
  /\ sample' = m
  /\ Watched(t, m, d)

HealthNext == \E d \in 1 .. MaxGap, m \in Sampled : HealthPoll(d, m)

HealthSpec == HealthInit /\ [][HealthNext]_hvars
-----------------------------------------------------------------------------
HealthTypeOK ==
  /\ now \in 0 .. Wrap - 1
  /\ degradedSince \in 0 .. Wrap - 1
  /\ health \in ParentHealthState
  /\ reason \in ParentFailReason
  /\ sample \in Metrics
  /\ sinceGood \in 0 .. Wrap
  /\ badRun \in 0 .. Wrap

\* A parent is called degraded only if no sample has cleared it for at least
\* degrade_persist_time of real time, whatever the clock's wrap makes of
\* degraded_since_ms_ and of its sentinel 0.
DegradedMeansPersistence == health = "DEGRADED" => sinceGood >= PersistTime

\* The persistence timer never shows more than the real time since the parent
\* was last clear.
PersistenceMeasured ==
  degradedSince # 0 =>
    USub(now, degradedSince, Wrap) <= sinceGood

\* A parent that is degraded in every sample is recognised at the latest one
\* poll after degrade_persist_time (one poll, because a first degraded sample
\* at timestamp 0 reads as "unset"), unless nothing has cleared the
\* degradation for as long as the clock runs: then the timer starts over.
DegradationRecognised ==
  badRun >= PersistTime + MaxGap /\ sinceGood < Wrap => health = "DEGRADED"

\* A parent is given up on a valid, supervised sample only if nothing was
\* really received for hard_failure_timeout: the adapter's later clock alone
\* never fails a parent.
HardFailureIsReal ==
  health = "FAILED" /\ sample.valid /\ sample.supervisionOk
    => sample.rxAge >= HardTimeout

-----------------------------------------------------------------------------
\* docs/milestone-1-architecture-freeze.md: a degradation "must persist for
\* degrade_persist_time before failover eligibility", so that a parent called
\* degraded was degraded in every sample of that time.
DegradationIsContinuous == health = "DEGRADED" => badRun >= PersistTime
=============================================================================
