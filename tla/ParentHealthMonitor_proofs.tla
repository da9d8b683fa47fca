--------------------- MODULE ParentHealthMonitor_proofs ---------------------
(***************************************************************************)
(* Proofs about ParentHealthMonitor, for every clock width, poll period,   *)
(* persistence time and reception age.                                     *)
(***************************************************************************)
EXTENDS ParentHealthMonitor, TLAPS

Time == 0 .. Wrap - 1

\* One poll later the wrapping timer shows at most that poll's gap more.
LEMMA TimerGrows ==
  ASSUME NEW n \in Time, NEW s \in Time, NEW d \in 1 .. MaxGap
  PROVE  LET t == UAdd(n, d, Wrap) IN
         /\ t \in Time
         /\ USub(t, t, Wrap) = 0
         /\ USub(n, s, Wrap) \in Nat
         /\ USub(t, s, Wrap) \in Nat
         /\ USub(t, s, Wrap) < Wrap
         /\ USub(t, s, Wrap) <= USub(n, s, Wrap) + d
BY HealthAssumption DEF UAdd, USub, Time

-----------------------------------------------------------------------------
LEMMA HealthTypeInit == HealthInit => HealthTypeOK
<1> SUFFICES ASSUME HealthInit PROVE HealthTypeOK
  OBVIOUS
<1>1. PICK p \in Parent : sample = NoSample(p)
  BY DEF HealthInit
<1>2. 0 \in RxAge
  BY HealthAssumption
<1>3. sample \in Metrics
  BY <1>1, <1>2 DEF NoSample, Metrics
<1> QED
  BY <1>3, HealthAssumption
     DEF HealthInit, HealthTypeOK, ParentHealthState, ParentFailReason

LEMMA HealthTypeStep == HealthTypeOK /\ [HealthNext]_hvars => HealthTypeOK'
<1> SUFFICES ASSUME HealthTypeOK, [HealthNext]_hvars PROVE HealthTypeOK'
  OBVIOUS
<1>1. CASE UNCHANGED hvars
  BY <1>1 DEF hvars, HealthTypeOK
<1>2. ASSUME NEW d \in 1 .. MaxGap, NEW m \in Sampled, HealthPoll(d, m)
      PROVE  HealthTypeOK'
  <2> DEFINE t == UAdd(now, d, Wrap)
  <2>1. now' = t /\ t \in Time
    BY <1>2, TimerGrows DEF HealthPoll, HealthTypeOK, Time
  <2>2. sample' \in Metrics
    BY <1>2 DEF HealthPoll, Sampled
  <2>3. sinceGood' \in 0 .. Wrap /\ badRun' \in 0 .. Wrap
    BY <1>2, HealthAssumption
       DEF HealthPoll, Watched, Saturate, HealthTypeOK
  <2>4. EvaluateHealth(t, m)
    BY <1>2 DEF HealthPoll
  <2> HIDE DEF t
  <2>5. SinceWhen(t) \in Time /\ 0 \in Time
    BY <2>1, HealthAssumption DEF SinceWhen, HealthTypeOK, Time
  <2>6. /\ degradedSince' \in Time
        /\ health' \in ParentHealthState
        /\ reason' \in ParentFailReason
    BY <2>4, <2>5
       DEF EvaluateHealth, EvaluateFailed, EvaluateDegraded,
           EvaluateHealthy, Classify, ParentHealthState, ParentFailReason,
           HealthTypeOK, Time
  <2> QED
    BY <2>1, <2>2, <2>3, <2>6 DEF HealthTypeOK, Time
<1> QED
  BY <1>1, <1>2 DEF HealthNext

\* Every reachable state of the monitor is well typed.
THEOREM HealthTypeCorrect == HealthSpec => []HealthTypeOK
BY HealthTypeInit, HealthTypeStep, PTL DEF HealthSpec

-----------------------------------------------------------------------------
(***************************************************************************)
(* Persistence.  DegradedMeansPersistence is not inductive: it needs that  *)
(* the timer, armed at some earlier poll, shows no more than the true time *)
(* since the parent was last clear.                                        *)
(***************************************************************************)
PersistenceInv ==
  HealthTypeOK /\ PersistenceMeasured /\ DegradedMeansPersistence

LEMMA PersistenceInit == HealthInit => PersistenceInv
BY HealthTypeInit
   DEF PersistenceInv, HealthInit, PersistenceMeasured,
       DegradedMeansPersistence

LEMMA PersistenceStep ==
  PersistenceInv /\ [HealthNext]_hvars => PersistenceInv'
<1> SUFFICES ASSUME PersistenceInv, [HealthNext]_hvars
             PROVE  PersistenceInv'
  OBVIOUS
<1>1. HealthTypeOK'
  BY HealthTypeStep DEF PersistenceInv
<1>2. CASE UNCHANGED hvars
  BY <1>1, <1>2
     DEF hvars, PersistenceInv, PersistenceMeasured, DegradedMeansPersistence
<1>3. ASSUME NEW d \in 1 .. MaxGap, NEW m \in Sampled, HealthPoll(d, m)
      PROVE  PersistenceInv'
  <2> DEFINE t == UAdd(now, d, Wrap)
  <2>1. /\ now' = t
        /\ EvaluateHealth(t, m)
        /\ Watched(t, m, d)
    BY <1>3 DEF HealthPoll
  <2>2. /\ now \in Time /\ degradedSince \in Time /\ sinceGood \in 0 .. Wrap
        /\ degradedSince # 0 => USub(now, degradedSince, Wrap) <= sinceGood
    BY DEF PersistenceInv, HealthTypeOK, PersistenceMeasured, Time
  <2>3. /\ USub(t, t, Wrap) = 0
        /\ USub(now, degradedSince, Wrap) \in Nat
        /\ USub(t, degradedSince, Wrap) \in Nat
        /\ USub(t, degradedSince, Wrap) < Wrap
        /\ USub(t, degradedSince, Wrap)
             <= USub(now, degradedSince, Wrap) + d
    BY <2>2, TimerGrows
  <2> HIDE DEF t
  <2>4. CASE EvaluateFailed(t, m)
    <3>1. /\ sinceGood' = Saturate(sinceGood + d, Wrap)
          /\ degradedSince' = degradedSince
          /\ health' = "FAILED"
      BY <2>1, <2>4 DEF Watched, EvaluateFailed, Classify
    <3>2. PersistenceMeasured'
      BY <2>1, <2>2, <2>3, <3>1, HealthAssumption
         DEF PersistenceMeasured, Saturate
    <3> QED
      BY <1>1, <3>1, <3>2 DEF PersistenceInv, DegradedMeansPersistence
  <2>5. CASE EvaluateHealthy(t, m)
    BY <1>1, <2>5
       DEF EvaluateHealthy, Classify, PersistenceInv, PersistenceMeasured,
           DegradedMeansPersistence
  <2>6. CASE EvaluateDegraded(t, m)
    <3>1. /\ sinceGood' = Saturate(sinceGood + d, Wrap)
          /\ degradedSince' = SinceWhen(t)
          /\ health' = "DEGRADED" => Persisted(t)
      BY <2>1, <2>6 DEF Watched, EvaluateDegraded, Classify
    <3>2. USub(t, SinceWhen(t), Wrap) \in Nat
      BY <2>3 DEF SinceWhen
    <3>3. sinceGood' >= USub(t, SinceWhen(t), Wrap)
      BY <2>2, <2>3, <3>1, HealthAssumption DEF SinceWhen, Saturate
    <3>4. PersistenceMeasured'
      BY <2>1, <3>1, <3>3 DEF PersistenceMeasured
    <3>5. DegradedMeansPersistence'
      <4>1. sinceGood' \in 0 .. Wrap
        BY <1>1 DEF HealthTypeOK
      <4> QED
        BY <3>1, <3>2, <3>3, <4>1, HealthAssumption
           DEF Persisted, DegradedMeansPersistence
    <3> QED
      BY <1>1, <3>4, <3>5 DEF PersistenceInv
  <2> QED
    BY <2>1, <2>4, <2>5, <2>6 DEF EvaluateHealth
<1> QED
  BY <1>2, <1>3 DEF HealthNext

\* For every clock width and persistence time: a parent is called degraded
\* only if no sample cleared it for at least degrade_persist_time.
THEOREM PersistenceTheorem == HealthSpec => []DegradedMeansPersistence
<1>1. PersistenceInv => DegradedMeansPersistence
  BY DEF PersistenceInv
<1> QED
  BY <1>1, PersistenceInit, PersistenceStep, PTL DEF HealthSpec

-----------------------------------------------------------------------------
LEMMA SampledAge ==
  ASSUME NEW m \in Sampled
  PROVE  /\ m.rxAge \in 1 - Wrap .. Wrap - 1
         /\ m.rxAge < 0 => m.inferred
<1>1. m \in Metrics /\ (m.rxAge < 0 => m.inferred)
  BY DEF Sampled
<1>2. m.rxAge \in RxAge
  BY <1>1 DEF Metrics
<1>3. RxAge \subseteq 1 - Wrap .. Wrap - 1
  BY HealthAssumption
<1> QED
  BY <1>1, <1>2, <1>3

\* The age read back from a timestamp that is not in the future is the true
\* one.
LEMMA RxAgeExact ==
  ASSUME NEW t \in Time, NEW m \in Sampled, m.rxAge >= 0
  PROVE  USub(t, LastRx(t, m), Wrap) = m.rxAge
<1>1. m.rxAge \in 0 .. Wrap - 1
  BY SampledAge, HealthAssumption
<1> QED
  BY <1>1, HealthAssumption DEF LastRx, USub, Time

RealFailureInv == HealthTypeOK /\ HardFailureIsReal

\* For every timeout and every lag between the two clocks: a valid and
\* supervised parent is failed only if nothing was received from it for
\* hard_failure_timeout, never because its timestamp lies in the future.
THEOREM HardFailureTheorem == HealthSpec => []HardFailureIsReal
<1>1. HealthInit => RealFailureInv
  BY HealthTypeInit DEF HealthInit, RealFailureInv, HardFailureIsReal
<1>2. RealFailureInv /\ [HealthNext]_hvars => RealFailureInv'
  <2> SUFFICES ASSUME RealFailureInv, [HealthNext]_hvars
               PROVE  RealFailureInv'
    OBVIOUS
  <2>1. HealthTypeOK'
    BY HealthTypeStep DEF RealFailureInv
  <2>2. CASE UNCHANGED hvars
    BY <2>1, <2>2 DEF hvars, RealFailureInv, HardFailureIsReal
  <2>3. ASSUME NEW d \in 1 .. MaxGap, NEW m \in Sampled, HealthPoll(d, m)
        PROVE  HardFailureIsReal'
    <3> DEFINE t == UAdd(now, d, Wrap)
    <3>1. EvaluateHealth(t, m) /\ sample' = m
      BY <2>3 DEF HealthPoll
    <3>2. t \in Time
      BY TimerGrows DEF RealFailureInv, HealthTypeOK, Time
    <3> HIDE DEF t
    <3>3. SUFFICES ASSUME health' = "FAILED", m.valid, m.supervisionOk
                   PROVE  m.rxAge >= HardTimeout
      BY <3>1 DEF HardFailureIsReal
    <3>4. Failing(t, m)
      BY <3>1, <3>3
         DEF EvaluateHealth, EvaluateFailed, EvaluateDegraded,
             EvaluateHealthy, Classify
    <3>5. HardTimedOut(t, m) /\ ~m.inferred
      BY <3>3, <3>4 DEF Failing
    <3>6. m.rxAge >= 0
      BY <3>5, SampledAge, HealthAssumption
    <3> QED
      BY <3>2, <3>5, <3>6, RxAgeExact DEF HardTimedOut
  <2> QED
    BY <2>1, <2>2, <2>3 DEF HealthNext, RealFailureInv
<1>3. RealFailureInv => HardFailureIsReal
  BY DEF RealFailureInv
<1> QED
  BY <1>1, <1>2, <1>3, PTL DEF HealthSpec
-----------------------------------------------------------------------------
(***************************************************************************)
(* Recognition.  The timer must not fall behind the run of degraded        *)
(* samples either: by one gap at most, which it loses when the run begins  *)
(* at timestamp 0.                                                         *)
(***************************************************************************)
LastDegraded == health # "FAILED" /\ Degraded(sample)

RunMeasured ==
  /\ badRun # 0 => LastDegraded
  /\ LastDegraded /\ degradedSince = 0 /\ sinceGood < Wrap
       => now = 0 /\ badRun = 0
  /\ LastDegraded /\ degradedSince # 0 /\ sinceGood < Wrap
       => badRun <= USub(now, degradedSince, Wrap) + MaxGap
  /\ LastDegraded /\ degradedSince # 0
     /\ USub(now, degradedSince, Wrap) >= PersistTime
       => health = "DEGRADED"

RecognitionInv == PersistenceInv /\ RunMeasured

LEMMA RecognitionInit == HealthInit => RecognitionInv
<1> SUFFICES ASSUME HealthInit PROVE RecognitionInv
  OBVIOUS
<1>1. PICK p \in Parent : sample = NoSample(p)
  BY DEF HealthInit
<1>2. ~LastDegraded
  BY <1>1 DEF NoSample, LastDegraded, Degraded
<1> QED
  BY <1>2, PersistenceInit DEF RecognitionInv, RunMeasured, HealthInit

\* Before it goes once round, the timer keeps pace with real time.
LEMMA TimerKeepsPace ==
  ASSUME NEW n \in Time, NEW s \in Time, NEW d \in 1 .. MaxGap,
         USub(n, s, Wrap) + d < Wrap
  PROVE  USub(UAdd(n, d, Wrap), s, Wrap) = USub(n, s, Wrap) + d
BY HealthAssumption DEF UAdd, USub, Time

\* A poll that starts and ends at timestamp 0 is a whole turn of the clock.
LEMMA FullTurn ==
  ASSUME NEW d \in 1 .. MaxGap, UAdd(0, d, Wrap) = 0
  PROVE  d = Wrap
BY HealthAssumption DEF UAdd

LEMMA RecognitionStep ==
  RecognitionInv /\ [HealthNext]_hvars => RecognitionInv'
<1> SUFFICES ASSUME RecognitionInv, [HealthNext]_hvars
             PROVE  RecognitionInv'
  OBVIOUS
<1>1. PersistenceInv'
  BY PersistenceStep DEF RecognitionInv
<1>2. CASE UNCHANGED hvars
  BY <1>1, <1>2
     DEF hvars, RecognitionInv, RunMeasured, LastDegraded, Degraded
<1>3. ASSUME NEW d \in 1 .. MaxGap, NEW m \in Sampled, HealthPoll(d, m)
      PROVE  RunMeasured'
  <2> DEFINE t == UAdd(now, d, Wrap)
  <2>1. /\ now' = t
        /\ sample' = m
        /\ EvaluateHealth(t, m)
        /\ Watched(t, m, d)
    BY <1>3 DEF HealthPoll
  <2>2. /\ now \in Time /\ degradedSince \in Time
        /\ sinceGood \in 0 .. Wrap /\ badRun \in 0 .. Wrap
        /\ degradedSince # 0 => USub(now, degradedSince, Wrap) <= sinceGood
    BY DEF RecognitionInv, PersistenceInv, HealthTypeOK, PersistenceMeasured,
           Time
  <2>3. /\ USub(t, t, Wrap) = 0
        /\ USub(now, degradedSince, Wrap) \in Nat
        /\ USub(now, degradedSince, Wrap) + d < Wrap
             => USub(t, degradedSince, Wrap)
                  = USub(now, degradedSince, Wrap) + d
        /\ now = 0 /\ t = 0 => d = Wrap
    BY <2>2, TimerGrows, TimerKeepsPace, FullTurn
  <2> HIDE DEF t
  <2>4. CASE EvaluateFailed(t, m)
    <3>1. health' = "FAILED" /\ badRun' = 0
      BY <2>1, <2>4 DEF Watched, EvaluateFailed, Classify
    <3> QED
      BY <3>1 DEF RunMeasured, LastDegraded
  <2>5. CASE EvaluateHealthy(t, m)
    <3>1. ~Degraded(sample') /\ badRun' = 0
      BY <2>1, <2>5 DEF Watched, EvaluateHealthy
    <3> QED
      BY <3>1 DEF RunMeasured, LastDegraded, Degraded
  <2>6. CASE EvaluateDegraded(t, m)
    <3>1. /\ sinceGood' = Saturate(sinceGood + d, Wrap)
          /\ degradedSince' = SinceWhen(t)
          /\ health' = IF Persisted(t) THEN "DEGRADED" ELSE "HEALTHY"
          /\ Degraded(sample')
          /\ badRun' # 0 => LastDegraded
      BY <2>1, <2>6
         DEF Watched, EvaluateDegraded, Classify, LastDegraded
    <3>2. /\ sinceGood' = Saturate(sinceGood + d, Wrap)
          /\ badRun' = Saturate(badRun + d, Wrap) \/ badRun' = 0
      BY <2>1, <2>6 DEF Watched, EvaluateDegraded
    <3>3. LastDegraded'
      BY <3>1 DEF LastDegraded, Degraded
    <3>4. degradedSince' # 0 /\ USub(t, degradedSince', Wrap) >= PersistTime
            => health' = "DEGRADED"
      BY <3>1 DEF Persisted
    <3>5. ASSUME sinceGood' < Wrap
          PROVE  /\ degradedSince' = 0 => t = 0 /\ badRun' = 0
                 /\ degradedSince' # 0
                      => badRun' <= USub(t, degradedSince', Wrap) + MaxGap
      <4>1. sinceGood + d < Wrap /\ d \in Nat /\ d >= 1 /\ d <= MaxGap
        BY <2>2, <3>2, <3>5, HealthAssumption DEF Saturate
      <4>2. sinceGood < Wrap
        BY <2>2, <4>1, HealthAssumption
      <4>3. CASE degradedSince # 0
        <5>1. degradedSince' = degradedSince
          BY <3>1, <4>3 DEF SinceWhen
        <5>2. USub(t, degradedSince, Wrap)
                = USub(now, degradedSince, Wrap) + d
          BY <2>2, <2>3, <4>1, <4>3, HealthAssumption
        <5>3. CASE badRun' = 0
          <6>1. 0 <= USub(now, degradedSince, Wrap) + d + MaxGap
            BY <2>3, <4>1, HealthAssumption
          <6> QED
            BY <4>3, <5>1, <5>2, <5>3, <6>1
        <5>4. CASE badRun' # 0
          <6>1. badRun <= USub(now, degradedSince, Wrap) + MaxGap
            <7>1. LastDegraded
              BY <3>1, <5>4
            <7> QED
              BY <4>2, <4>3, <7>1 DEF RecognitionInv, RunMeasured
          <6>2. badRun' <= badRun + d
            BY <2>2, <3>2, <4>1, <5>4, HealthAssumption DEF Saturate
          <6>3. badRun' <= USub(t, degradedSince, Wrap) + MaxGap
            <7>1. badRun' \in Nat
              BY <2>2, <3>2, <4>1, HealthAssumption DEF Saturate
            <7> QED
              BY <2>2, <2>3, <4>1, <5>2, <6>1, <6>2, <7>1, HealthAssumption
          <6> QED
            BY <4>3, <5>1, <6>3
        <5> QED
          BY <5>3, <5>4
      <4>4. CASE degradedSince = 0
        <5>1. degradedSince' = t
          BY <3>1, <4>4 DEF SinceWhen
        <5>2. badRun' # 0 => now = 0 /\ badRun = 0
          BY <3>1, <4>2, <4>4 DEF RecognitionInv, RunMeasured
        <5>3. badRun' # 0 => badRun' = Saturate(d, Wrap)
          BY <2>2, <3>2, <4>1, <5>2
        <5>4. badRun' # 0 => t # 0
          BY <2>2, <2>3, <4>1, <5>2, HealthAssumption
        <5>5. badRun' <= MaxGap
          BY <4>1, <5>3, HealthAssumption DEF Saturate
        <5> QED
          BY <2>3, <5>1, <5>4, <5>5, HealthAssumption
      <4> QED
        BY <4>3, <4>4
    <3> QED
      BY <2>1, <3>3, <3>4, <3>5 DEF RunMeasured
  <2> QED
    BY <2>1, <2>4, <2>5, <2>6 DEF EvaluateHealth
<1> QED
  BY <1>1, <1>2, <1>3 DEF HealthNext, RecognitionInv

\* For every clock width, gap and persistence time: a parent that every sample
\* finds degraded is called degraded at the latest one gap after
\* degrade_persist_time.
THEOREM RecognitionTheorem == HealthSpec => []DegradationRecognised
<1>1. RecognitionInv => DegradationRecognised
  <2> SUFFICES ASSUME RecognitionInv, badRun >= PersistTime + MaxGap,
                      sinceGood < Wrap
               PROVE  health = "DEGRADED"
    BY DEF DegradationRecognised
  <2>1. badRun \in 0 .. Wrap /\ now \in Time /\ degradedSince \in Time
    BY DEF RecognitionInv, PersistenceInv, HealthTypeOK, Time
  <2>2. badRun # 0
    BY <2>1, HealthAssumption
  <2>3. LastDegraded /\ degradedSince # 0
    BY <2>2 DEF RecognitionInv, RunMeasured
  <2>4. badRun <= USub(now, degradedSince, Wrap) + MaxGap
    BY <2>3 DEF RecognitionInv, RunMeasured
  <2>5. USub(now, degradedSince, Wrap) >= PersistTime
    BY <2>1, <2>4, HealthAssumption DEF USub, Time
  <2> QED
    BY <2>3, <2>5 DEF RecognitionInv, RunMeasured
<1> QED
  BY <1>1, RecognitionInit, RecognitionStep, PTL DEF HealthSpec
=============================================================================
