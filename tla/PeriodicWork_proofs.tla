------------------------- MODULE PeriodicWork_proofs -------------------------
(***************************************************************************)
(* Proofs about PeriodicWork.  What carries them is Measured: a stamp that *)
(* is not 0 shows, modulo the width of the clock, the real time since it   *)
(* was taken, as long as that is less than one turn of the clock.          *)
(***************************************************************************)
EXTENDS PeriodicWork, TLAPS

\* A stamp on a clock at t and the real age of what it stamped.
Measured(t, last, since) ==
  last # 0 => since = Wrap \/ USub(t, last, Wrap) = since

-----------------------------------------------------------------------------
\* Time passes: a stamp goes on measuring.
LEMMA MeasuredLater ==
  ASSUME NEW t \in 0 .. Wrap - 1, NEW last \in 0 .. Wrap - 1,
         NEW since \in 0 .. Wrap, NEW d \in Nat, d < Wrap,
         Measured(t, last, since)
  PROVE  /\ UAdd(t, d, Wrap) \in 0 .. Wrap - 1
         /\ Older(since, d) \in 0 .. Wrap
         /\ Measured(UAdd(t, d, Wrap), last, Older(since, d))
<1>1. Wrap \in Nat
  BY PeriodAssumption
<1> QED
  BY <1>1 DEF Measured, UAdd, USub, Older, Saturate

\* A stamp taken now.
LEMMA MeasuredNow ==
  ASSUME NEW t \in 0 .. Wrap - 1
  PROVE  Measured(t, t, 0)
BY PeriodAssumption DEF Measured, USub

\* The time that update() can tell from the clock.
LEMMA ElapsedByClock ==
  ASSUME NEW t \in 0 .. Wrap - 1, NEW d \in Nat, d < Wrap
  PROVE  USub(UAdd(t, d, Wrap), t, Wrap) = d
<1>1. Wrap \in Nat
  BY PeriodAssumption
<1> QED
  BY <1>1 DEF UAdd, USub

LEMMA ShortSteps ==
  /\ \A d \in 1 .. MaxGap : d \in Nat /\ d < Wrap
  /\ \A e \in 0 .. MaxLag : e \in Nat /\ e < Wrap
BY PeriodAssumption

LEMMA SnapshotsNotEmpty ==
  ASSUME NEW s \in Snapshot
  PROVE  s # NoSnapshot
<1>1. DOMAIN s = Compared \cup Volatile /\ DOMAIN NoSnapshot = {}
  BY DEF Snapshot, NoSnapshot
<1> QED
  BY <1>1, PeriodAssumption

-----------------------------------------------------------------------------
(***************************************************************************)
(* Types, and the measure of all three stamps.                             *)
(***************************************************************************)

\* The stamps and their ages.
ClockTypes ==
  /\ clock \in 0 .. Wrap - 1
  /\ lastScan \in 0 .. Wrap - 1
  /\ lastSearch \in 0 .. Wrap - 1
  /\ lastPublish \in 0 .. Wrap - 1
  /\ sinceScan \in 0 .. Wrap
  /\ sinceSearch \in 0 .. Wrap
  /\ sincePublish \in 0 .. Wrap

\* The publisher's memory.
MemoryTypes ==
  /\ step \in {"idle", "publish"}
  /\ lastSnapshot \in Snapshot \cup {NoSnapshot}
  /\ lastSnapshot = NoSnapshot => lastPublish = 0
  /\ Verbose \/ lastPublish = 0
  /\ snapshot \in Snapshot
  /\ asked \in BOOLEAN
  /\ searched \in BOOLEAN
  /\ lastSearch # 0 => searched

AllMeasured ==
  /\ Measured(clock, lastScan, sinceScan)
  /\ Measured(clock, lastSearch, sinceSearch)
  /\ Measured(clock, lastPublish, sincePublish)

WorkInv == ClockTypes /\ MemoryTypes /\ AllMeasured

LEMMA WorkInvInit == WorkInit => WorkInv
<1> SUFFICES ASSUME WorkInit PROVE WorkInv
  OBVIOUS
<1>1. ClockTypes
  BY PeriodAssumption DEF WorkInit, ClockTypes
<1>2. MemoryTypes
  BY DEF WorkInit, MemoryTypes
<1>3. AllMeasured
  BY DEF WorkInit, AllMeasured, Measured
<1> QED
  BY <1>1, <1>2, <1>3 DEF WorkInv

\* What Scan and Search make of their stamps.
LEMMA ScanMeasured ==
  ASSUME WorkInv, NEW d \in 1 .. MaxGap, NEW accepted \in BOOLEAN,
         Work(d, accepted)
  PROVE  /\ lastScan' \in 0 .. Wrap - 1
         /\ sinceScan' \in 0 .. Wrap
         /\ Measured(clock', lastScan', sinceScan')
<1>1. clock' = UAdd(clock, d, Wrap) /\ Scan(clock', d)
  BY DEF Work
<1>2. /\ clock' \in 0 .. Wrap - 1
      /\ Older(sinceScan, d) \in 0 .. Wrap
      /\ Measured(clock', lastScan, Older(sinceScan, d))
  BY <1>1, ShortSteps, MeasuredLater DEF WorkInv, ClockTypes, AllMeasured
<1>3. 0 \in 0 .. Wrap /\ Measured(clock', clock', 0)
  BY <1>2, MeasuredNow, PeriodAssumption
<1>4. CASE lastScan' = clock' /\ sinceScan' = 0
  BY <1>2, <1>3, <1>4
<1>5. CASE lastScan' = lastScan /\ sinceScan' = Older(sinceScan, d)
  BY <1>2, <1>5 DEF WorkInv, ClockTypes
<1> QED
  BY <1>1, <1>4, <1>5 DEF Scan

LEMMA SearchMeasured ==
  ASSUME WorkInv, NEW d \in 1 .. MaxGap, NEW accepted \in BOOLEAN,
         Work(d, accepted)
  PROVE  /\ lastSearch' \in 0 .. Wrap - 1
         /\ sinceSearch' \in 0 .. Wrap
         /\ Measured(clock', lastSearch', sinceSearch')
         /\ asked' \in BOOLEAN
         /\ searched' \in BOOLEAN
         /\ lastSearch' # 0 => searched'
<1>1. clock' = UAdd(clock, d, Wrap) /\ Search(clock', d, accepted)
  BY DEF Work
<1>2. /\ clock' \in 0 .. Wrap - 1
      /\ Older(sinceSearch, d) \in 0 .. Wrap
      /\ Measured(clock', lastSearch, Older(sinceSearch, d))
  BY <1>1, ShortSteps, MeasuredLater DEF WorkInv, ClockTypes, AllMeasured
<1>3. 0 \in 0 .. Wrap /\ Measured(clock', clock', 0)
  BY <1>2, MeasuredNow, PeriodAssumption
<1>4. asked' \in BOOLEAN
  BY <1>1, Zenon DEF Search, Due
<1>5. CASE lastSearch' = clock' /\ sinceSearch' = 0 /\ searched' = TRUE
  BY <1>2, <1>3, <1>4, <1>5
<1>6. CASE /\ lastSearch' = lastSearch
           /\ searched' = searched
           /\ sinceSearch' = Older(sinceSearch, d)
  <2>1. /\ searched' \in BOOLEAN
        /\ lastSearch' # 0 => searched'
    BY <1>6, Zenon DEF WorkInv, MemoryTypes
  <2> QED
    BY <1>2, <1>4, <1>6, <2>1 DEF WorkInv, ClockTypes
<1> QED
  BY <1>1, <1>5, <1>6, Zenon DEF Search

LEMMA WorkKeepsInv ==
  ASSUME WorkInv, NEW d \in 1 .. MaxGap, NEW accepted \in BOOLEAN,
         Work(d, accepted)
  PROVE  WorkInv'
<1>1. /\ clock' \in 0 .. Wrap - 1
      /\ sincePublish' \in 0 .. Wrap
      /\ Measured(clock', lastPublish', sincePublish')
  BY ShortSteps, MeasuredLater DEF Work, WorkInv, ClockTypes, AllMeasured
<1>2. ClockTypes'
  BY <1>1, ScanMeasured, SearchMeasured DEF Work, WorkInv, ClockTypes
<1>3. MemoryTypes'
  BY SearchMeasured DEF Work, WorkInv, MemoryTypes
<1>4. AllMeasured'
  BY <1>1, ScanMeasured, SearchMeasured DEF AllMeasured
<1> QED
  BY <1>2, <1>3, <1>4 DEF WorkInv

LEMMA PublishKeepsInv ==
  ASSUME WorkInv, NEW e \in 0 .. MaxLag, NEW s \in Snapshot, Publish(e, s)
  PROVE  WorkInv'
<1>1. /\ clock' = UAdd(clock, e, Wrap)
      /\ clock' \in 0 .. Wrap - 1
  BY ShortSteps, MeasuredLater DEF Publish, WorkInv, ClockTypes, AllMeasured
<1>2. /\ sinceScan' \in 0 .. Wrap
      /\ Measured(clock', lastScan', sinceScan')
  BY <1>1, ShortSteps, MeasuredLater
     DEF Publish, WorkInv, ClockTypes, AllMeasured
<1>3. /\ sinceSearch' \in 0 .. Wrap
      /\ Measured(clock', lastSearch', sinceSearch')
  BY <1>1, ShortSteps, MeasuredLater
     DEF Publish, WorkInv, ClockTypes, AllMeasured
<1>4. /\ lastPublish' \in 0 .. Wrap - 1
      /\ sincePublish' \in 0 .. Wrap
      /\ Measured(clock', lastPublish', sincePublish')
      /\ lastSnapshot' \in Snapshot \cup {NoSnapshot}
      /\ lastSnapshot' = NoSnapshot => lastPublish' = 0
  <2>1. CASE Emit(clock', s)
    <3>1. lastSnapshot' = s /\ lastPublish' = clock' /\ sincePublish' = 0
      BY <2>1 DEF Emit
    <3>2. s # NoSnapshot
      BY SnapshotsNotEmpty
    <3> QED
      BY <3>1, <3>2, <1>1, MeasuredNow, PeriodAssumption
  <2>2. CASE /\ UNCHANGED <<lastPublish, lastSnapshot>>
             /\ sincePublish' = Older(sincePublish, e)
    BY <2>2, <1>1, ShortSteps, MeasuredLater
       DEF WorkInv, ClockTypes, MemoryTypes, AllMeasured
  <2> QED
    BY <2>1, <2>2 DEF Publish
<1>5. Verbose \/ lastPublish' = 0
  BY Zenon DEF Publish, WorkInv, MemoryTypes
<1>6. ClockTypes'
  BY <1>1, <1>2, <1>3, <1>4 DEF Publish, WorkInv, ClockTypes
<1>7. MemoryTypes'
  BY <1>4, <1>5 DEF Publish, WorkInv, MemoryTypes
<1>8. AllMeasured'
  BY <1>2, <1>3, <1>4 DEF AllMeasured
<1> QED
  BY <1>6, <1>7, <1>8 DEF WorkInv

LEMMA StutterKeepsInv ==
  ASSUME WorkInv, UNCHANGED workVars
  PROVE  WorkInv'
BY DEF WorkInv, ClockTypes, MemoryTypes, AllMeasured, workVars, stamps, ages

THEOREM WorkInvariant == WorkSpec => []WorkInv
<1>1. WorkInv /\ [WorkNext]_workVars => WorkInv'
  <2> SUFFICES ASSUME WorkInv, [WorkNext]_workVars PROVE WorkInv'
    OBVIOUS
  <2> QED
    BY WorkKeepsInv, PublishKeepsInv, StutterKeepsInv DEF WorkNext
<1> QED
  BY WorkInvInit, <1>1, PTL DEF WorkSpec

-----------------------------------------------------------------------------
(***************************************************************************)
(* The theorems.                                                           *)
(***************************************************************************)

\* WorkTypeOK: the timers and the publisher are well typed, and a publication
\* is never remembered without its snapshot.
THEOREM WorkTypeCorrect == WorkSpec => []WorkTypeOK
<1>1. WorkInv => WorkTypeOK
  BY DEF WorkInv, ClockTypes, MemoryTypes, WorkTypeOK
<1> QED
  BY WorkInvariant, <1>1, PTL

\* SearchRetried: whatever the width of the clock, every update() asks for a
\* better parent until the stack first accepts, and after an acceptance for the
\* rest of a turn of the clock.
THEOREM SearchTheorem == WorkSpec => []SearchRetried
<1>1. WorkInit => SearchRetried
  BY DEF WorkInit, SearchRetried
<1>2. WorkInv /\ SearchRetried /\ [WorkNext]_workVars => SearchRetried'
  <2> SUFFICES ASSUME WorkInv, SearchRetried, [WorkNext]_workVars
               PROVE  SearchRetried'
    OBVIOUS
  <2>1. ASSUME NEW d \in 1 .. MaxGap, NEW accepted \in BOOLEAN,
               Work(d, accepted)
        PROVE  SearchRetried'
    <3> SUFFICES ASSUME SearchInterval # 0, ~asked'
                 PROVE  /\ searched'
                        /\ sinceSearch' < SearchInterval \/ sinceSearch' = Wrap
      BY Zenon DEF SearchRetried
    <3>1. /\ ~Due(lastSearch, clock', SearchInterval)
          /\ lastSearch' = lastSearch
      BY <2>1, Zenon DEF Work, Search
    <3>2. Measured(clock', lastSearch', sinceSearch')
      BY <2>1, SearchMeasured
    <3>3. /\ lastSearch # 0
          /\ ~(USub(clock', lastSearch, Wrap) >= SearchInterval)
      BY <3>1 DEF Due
    <3>4. sinceSearch' = Wrap \/ ~(sinceSearch' >= SearchInterval)
      BY <3>1, <3>2, <3>3 DEF Measured
    <3>5. sinceSearch' \in 0 .. Wrap /\ SearchInterval \in Nat
      BY <2>1, SearchMeasured, PeriodAssumption
    <3>6. sinceSearch' < SearchInterval \/ sinceSearch' = Wrap
      BY <3>4, <3>5, PeriodAssumption
    <3>7. searched'
      BY <2>1, <3>1, <3>3, SearchMeasured
    <3> QED
      BY <3>6, <3>7
  <2>2. ASSUME NEW e \in 0 .. MaxLag, NEW s \in Snapshot, Publish(e, s)
        PROVE  SearchRetried'
    BY <2>2 DEF Publish, SearchRetried
  <2>3. CASE UNCHANGED workVars
    BY <2>3 DEF SearchRetried, workVars, ages
  <2> QED
    BY <2>1, <2>2, <2>3 DEF WorkNext
<1> QED
  BY WorkInvariant, <1>1, <1>2, PTL DEF WorkSpec

-----------------------------------------------------------------------------
\* ScanKept is about the moment after the scan; until the next one the age
\* grows by the two steps of update().
ScanBounded ==
  ScanInterval # 0 =>
    IF step = "publish"
    THEN sinceScan = 0 \/ sinceScan < ScanInterval
    ELSE lastScan = 0 \/ sinceScan < ScanInterval + MaxLag

LEMMA WorkKeepsScanBound ==
  ASSUME WorkInv, ScanBounded, NEW d \in 1 .. MaxGap, NEW accepted \in BOOLEAN,
         Work(d, accepted)
  PROVE  ScanBounded'
<1> SUFFICES ASSUME ScanInterval # 0
             PROVE  sinceScan' = 0 \/ sinceScan' < ScanInterval
  BY DEF Work, ScanBounded
<1>1. CASE sinceScan' = 0
  BY <1>1
<1>2. CASE /\ ~Due(lastScan, clock', ScanInterval)
           /\ lastScan' = lastScan
           /\ sinceScan' = Older(sinceScan, d)
  <2>1. lastScan # 0 /\ ~(USub(clock', lastScan, Wrap) >= ScanInterval)
    BY <1>2 DEF Due
  <2>2. sinceScan < ScanInterval + MaxLag
    BY <2>1 DEF ScanBounded, Work
  <2>3. Older(sinceScan, d) # Wrap
    BY <2>2, PeriodAssumption DEF WorkInv, ClockTypes, Older, Saturate
  <2>4. USub(clock', lastScan, Wrap) = sinceScan'
    BY <1>2, <2>1, <2>3, ScanMeasured DEF Measured
  <2> QED
    BY <2>1, <2>4, ScanMeasured, PeriodAssumption
<1> QED
  BY <1>1, <1>2, Zenon DEF Work, Scan

\* ScanKept: no update() leaves a scan outstanding for an interval, in real
\* time, whatever the width of the clock.
THEOREM ScanTheorem == WorkSpec => []ScanKept
<1>1. WorkInit => ScanBounded
  BY DEF WorkInit, ScanBounded
<1>2. WorkInv /\ ScanBounded /\ [WorkNext]_workVars => ScanBounded'
  <2> SUFFICES ASSUME WorkInv, ScanBounded, [WorkNext]_workVars
               PROVE  ScanBounded'
    OBVIOUS
  <2>1. ASSUME NEW e \in 0 .. MaxLag, NEW s \in Snapshot, Publish(e, s)
        PROVE  ScanBounded'
    <3>1. sinceScan' = Older(sinceScan, e) /\ step = "publish"
          /\ step' = "idle"
      BY <2>1 DEF Publish
    <3> QED
      BY <3>1, PeriodAssumption
         DEF ScanBounded, WorkInv, ClockTypes, Older, Saturate
  <2>2. CASE UNCHANGED workVars
    BY <2>2 DEF ScanBounded, workVars, ages, stamps
  <2> QED
    BY WorkKeepsScanBound, <2>1, <2>2 DEF WorkNext
<1>3. ScanBounded => ScanKept
  BY DEF ScanBounded, ScanKept
<1> QED
  BY WorkInvariant, <1>1, <1>2, <1>3, PTL DEF WorkSpec

-----------------------------------------------------------------------------
\* What PublicationCurrent says, and how old a publication is before the next.
PublicationBounded ==
  Verbose /\ lastSnapshot # NoSnapshot =>
    IF step = "idle"
    THEN sincePublish = 0 \/ sincePublish < PublishInterval
    ELSE sincePublish > 0 /\ sincePublish <= PublishInterval + MaxGap

LEMMA WorkKeepsPublicationBound ==
  ASSUME WorkInv, PublicationBounded,
         NEW d \in 1 .. MaxGap, NEW accepted \in BOOLEAN, Work(d, accepted)
  PROVE  PublicationBounded'
<1>1. /\ sincePublish' = Older(sincePublish, d)
      /\ step = "idle" /\ step' = "publish"
      /\ lastSnapshot' = lastSnapshot
  BY DEF Work
<1>2. CASE Verbose /\ lastSnapshot # NoSnapshot
  <2>1. sincePublish = 0 \/ sincePublish < PublishInterval
    BY <1>1, <1>2 DEF PublicationBounded
  <2>2. sincePublish' > 0 /\ sincePublish' <= PublishInterval + MaxGap
    BY <1>1, <2>1, PeriodAssumption DEF WorkInv, ClockTypes, Older, Saturate
  <2> QED
    BY <1>1, <2>2 DEF PublicationBounded
<1> QED
  BY <1>1, <1>2 DEF PublicationBounded

LEMMA PublishKeepsPublicationBound ==
  ASSUME WorkInv, PublicationBounded,
         NEW e \in 0 .. MaxLag, NEW s \in Snapshot, Publish(e, s)
  PROVE  PublicationBounded' /\ PublicationCurrent'
<1>1. CASE Emit(clock', s)
  BY <1>1 DEF Publish, Emit, PublicationBounded, PublicationCurrent
<1>2. CASE /\ Verbose
           /\ ~Changed(s)
           /\ ~Due(lastPublish, clock', PublishInterval)
           /\ UNCHANGED <<lastPublish, lastSnapshot>>
           /\ sincePublish' = Older(sincePublish, e)
  <2>1. /\ lastSnapshot # NoSnapshot
        /\ \A f \in Compared : lastSnapshot[f] = s[f]
    BY <1>2, Zenon DEF Changed
  <2>2. /\ lastPublish # 0
        /\ ~(USub(clock', lastPublish, Wrap) >= PublishInterval)
    BY <1>2 DEF Due
  <2>3. sincePublish <= PublishInterval + MaxGap
    BY <1>2, <2>1 DEF PublicationBounded, Publish
  <2>4. Older(sincePublish, e) # Wrap
    BY <2>3, PeriodAssumption DEF WorkInv, ClockTypes, Older, Saturate
  <2>5. /\ Measured(clock', lastPublish', sincePublish')
        /\ sincePublish' \in 0 .. Wrap
    BY PublishKeepsInv DEF WorkInv, AllMeasured, ClockTypes
  <2>6. USub(clock', lastPublish, Wrap) = sincePublish'
    BY <1>2, <2>2, <2>4, <2>5 DEF Measured
  <2>7. sincePublish' < PublishInterval
    BY <2>2, <2>5, <2>6, PeriodAssumption
  <2>8. \A f \in Compared : lastSnapshot'[f] = snapshot'[f]
    BY <1>2, <2>1 DEF Publish
  <2> QED
    BY <2>7, <2>8 DEF PublicationBounded, PublicationCurrent, Publish
<1>3. CASE ~Verbose
  BY <1>3 DEF PublicationBounded, PublicationCurrent
<1> QED
  BY <1>1, <1>2, <1>3, Zenon DEF Publish

LEMMA PublicationInvariant == WorkSpec => []PublicationBounded
<1>1. WorkInit => PublicationBounded
  BY DEF WorkInit, PublicationBounded
<1>2. WorkInv /\ PublicationBounded /\ [WorkNext]_workVars
        => PublicationBounded'
  <2>1. ASSUME PublicationBounded, UNCHANGED workVars
        PROVE  PublicationBounded'
    BY <2>1 DEF PublicationBounded, workVars, ages, stamps
  <2> QED
    BY <2>1, WorkKeepsPublicationBound, PublishKeepsPublicationBound
       DEF WorkNext
<1> QED
  BY WorkInvariant, <1>1, <1>2, PTL DEF WorkSpec

\* PublicationCurrent: when update() ends, the last publication is the case in
\* every field compared and younger than the heartbeat.
THEOREM PublicationTheorem == WorkSpec => []PublicationCurrent
<1>1. WorkInit => PublicationCurrent
  BY DEF WorkInit, PublicationCurrent
<1>2. WorkInv /\ PublicationBounded /\ PublicationCurrent
        /\ [WorkNext]_workVars => PublicationCurrent'
  <2>1. ASSUME NEW d \in 1 .. MaxGap, NEW accepted \in BOOLEAN,
               Work(d, accepted)
        PROVE  PublicationCurrent'
    BY <2>1 DEF Work, PublicationCurrent
  <2>2. ASSUME PublicationCurrent, UNCHANGED workVars
        PROVE  PublicationCurrent'
    BY <2>2 DEF PublicationCurrent, workVars, ages
  <2> QED
    BY <2>1, <2>2, PublishKeepsPublicationBound DEF WorkNext
<1> QED
  BY WorkInvariant, PublicationInvariant, <1>1, <1>2, PTL DEF WorkSpec

\* SteadyCadence: with nothing to report but ages, publications keep the
\* interval in real time.
THEOREM CadenceTheorem == WorkSpec => SteadyCadence
<1> DEFINE Steady ==
      sincePublish' = 0 /\ step = "publish" /\ lastPublish # 0
        => \/ \E f \in Compared : snapshot'[f] # lastSnapshot[f]
           \/ sincePublish + USub(clock', clock, Wrap) >= PublishInterval
<1>1. WorkInv /\ PublicationBounded /\ [WorkNext]_workVars
        => [Steady]_workVars
  <2> SUFFICES ASSUME WorkInv, PublicationBounded, [WorkNext]_workVars,
                      ~(UNCHANGED workVars), sincePublish' = 0,
                      step = "publish", lastPublish # 0,
                      ~ \E f \in Compared : snapshot'[f] # lastSnapshot[f]
               PROVE  sincePublish + USub(clock', clock, Wrap)
                        >= PublishInterval
    BY Zenon
  <2>1. PICK e \in 0 .. MaxLag, s \in Snapshot : Publish(e, s)
    BY DEF WorkNext, Work
  <2>2. lastSnapshot # NoSnapshot
    BY DEF WorkInv, MemoryTypes
  <2>3. ~Changed(s)
    BY <2>1, <2>2 DEF Publish, Changed
  <2>4. USub(clock', clock, Wrap) = e /\ clock' = UAdd(clock, e, Wrap)
    BY <2>1, ShortSteps, ElapsedByClock DEF Publish, WorkInv, ClockTypes
  <2>5. Verbose
    BY DEF WorkInv, MemoryTypes
  <2>6. sincePublish > 0 /\ sincePublish <= PublishInterval + MaxGap
    BY <2>2, <2>5 DEF PublicationBounded
  <2>7. Older(sincePublish, e) = sincePublish + e /\ sincePublish + e < Wrap
    BY <2>6, PeriodAssumption DEF WorkInv, ClockTypes, Older, Saturate
  <2>8. sincePublish + e # 0
    BY <2>6, PeriodAssumption DEF WorkInv, ClockTypes
  <2>9. Due(lastPublish, clock', PublishInterval)
    BY <2>1, <2>3, <2>7, <2>8 DEF Publish
  <2>10. Measured(clock', lastPublish, sincePublish + e)
    BY <2>4, <2>7, ShortSteps, MeasuredLater DEF WorkInv, ClockTypes, AllMeasured
  <2>11. USub(clock', lastPublish, Wrap) = sincePublish + e
    BY <2>7, <2>10, PeriodAssumption DEF Measured, WorkInv, ClockTypes
  <2> QED
    BY <2>4, <2>9, <2>11 DEF Due
<1> QED
  BY WorkInvariant, PublicationInvariant, <1>1, PTL
     DEF WorkSpec, SteadyCadence
=============================================================================
