---------------------------- MODULE PeriodicWork ----------------------------
(***************************************************************************)
(* The periodic work of update(): the scan of the neighbour table and the  *)
(* search for a better parent (src/components/biparental_ed/               *)
(* biparental_ed.cpp) and the publication of diagnostics                   *)
(* (diagnostics_publisher.{h,cpp}).                                        *)
(*                                                                         *)
(* Each keeps the uint32_t millisecond at which it was last done, with 0   *)
(* for "never".  The scan and the search are stamped with update()'s       *)
(* now_ms, a publication with a later millis() of its own.                 *)
(***************************************************************************)
EXTENDS UnsignedArithmetic

CONSTANTS
  Wrap,             \* number of values of a millisecond timestamp
  MaxGap,           \* most milliseconds from one update() to the next
  MaxLag,           \* most milliseconds from now_ms to the publication
  ScanInterval,     \* neighbor_scan_interval_ms_, 0 = off
  SearchInterval,   \* parent_search_refresh_interval_ms_, 0 = off
  PublishInterval,  \* periodic_publish_ms_
  Verbose,          \* verbose_
  Compared,         \* the fields of a snapshot that changed_() compares
  Volatile,         \* those it does not: the parent's age, the freshness
  Value             \* their values

\* A stamp is looked at again before the clock has run round.
ASSUME PeriodAssumption ==
  /\ Wrap \in Nat \ {0}
  /\ MaxGap \in Nat \ {0}
  /\ MaxLag \in Nat
  /\ ScanInterval \in Nat /\ ScanInterval + MaxGap + MaxLag < Wrap
  /\ SearchInterval \in Nat /\ SearchInterval + MaxGap + MaxLag < Wrap
  /\ PublishInterval \in Nat /\ PublishInterval + MaxGap + MaxLag < Wrap
  /\ Verbose \in BOOLEAN
  /\ Compared # {}

VARIABLES
  clock,         \* millis()
  step,          \* "idle", or "publish" once update() has scanned and searched
  lastScan,      \* last_neighbor_scan_ms_
  lastSearch,    \* last_parent_search_ms_
  lastPublish,   \* last_publish_ms_
  lastSnapshot,  \* last_snapshot_; NoSnapshot while has_last_snapshot_ is false
  snapshot,      \* history: the snapshot last handed to publish()
  asked,         \* history: whether this update() asked the stack to search
  searched,      \* history: whether the stack ever accepted a search
  sinceScan,     \* history: real milliseconds since the last scan,
  sinceSearch,   \*          since the last search the stack accepted,
  sincePublish   \*          since the last publication; all up to Wrap

stamps == <<lastScan, lastSearch, lastPublish>>
ages == <<sinceScan, sinceSearch, sincePublish>>
workVars == <<clock, step, stamps, lastSnapshot, snapshot, asked, searched,
              ages>>

NoSnapshot == [f \in {} |-> 0]
Snapshot == [Compared \cup Volatile -> Value]

-----------------------------------------------------------------------------
\* Slips: late by one, and comparing timestamps.
DueLate(last, t, interval) == last = 0 \/ USub(t, last, Wrap) > interval
DueAbsolute(last, t, interval) == last = 0 \/ t >= last + interval

Due(last, t, interval) == last = 0 \/ USub(t, last, Wrap) >= interval

Older(age, d) == Saturate(age + d, Wrap)

\* maybe_scan_neighbors_(); what it observes is in CandidateManager.
Scan(t, d) ==
  IF ScanInterval # 0 /\ Due(lastScan, t, ScanInterval)
  THEN lastScan' = t /\ sinceScan' = 0
  ELSE UNCHANGED lastScan /\ sinceScan' = Older(sinceScan, d)

\* Slip: a refused search is stamped like an accepted one.
SearchStampedAnyway(t, d, accepted) ==
  LET due == SearchInterval # 0 /\ Due(lastSearch, t, SearchInterval) IN
  /\ asked' = due
  /\ IF due THEN lastSearch' = t ELSE UNCHANGED lastSearch
  /\ searched' = (searched \/ (due /\ accepted))
  /\ sinceSearch' = IF due /\ accepted THEN 0 ELSE Older(sinceSearch, d)

\* maybe_trigger_parent_search_refresh_(): only an accepted request counts.
Search(t, d, accepted) ==
  LET due == SearchInterval # 0 /\ Due(lastSearch, t, SearchInterval) IN
  /\ asked' = due
  /\ IF due /\ accepted
     THEN lastSearch' = t /\ sinceSearch' = 0 /\ searched' = TRUE
     ELSE /\ UNCHANGED <<lastSearch, searched>>
          /\ sinceSearch' = Older(sinceSearch, d)

\* Slips: one field is forgotten; the volatile ones are compared too.
ChangedButOne(s) ==
  \/ lastSnapshot = NoSnapshot
  \/ \E f \in Compared \ {CHOOSE g \in Compared : TRUE} :
        lastSnapshot[f] # s[f]
ChangedByAge(s) == lastSnapshot = NoSnapshot \/ lastSnapshot # s

\* changed_()
Changed(s) ==
  \/ lastSnapshot = NoSnapshot
  \/ \E f \in Compared : lastSnapshot[f] # s[f]

\* update() from now_ms to the search, d milliseconds after the last one ended.
Work(d, accepted) ==
  /\ step = "idle"
  /\ step' = "publish"
  /\ clock' = UAdd(clock, d, Wrap)
  /\ Scan(clock', d)
  /\ Search(clock', d, accepted)
  /\ sincePublish' = Older(sincePublish, d)
  /\ UNCHANGED <<lastPublish, lastSnapshot, snapshot>>

\* Slip: the line is logged and the snapshot forgotten.
EmitForgetful(t, s) ==
  lastPublish' = t /\ sincePublish' = 0 /\ UNCHANGED lastSnapshot

Emit(t, s) == lastPublish' = t /\ sincePublish' = 0 /\ lastSnapshot' = s

\* publish(), e milliseconds after now_ms was taken.
Publish(e, s) ==
  /\ step = "publish"
  /\ step' = "idle"
  /\ clock' = UAdd(clock, e, Wrap)
  /\ snapshot' = s
  /\ IF Verbose /\ (Changed(s) \/ Due(lastPublish, clock', PublishInterval))
     THEN Emit(clock', s)
     ELSE UNCHANGED <<lastPublish, lastSnapshot>>
          /\ sincePublish' = Older(sincePublish, e)
  /\ sinceScan' = Older(sinceScan, e)
  /\ sinceSearch' = Older(sinceSearch, e)
  /\ UNCHANGED <<lastScan, lastSearch, asked, searched>>

WorkInit ==
  /\ clock = 0
  /\ step = "idle"
  /\ lastScan = 0 /\ lastSearch = 0 /\ lastPublish = 0
  /\ lastSnapshot = NoSnapshot
  /\ snapshot \in Snapshot
  /\ asked = FALSE /\ searched = FALSE
  /\ sinceScan = Wrap /\ sinceSearch = Wrap /\ sincePublish = Wrap

WorkNext ==
  \/ \E d \in 1 .. MaxGap, accepted \in BOOLEAN : Work(d, accepted)
  \/ \E e \in 0 .. MaxLag, s \in Snapshot : Publish(e, s)

WorkSpec == WorkInit /\ [][WorkNext]_workVars
-----------------------------------------------------------------------------
\* State of the timers and of the publisher: stamps of the clock's width, and
\* a snapshot to compare with as soon as one was published.
WorkTypeOK ==
  /\ clock \in 0 .. Wrap - 1
  /\ step \in {"idle", "publish"}
  /\ {lastScan, lastSearch, lastPublish} \subseteq 0 .. Wrap - 1
  /\ lastSnapshot \in Snapshot \cup {NoSnapshot}
  /\ lastSnapshot = NoSnapshot => lastPublish = 0
  /\ snapshot \in Snapshot
  /\ asked \in BOOLEAN /\ searched \in BOOLEAN
  /\ {sinceScan, sinceSearch, sincePublish} \subseteq 0 .. Wrap

\* Nothing that changed stays unpublished and the heartbeat is kept: when
\* update() ends, what was last published is the case in every compared field
\* and was published, in real time, within the interval.
PublicationCurrent ==
  Verbose /\ step = "idle" /\ lastSnapshot # NoSnapshot =>
    /\ \A f \in Compared : lastSnapshot[f] = snapshot[f]
    /\ sincePublish = 0 \/ sincePublish < PublishInterval

\* With nothing to report, ages apart, publications keep the interval in real
\* time (but for the one after a stamp of 0, which reads as "never").
SteadyCadence ==
  [][ sincePublish' = 0 /\ step = "publish" /\ lastPublish # 0
        => \/ \E f \in Compared : snapshot'[f] # lastSnapshot[f]
           \/ sincePublish + USub(clock', clock, Wrap) >= PublishInterval
    ]_workVars

\* The scan of the neighbour table never starves: in real time, and across the
\* wrap of the clock, no update() leaves one outstanding for an interval.
ScanKept ==
  ScanInterval # 0 /\ step = "publish" =>
    sinceScan = 0 \/ sinceScan < ScanInterval

\* A search that the stack refuses is asked for again at every update() until
\* it accepts one: for ever when it never accepted one since boot, and for one
\* turn of the clock after it did (a stamp that refusals leave alone for longer
\* looks recent again).
SearchRetried ==
  SearchInterval # 0 /\ step = "publish" =>
    \/ asked
    \/ searched /\ sinceSearch < SearchInterval
    \/ searched /\ sinceSearch = Wrap
=============================================================================
