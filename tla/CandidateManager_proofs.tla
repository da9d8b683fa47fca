----------------------- MODULE CandidateManager_proofs -----------------------
(***************************************************************************)
(* Proofs about CandidateManager, for every number of routers, cache size, *)
(* clock width, refresh interval and hysteresis.                           *)
(***************************************************************************)
EXTENDS CandidateManager, TLAPS

-----------------------------------------------------------------------------
(***************************************************************************)
(* The methods, as functions of the manager.  A well-shaped manager is a   *)
(* record with the fields the methods use; what the cache holds is of no   *)
(* concern here.                                                           *)
(***************************************************************************)
Shaped(m) ==
  /\ m = [active |-> m.active, standby |-> m.standby, recent |-> m.recent]
  /\ m.standby = [valid |-> m.standby.valid, rloc |-> m.standby.rloc,
                  ext |-> m.standby.ext, score |-> m.standby.score,
                  lastRefresh |-> m.standby.lastRefresh]
  /\ m.standby.valid \in BOOLEAN
  /\ m.standby.lastRefresh \in Time

Unaliased(m) == m.standby.valid = TRUE => m.standby.rloc # m.active

\* The fields of a manager built field by field.
LEMMA Fields ==
  ASSUME NEW act, NEW sb, NEW rec
  PROVE  LET m == [active |-> act, standby |-> sb, recent |-> rec] IN
         m.active = act /\ m.standby = sb /\ m.recent = rec
OBVIOUS

LEMMA StandbyFields ==
  ASSUME NEW v, NEW k, NEW x, NEW s, NEW l
  PROVE  LET sb == [valid |-> v, rloc |-> k, ext |-> x, score |-> s,
                    lastRefresh |-> l] IN
         /\ sb.valid = v /\ sb.rloc = k /\ sb.ext = x /\ sb.score = s
         /\ sb.lastRefresh = l
OBVIOUS

LEMMA ShapedRecord ==
  ASSUME NEW act, NEW rec, NEW v \in BOOLEAN, NEW k, NEW x, NEW s,
         NEW l \in Time
  PROVE  Shaped([active |-> act,
                 standby |-> [valid |-> v, rloc |-> k, ext |-> x,
                              score |-> s, lastRefresh |-> l],
                 recent |-> rec])
<1> DEFINE sb == [valid |-> v, rloc |-> k, ext |-> x, score |-> s,
                  lastRefresh |-> l]
<1>1. /\ sb.valid = v /\ sb.rloc = k /\ sb.ext = x /\ sb.score = s
      /\ sb.lastRefresh = l
  BY StandbyFields
<1>2. sb = [valid |-> sb.valid, rloc |-> sb.rloc, ext |-> sb.ext,
            score |-> sb.score, lastRefresh |-> sb.lastRefresh]
  BY <1>1
<1> HIDE DEF sb
<1> DEFINE m == [active |-> act, standby |-> sb, recent |-> rec]
<1>3. m.active = act /\ m.standby = sb /\ m.recent = rec
  BY Fields
<1>4. Shaped(m)
  BY <1>1, <1>2, <1>3 DEF Shaped
<1> QED
  BY <1>4 DEF sb

\* Replacing the standby of a well-shaped manager.
LEMMA ReplaceStandby ==
  ASSUME NEW m, NEW sb, Shaped(m)
  PROVE  [m EXCEPT !.standby = sb]
           = [active |-> m.active, standby |-> sb, recent |-> m.recent]
BY DEF Shaped

\* Learning an address touches neither the active parent nor the standby.
LEMMA RememberKeeps ==
  ASSUME NEW m, NEW rloc, NEW ext, Shaped(m)
  PROVE  /\ Shaped(Remember(m, rloc, ext))
         /\ Remember(m, rloc, ext).active = m.active
         /\ Remember(m, rloc, ext).standby = m.standby
<1>1. CASE rloc = NoRloc \/ ext = NoExt
  BY <1>1 DEF Remember
<1>2. CASE ~(rloc = NoRloc \/ ext = NoExt)
  <2> DEFINE r == Touch(m.recent, rloc, ext)
  <2>1. Remember(m, rloc, ext) = [m EXCEPT !.recent = r]
    BY <1>2 DEF Remember
  <2> HIDE DEF r
  <2>2. [m EXCEPT !.recent = r]
          = [active |-> m.active, standby |-> m.standby, recent |-> r]
    BY DEF Shaped
  <2> QED
    BY <2>1, <2>2 DEF Shaped
<1> QED
  BY <1>1, <1>2

\* A refreshed standby is the same router, at the present time.
Refreshed(r, m, t) ==
  /\ Shaped(r)
  /\ r.active = m.active
  /\ r.standby.valid = m.standby.valid
  /\ r.standby.rloc = m.standby.rloc
  /\ r.standby.lastRefresh = t

LEMMA RefreshDoes ==
  ASSUME NEW m, NEW t \in Time, NEW score, NEW ext, Shaped(m)
  PROVE  Refreshed(Refresh(m, t, score, ext), m, t)
<1> DEFINE e == ExtFor(m, m.standby.rloc, ext, m.standby.ext)
           sb == [valid |-> m.standby.valid, rloc |-> m.standby.rloc,
                  ext |-> e, score |-> score, lastRefresh |-> t]
<1>2. Refresh(m, t, score, ext) = [m EXCEPT !.standby = sb]
  BY DEF Refresh
<1> HIDE DEF e
<1>3. /\ sb.valid = m.standby.valid
      /\ sb.rloc = m.standby.rloc
      /\ sb.lastRefresh = t
  BY StandbyFields
<1>4. m.standby.valid \in BOOLEAN
  BY DEF Shaped
<1>5. Shaped([active |-> m.active, standby |-> sb, recent |-> m.recent])
  BY <1>4, ShapedRecord
<1> HIDE DEF sb
<1>6. Refresh(m, t, score, ext)
        = [active |-> m.active, standby |-> sb, recent |-> m.recent]
  BY <1>2, ReplaceStandby
<1> QED
  BY <1>3, <1>5, <1>6, Fields DEF Refreshed

\* An adopted standby is the given router, at the present time.
Adopted(r, m, t, rloc) ==
  /\ Shaped(r)
  /\ r.active = m.active
  /\ r.standby.valid = TRUE
  /\ r.standby.rloc = rloc
  /\ r.standby.lastRefresh = t

LEMMA AdoptDoes ==
  ASSUME NEW m, NEW t \in Time, NEW rloc, NEW score, NEW ext, Shaped(m)
  PROVE  Adopted(Adopt(m, t, rloc, score, ext), m, t, rloc)
<1> DEFINE e == ExtFor(m, rloc, ext, NoExt)
           sb == [valid |-> TRUE, rloc |-> rloc, ext |-> e,
                  score |-> score, lastRefresh |-> t]
<1>1. Adopt(m, t, rloc, score, ext) = [m EXCEPT !.standby = sb]
  BY DEF Adopt
<1> HIDE DEF e
<1>2. sb.valid = TRUE /\ sb.rloc = rloc /\ sb.lastRefresh = t
  BY StandbyFields
<1>3. Shaped([active |-> m.active, standby |-> sb, recent |-> m.recent])
  BY ShapedRecord
<1> HIDE DEF sb
<1>4. Adopt(m, t, rloc, score, ext)
        = [active |-> m.active, standby |-> sb, recent |-> m.recent]
  BY <1>1, ReplaceStandby
<1> QED
  BY <1>2, <1>3, <1>4, Fields DEF Adopted

\* Observing a router either leaves the standby alone, or makes a router that
\* is not the active parent the standby of the present time.
Observed(r, m, t) ==
  /\ Shaped(r)
  /\ r.active = m.active
  /\ \/ r.standby = m.standby
     \/ /\ r.standby.valid = TRUE
        /\ r.standby.rloc # m.active
        /\ r.standby.lastRefresh = t

LEMMA ObserveDoes ==
  ASSUME NEW m, NEW t \in Time, NEW rloc, NEW signal, NEW ext,
         Shaped(m), Unaliased(m)
  PROVE  Observed(Observe(m, t, rloc, signal, ext), m, t)
<1> DEFINE r == Remember(m, rloc, ext)
           score == Score(signal[1], signal[2])
<1>1. Shaped(r) /\ r.active = m.active /\ r.standby = m.standby
  BY RememberKeeps
<1>2. Observe(m, t, rloc, signal, ext)
        = IF rloc = r.active THEN r
          ELSE IF r.standby.valid /\ rloc = r.standby.rloc
               THEN Refresh(r, t, score, ext)
               ELSE IF ShouldReplace(r, t, score)
                    THEN Adopt(r, t, rloc, score, ext) ELSE r
  BY DEF Observe
<1> HIDE DEF r, score
<1>3. CASE rloc = r.active
  BY <1>1, <1>2, <1>3 DEF Observed
<1>4. CASE rloc # r.active /\ r.standby.valid /\ rloc = r.standby.rloc
  <2> DEFINE q == Refresh(r, t, score, ext)
  <2>1. Refreshed(q, r, t)
    BY <1>1, RefreshDoes, Zenon
  <2>2. Observe(m, t, rloc, signal, ext) = q
    BY <1>2, <1>4
  <2> HIDE DEF q
  <2> QED
    BY <1>1, <1>4, <2>1, <2>2 DEF Observed, Refreshed, Shaped
<1>5. CASE rloc # r.active /\ ~(r.standby.valid /\ rloc = r.standby.rloc)
  <2> DEFINE q == Adopt(r, t, rloc, score, ext)
  <2>1. Adopted(q, r, t, rloc)
    BY <1>1, AdoptDoes, Zenon
  <2>2. Observe(m, t, rloc, signal, ext) \in {q, r}
    BY <1>2, <1>5
  <2> HIDE DEF q
  <2> QED
    BY <1>1, <1>5, <2>1, <2>2 DEF Adopted, Observed
<1> QED
  BY <1>3, <1>4, <1>5

\* After the parent changed the standby is not the new one, and is as it was,
\* or no longer valid, or of the present time and the previous parent.
Marked(r, m, t, new) ==
  /\ Shaped(r)
  /\ r.active = new
  /\ Unaliased(r)
  /\ \/ r.standby = m.standby
     \/ r.standby.valid = FALSE
     \/ /\ r.standby.lastRefresh = t
        /\ r.standby.rloc = m.active

LEMMA MarkDoes ==
  ASSUME NEW m, NEW t \in Time, NEW new, Shaped(m)
  PROVE  Marked(MarkFailoverComplete(m, t, new), m, t, new)
<1> DEFINE a == [m EXCEPT !.active = new]
           p == Promote(a, t, new)
<1>1. Shaped(a) /\ a.active = new /\ a.standby = m.standby
  BY DEF Shaped
<1>2. /\ Shaped(p) /\ p.active = new /\ Unaliased(p)
      /\ p.standby = m.standby \/ p.standby.valid = FALSE
  <2>1. CASE a.standby.valid /\ a.standby.rloc = new
    <3> DEFINE q == Remember(a, new, a.standby.ext)
    <3>1. Shaped(q) /\ q.active = new /\ q.standby = m.standby
      <4> HIDE DEF a
      <4> QED BY <1>1, RememberKeeps
    <3>2. p = [q EXCEPT !.standby.valid = FALSE, !.standby.lastRefresh = t]
      BY <2>1 DEF Promote
    <3> HIDE DEF q, p
    <3>3. p = [active |-> q.active,
               standby |-> [valid |-> FALSE, rloc |-> q.standby.rloc,
                            ext |-> q.standby.ext,
                            score |-> q.standby.score, lastRefresh |-> t],
               recent |-> q.recent]
      BY <3>1, <3>2 DEF Shaped
    <3> QED
      BY <3>1, <3>3 DEF Shaped, Unaliased
  <2>2. CASE ~(a.standby.valid /\ a.standby.rloc = new)
    BY <1>1, <2>2 DEF Promote, Unaliased
  <2> QED
    BY <2>1, <2>2
<1>3. MarkFailoverComplete(m, t, new)
        = IF m.active # NoRloc /\ m.active # new
          THEN Adopt(p, t, m.active, ContinuityScore, NoExt) ELSE p
  BY DEF MarkFailoverComplete
<1> HIDE DEF a, p
<1>4. CASE m.active # NoRloc /\ m.active # new
  <2> DEFINE q == Adopt(p, t, m.active, ContinuityScore, NoExt)
  <2>1. Adopted(q, p, t, m.active)
    BY <1>2, AdoptDoes, Zenon
  <2>2. MarkFailoverComplete(m, t, new) = q
    BY <1>3, <1>4
  <2> HIDE DEF q
  <2> QED
    BY <1>2, <1>4, <2>1, <2>2 DEF Adopted, Marked, Unaliased
<1>5. CASE ~(m.active # NoRloc /\ m.active # new)
  BY <1>2, <1>3, <1>5 DEF Marked
<1> QED
  BY <1>4, <1>5

\* A tick invalidates a stale standby and changes nothing else.
Ticked(r, m, t) ==
  /\ Shaped(r)
  /\ r.active = m.active
  /\ r.standby.rloc = m.standby.rloc
  /\ \/ r.standby = m.standby /\ ~IsStale(m, t)
     \/ r.standby.valid = FALSE

LEMMA TickDoes ==
  ASSUME NEW m, NEW t \in Time, Shaped(m)
  PROVE  Ticked(Tick(m, t), m, t)
<1>1. CASE IsStale(m, t)
  <2> DEFINE sb == [valid |-> FALSE, rloc |-> m.standby.rloc,
                    ext |-> m.standby.ext, score |-> m.standby.score,
                    lastRefresh |-> m.standby.lastRefresh]
  <2>1. Tick(m, t)
          = [active |-> m.active, standby |-> sb, recent |-> m.recent]
    BY <1>1 DEF Tick, Shaped
  <2>2. sb.valid = FALSE /\ sb.rloc = m.standby.rloc
    BY StandbyFields
  <2>3. m.standby.lastRefresh \in Time
    BY DEF Shaped
  <2>4. Shaped([active |-> m.active, standby |-> sb, recent |-> m.recent])
    BY <2>3, ShapedRecord
  <2> HIDE DEF sb
  <2> QED
    BY <2>1, <2>2, <2>4, Fields DEF Ticked
<1>2. CASE ~IsStale(m, t)
  BY <1>2 DEF Tick, Ticked
<1> QED
  BY <1>1, <1>2

-----------------------------------------------------------------------------
(***************************************************************************)
(* The steps of the system.                                                *)
(***************************************************************************)
\* Tracking the parent and ticking: the standby is afterwards not the active
\* parent and, if it is valid, not stale and either the one there was or of
\* the present time.
Polled(r, m, t) ==
  /\ Shaped(r)
  /\ Unaliased(r)
  /\ r.standby.valid = TRUE =>
       /\ USub(t, r.standby.lastRefresh, Wrap) < RefreshInterval
       /\ r.standby = m.standby \/ r.standby.lastRefresh = t

LEMMA PollDoes ==
  ASSUME NEW m, NEW t \in Time, NEW parent, NEW ext, Shaped(m), Unaliased(m)
  PROVE  Polled(Tick(TrackParent(m, t, parent, ext), t), m, t)
<1> DEFINE l == Remember(m, parent, ext)
           p == TrackParent(m, t, parent, ext)
           r == Tick(p, t)
<1>1. Shaped(l) /\ l.active = m.active /\ l.standby = m.standby
  BY RememberKeeps
<1>2. /\ Shaped(p) /\ Unaliased(p)
      /\ \/ p.standby = m.standby
         \/ p.standby.valid = FALSE
         \/ p.standby.lastRefresh = t
  <2>1. p = IF parent # NoRloc /\ parent # l.active
            THEN MarkFailoverComplete(l, t, parent) ELSE l
    BY DEF TrackParent
  <2> HIDE DEF l, p
  <2>2. CASE parent # NoRloc /\ parent # l.active
    <3> DEFINE q == MarkFailoverComplete(l, t, parent)
    <3>1. Marked(q, l, t, parent)
      BY <1>1, MarkDoes, Zenon
    <3>2. p = q
      BY <2>1, <2>2
    <3> HIDE DEF q
    <3> QED
      BY <1>1, <3>1, <3>2 DEF Marked
  <2>3. CASE ~(parent # NoRloc /\ parent # l.active)
    BY <1>1, <2>1, <2>3 DEF Unaliased
  <2> QED
    BY <2>2, <2>3
<1> HIDE DEF l, p
<1>t. Ticked(r, p, t)
  BY <1>2, TickDoes, Zenon
<1> SUFFICES Polled(r, m, t)
  BY DEF p
<1> HIDE DEF r
<1>3. /\ Shaped(r) /\ r.active = p.active /\ r.standby.rloc = p.standby.rloc
      /\ \/ r.standby = p.standby /\ ~IsStale(p, t)
         \/ r.standby.valid = FALSE
  BY <1>t DEF Ticked
<1>4. CASE r.standby.valid = FALSE
  BY <1>3, <1>4 DEF Polled, Unaliased
<1>5. CASE r.standby.valid = TRUE
  <2>1. r.standby = p.standby /\ ~IsStale(p, t)
    BY <1>3, <1>5
  <2>2. ~(USub(t, p.standby.lastRefresh, Wrap) >= RefreshInterval)
    BY <2>1 DEF IsStale
  <2>3. USub(t, p.standby.lastRefresh, Wrap) \in Int
    BY <1>2, CandidateAssumption DEF Shaped, Time, USub
  <2>4. USub(t, r.standby.lastRefresh, Wrap) < RefreshInterval
    BY <2>1, <2>2, <2>3, CandidateAssumption
  <2>5. Unaliased(r)
    BY <1>2, <1>3, <2>1 DEF Unaliased
  <2>6. r.standby = m.standby \/ r.standby.lastRefresh = t
    BY <1>2, <1>5, <2>1
  <2> QED
    BY <1>3, <2>4, <2>5, <2>6 DEF Polled
<1>6. r.standby.valid \in BOOLEAN
  BY <1>3 DEF Shaped
<1>7. QED
  BY <1>4, <1>5, <1>6

-----------------------------------------------------------------------------
(***************************************************************************)
(* The standby is never the active parent.                                 *)
(***************************************************************************)
AliasInv ==
  /\ now \in Time
  /\ Shaped(manager)
  /\ Unaliased(manager)

LEMMA AliasInit == CandidateInit => AliasInv
<1> SUFFICES ASSUME CandidateInit
             PROVE  AliasInv
  OBVIOUS
<1>1. 0 \in Time
  BY CandidateAssumption DEF Time
<1>2. Shaped(manager)
  BY <1>1, ShapedRecord DEF CandidateInit, NoCandidate
<1>3. manager.standby = NoCandidate
  BY DEF CandidateInit
<1>4. NoCandidate.valid = FALSE
  BY DEF NoCandidate
<1> QED
  BY <1>1, <1>2, <1>3, <1>4 DEF CandidateInit, AliasInv, Unaliased

LEMMA AliasStep == AliasInv /\ [CandidateNext]_candidateVars => AliasInv'
<1> SUFFICES ASSUME AliasInv, [CandidateNext]_candidateVars
             PROVE  AliasInv'
  OBVIOUS
<1>1. ASSUME NEW d \in 1 .. MaxGap, NEW parent, NEW ext, Poll(d, parent, ext)
      PROVE  AliasInv'
  <2>1. now' \in Time
    BY <1>1, CandidateAssumption DEF AliasInv, Poll, Time, UAdd
  <2> DEFINE r == Tick(TrackParent(manager, now', parent, ext), now')
  <2>2. Polled(r, manager, now')
    BY <2>1, PollDoes, Zenon DEF AliasInv
  <2>3. manager' = r
    BY <1>1 DEF Poll
  <2> HIDE DEF r
  <2> QED
    BY <2>1, <2>2, <2>3 DEF AliasInv, Polled, Shaped, Unaliased
<1>2. ASSUME NEW rloc, NEW signal, NEW ext, Hear(rloc, signal, ext)
      PROVE  AliasInv'
  <2> DEFINE r == Observe(manager, now, rloc, signal, ext)
  <2>1. Observed(r, manager, now)
    BY ObserveDoes, Zenon DEF AliasInv
  <2>2. manager' = r /\ now' = now
    BY <1>2 DEF Hear
  <2> HIDE DEF r
  <2>3. Unaliased(r)
    BY <2>1 DEF AliasInv, Observed, Unaliased
  <2> QED
    BY <2>1, <2>2, <2>3 DEF AliasInv, Observed, Shaped, Unaliased
<1>3. CASE UNCHANGED candidateVars
  BY <1>3 DEF AliasInv, Shaped, Unaliased, candidateVars
<1> QED
  BY <1>1, <1>2, <1>3 DEF CandidateNext

\* However observations, changes of parent and expiries alternate, the router
\* to fail over to is not the one the device is attached to.
THEOREM StandbyTheorem == CandidateSpec => []StandbyIsNotActive
<1>1. AliasInv => StandbyIsNotActive
  BY DEF AliasInv, Unaliased, Shaped, StandbyIsNotActive
<1> QED
  BY <1>1, AliasInit, AliasStep, PTL DEF CandidateSpec

-----------------------------------------------------------------------------
(***************************************************************************)
(* A standby handed out is fresh.                                          *)
(***************************************************************************)
\* While the standby is valid its timestamp tells its age, and it is younger
\* than the interval or of this very moment: the clock cannot wrap round to
\* it before a poll finds it stale.
FreshInv ==
  /\ age \in 0 .. RefreshInterval
  /\ manager.standby.valid = TRUE =>
       /\ USub(now, manager.standby.lastRefresh, Wrap) = age
       /\ age = 0 \/ age < RefreshInterval

LEMMA FreshInit == CandidateInit => FreshInv
<1> SUFFICES ASSUME CandidateInit
             PROVE  FreshInv
  OBVIOUS
<1>1. NoCandidate.valid = FALSE
  BY DEF NoCandidate
<1>2. manager.standby = NoCandidate
  BY DEF CandidateInit
<1> QED
  BY <1>1, <1>2, CandidateAssumption DEF CandidateInit, FreshInv

\* The clock arithmetic of a standby that a poll leaves alone.
LEMMA AgeGrows ==
  ASSUME NEW n \in Time, NEW l \in Time, NEW d \in 1 .. MaxGap,
         NEW a \in 0 .. RefreshInterval,
         USub(n, l, Wrap) = a, a = 0 \/ a < RefreshInterval,
         USub(UAdd(n, d, Wrap), l, Wrap) < RefreshInterval
  PROVE  /\ USub(UAdd(n, d, Wrap), l, Wrap) = a + d
         /\ Saturate(a + d, RefreshInterval) = a + d
BY CandidateAssumption DEF Time, USub, UAdd, Saturate

LEMMA FreshStep ==
  AliasInv /\ FreshInv /\ [CandidateNext]_candidateVars => FreshInv'
<1> SUFFICES ASSUME AliasInv, FreshInv, [CandidateNext]_candidateVars
             PROVE  FreshInv'
  OBVIOUS
<1>1. ASSUME NEW d \in 1 .. MaxGap, NEW parent, NEW ext, Poll(d, parent, ext)
      PROVE  FreshInv'
  <2> DEFINE t == UAdd(now, d, Wrap)
             r == Tick(TrackParent(manager, t, parent, ext), t)
             sb == r.standby
             old == manager.standby
  <2>1. /\ now' = t /\ manager' = r
        /\ age' = IF sb # old /\ sb.valid
                  THEN 0 ELSE Saturate(age + d, RefreshInterval)
    BY <1>1 DEF Poll, CountAge
  <2>2. t \in Time
    BY CandidateAssumption DEF AliasInv, Time, UAdd
  <2>3. Polled(r, manager, t)
    BY <2>2, PollDoes, Zenon DEF AliasInv
  <2> HIDE DEF r
  <2>4. age' \in 0 .. RefreshInterval
    BY <2>1, CandidateAssumption DEF FreshInv, Saturate
  <2>5. CASE sb.valid = TRUE /\ sb # old
    <3>1. age' = 0
      BY <2>1, <2>5
    <3>2. sb.lastRefresh = t
      BY <2>3, <2>5 DEF Polled
    <3>3. USub(t, t, Wrap) = 0
      BY <2>2 DEF Time, USub
    <3> QED
      BY <2>1, <2>4, <3>1, <3>2, <3>3 DEF FreshInv
  <2>6. CASE sb.valid = TRUE /\ sb = old
    <3>1. age' = Saturate(age + d, RefreshInterval)
      BY <2>1, <2>6
    <3>2. USub(t, old.lastRefresh, Wrap) < RefreshInterval
      BY <2>3, <2>6 DEF Polled
    <3>3. /\ USub(now, old.lastRefresh, Wrap) = age
          /\ age = 0 \/ age < RefreshInterval
      BY <2>6 DEF FreshInv
    <3>4. old.lastRefresh \in Time /\ now \in Time
      BY DEF AliasInv, Shaped
    <3>5. /\ USub(t, old.lastRefresh, Wrap) = age + d
          /\ Saturate(age + d, RefreshInterval) = age + d
      BY <3>2, <3>3, <3>4, AgeGrows DEF FreshInv
    <3> HIDE DEF t, sb, old
    <3>6. age' = USub(t, old.lastRefresh, Wrap) /\ age' < RefreshInterval
      BY <3>1, <3>2, <3>5
    <3>7. manager'.standby = old /\ now' = t
      BY <2>1, <2>6 DEF sb
    <3> QED
      BY <2>4, <3>6, <3>7 DEF FreshInv
  <2>7. CASE sb.valid = FALSE
    BY <2>1, <2>4, <2>7 DEF FreshInv
  <2>8. sb.valid \in BOOLEAN
    BY <2>3 DEF Polled, Shaped
  <2> QED
    BY <2>5, <2>6, <2>7, <2>8
<1>2. ASSUME NEW rloc, NEW signal, NEW ext, Hear(rloc, signal, ext)
      PROVE  FreshInv'
  <2> DEFINE r == Observe(manager, now, rloc, signal, ext)
             sb == r.standby
             old == manager.standby
  <2>1. /\ manager' = r /\ now' = now
        /\ age' = IF sb # old /\ sb.valid
                  THEN 0 ELSE Saturate(age + 0, RefreshInterval)
    BY <1>2 DEF Hear, CountAge
  <2>2. Observed(r, manager, now)
    BY ObserveDoes, Zenon DEF AliasInv
  <2> HIDE DEF r
  <2>3. Saturate(age + 0, RefreshInterval) = age
    BY CandidateAssumption DEF FreshInv, Saturate
  <2>4. CASE sb = old
    <3>1. manager'.standby = manager.standby /\ now' = now /\ age' = age
      BY <2>1, <2>3, <2>4
    <3> QED
      BY <3>1 DEF FreshInv
  <2>5. CASE sb # old
    <3>1. sb.valid = TRUE /\ sb.lastRefresh = now
      BY <2>2, <2>5 DEF Observed
    <3>2. age' = 0
      BY <2>1, <2>5, <3>1
    <3>3. USub(now, now, Wrap) = 0
      BY DEF AliasInv, Time, USub
    <3> QED
      BY <2>1, <3>1, <3>2, <3>3, CandidateAssumption DEF FreshInv
  <2> QED
    BY <2>4, <2>5
<1>3. CASE UNCHANGED candidateVars
  BY <1>3 DEF FreshInv, candidateVars
<1> QED
  BY <1>1, <1>2, <1>3 DEF CandidateNext

\* A standby that went stale stays so until a router is heard again, whatever
\* the width of the clock: get_standby() never hands out a candidate that was
\* last refreshed standby_refresh_interval or more ago.
THEOREM FreshnessTheorem == CandidateSpec => []OfferedStandbyIsFresh
<1>1. AliasInv /\ FreshInv => OfferedStandbyIsFresh
  <2> SUFFICES ASSUME AliasInv, FreshInv, HasStandby(manager, now)
               PROVE  age < RefreshInterval
    BY DEF OfferedStandbyIsFresh
  <2>1. manager.standby.valid = TRUE
    BY DEF HasStandby, AliasInv, Shaped
  <2>2. ~(USub(now, manager.standby.lastRefresh, Wrap) >= RefreshInterval)
    BY DEF HasStandby, IsStale
  <2> QED
    BY <2>1, <2>2, CandidateAssumption DEF FreshInv
<1>2. AliasInv /\ FreshInv /\ [CandidateNext]_candidateVars
        => (AliasInv /\ FreshInv)'
  BY AliasStep, FreshStep
<1> QED
  BY <1>1, <1>2, AliasInit, FreshInit, PTL DEF CandidateSpec
-----------------------------------------------------------------------------
(***************************************************************************)
(* Addresses.                                                              *)
(***************************************************************************)
LEMMA ScoreType ==
  ASSUME NEW margin \in Int, NEW rssi \in Int
  PROVE  Score(margin, rssi) \in Int8
<1>1. Half(rssi) \in Int
  BY DEF Half
<1>2. margin + Half(rssi) + 128 \in Int
  BY <1>1
<1>. QED
  BY <1>2 DEF Score, ToInt8, Int8

\* Positions past the one removed.
LEMMA PastTheGap ==
  ASSUME NEW n \in Nat, NEW p \in 1 .. n, NEW i \in 1 .. n - 1, i > p - 1
  PROVE  i - (p - 1) \in 1 .. n - p /\ p + (i - (p - 1)) \in 1 .. n
OBVIOUS

\* A list without one of its entries.
LEMMA RemoveAtDoes ==
  ASSUME NEW s \in Seq(Entry), NEW p \in DOMAIN s
  PROVE  /\ RemoveAt(s, p) \in Seq(Entry)
         /\ \A i \in DOMAIN RemoveAt(s, p) :
              \E j \in DOMAIN s : RemoveAt(s, p)[i] = s[j]
<1> DEFINE a == SubSeq(s, 1, p - 1)
           b == SubSeq(s, p + 1, Len(s))
<1>0. p \in 1 .. Len(s) /\ Len(s) \in Nat
  OBVIOUS
<1>1. /\ a \in Seq(Entry) /\ Len(a) = p - 1
      /\ \A i \in 1 .. Len(a) : a[i] = s[i]
  BY <1>0
<1>2. /\ b \in Seq(Entry) /\ Len(b) = Len(s) - p
      /\ \A i \in 1 .. Len(b) : b[i] = s[p + i]
  BY <1>0
<1> HIDE DEF a, b
<1>3. RemoveAt(s, p) = a \o b
  BY DEF RemoveAt, a, b
<1>4. /\ a \o b \in Seq(Entry) /\ Len(a \o b) = Len(a) + Len(b)
      /\ \A i \in 1 .. Len(a) + Len(b) :
           (a \o b)[i] = IF i <= Len(a) THEN a[i] ELSE b[i - Len(a)]
  BY <1>1, <1>2
<1>5. \A i \in 1 .. Len(a) + Len(b) :
        \E j \in 1 .. Len(s) : (a \o b)[i] = s[j]
  <2> TAKE i \in 1 .. Len(a) + Len(b)
  <2>1. CASE i <= Len(a)
    <3>1. i \in 1 .. Len(a) /\ i \in 1 .. Len(s)
      BY <2>1, <1>0, <1>1, <1>2
    <3>. QED
      BY <2>1, <3>1, <1>1, <1>4
  <2>2. CASE i > Len(a)
    <3>1. i - Len(a) \in 1 .. Len(b) /\ p + (i - Len(a)) \in 1 .. Len(s)
      <4>1. Len(a) = p - 1 /\ Len(b) = Len(s) - p
        BY <1>1, <1>2
      <4>2. i \in 1 .. Len(s) - 1 /\ i > p - 1
        BY <2>2, <4>1, <1>0
      <4>. QED
        BY <4>1, <4>2, <1>0, PastTheGap
    <3>. QED
      BY <2>2, <3>1, <1>2, <1>4
  <2>. QED
    BY <2>1, <2>2, <1>1, <1>2
<1>6. DOMAIN (a \o b) = 1 .. Len(a) + Len(b) /\ DOMAIN s = 1 .. Len(s)
  BY <1>4
<1>. QED
  BY <1>3, <1>4, <1>5, <1>6

\* What the cache holds after a router was heard of: that router, or what it
\* held before.
LEMMA TouchDoes ==
  ASSUME NEW s \in Seq(Entry), NEW rloc \in Router, NEW ext \in Ext
  PROVE  LET t == Touch(s, rloc, ext) IN
         /\ t \in Seq(Entry) /\ Len(t) <= CacheSize
         /\ \A i \in DOMAIN t : \/ t[i] = [rloc |-> rloc, ext |-> ext]
                               \/ \E j \in DOMAIN s : t[i] = s[j]
<1> DEFINE others == IF Cached(s, rloc) THEN RemoveAt(s, Position(s, rloc))
                     ELSE s
           new == [rloc |-> rloc, ext |-> ext]
           all == <<new>> \o others
<1>1. /\ others \in Seq(Entry)
      /\ \A i \in DOMAIN others : \E j \in DOMAIN s : others[i] = s[j]
  <2>1. CASE Cached(s, rloc)
    <3>1. Position(s, rloc) \in DOMAIN s
      BY <2>1 DEF Cached, Position
    <3>. QED
      BY <2>1, <3>1, RemoveAtDoes
  <2>2. CASE ~Cached(s, rloc)
    BY <2>2
  <2>. QED
    BY <2>1, <2>2
<1>2. Touch(s, rloc, ext) = Truncate(all)
  BY DEF Touch
<1>3. new \in Entry
  BY DEF Entry
<1> HIDE DEF others, new
<1>4. /\ all \in Seq(Entry) /\ Len(all) = 1 + Len(others)
      /\ \A i \in 1 .. Len(all) : all[i] = IF i = 1 THEN new ELSE others[i - 1]
  BY <1>1, <1>3
<1> HIDE DEF all
<1>5. \A i \in 1 .. Len(all) : \/ all[i] = new
                              \/ \E j \in DOMAIN s : all[i] = s[j]
  <2> TAKE i \in 1 .. Len(all)
  <2>1. CASE i = 1
    BY <2>1, <1>4
  <2>2. CASE i # 1
    <3>1. i - 1 \in DOMAIN others /\ all[i] = others[i - 1]
      BY <2>2, <1>1, <1>4
    <3>. QED
      BY <3>1, <1>1
  <2>. QED
    BY <2>1, <2>2
<1>6. CASE Len(all) > CacheSize
  <2>1. Truncate(all) = SubSeq(all, 1, CacheSize)
    BY <1>6 DEF Truncate
  <2>2. /\ SubSeq(all, 1, CacheSize) \in Seq(Entry)
        /\ Len(SubSeq(all, 1, CacheSize)) = CacheSize
        /\ \A i \in 1 .. CacheSize : SubSeq(all, 1, CacheSize)[i] = all[i]
    BY <1>4, <1>6, CacheAssumption
  <2>. QED
    BY <1>2, <1>4, <1>5, <1>6, <2>1, <2>2, CacheAssumption DEF new
<1>7. CASE ~(Len(all) > CacheSize)
  <2>1. Truncate(all) = all
    BY <1>7 DEF Truncate
  <2>. QED
    BY <1>2, <1>4, <1>5, <1>7, <2>1, CacheAssumption DEF new
<1>. QED
  BY <1>6, <1>7

-----------------------------------------------------------------------------
Tells(rloc, ext) ==
  ext \in Ext \cup {NoExt} /\ (ext # NoExt => <<rloc, ext>> \in Announced)

\* Every address the manager holds, in the standby also when that is not valid,
\* was announced by the router it is held for.
Genuine(m) ==
  /\ m.active \in Rloc /\ m.standby.rloc \in Rloc /\ m.standby.score \in Int8
  /\ m.recent \in Seq(Entry) /\ Len(m.recent) <= CacheSize
  /\ \A i \in DOMAIN m.recent : Tells(m.recent[i].rloc, m.recent[i].ext)
  /\ Tells(m.standby.rloc, m.standby.ext)

Used(m) ==
  m.standby.valid /\ Cached(m.recent, m.standby.rloc) => m.standby.ext # NoExt

LEMMA HeardTells ==
  ASSUME NEW rloc \in Rloc, NEW ext \in ExtsOf(rloc)
  PROVE  Tells(rloc, ext) /\ (rloc = NoRloc => ext = NoExt)
BY CandidateAssumption DEF ExtsOf, Tells

\* The address of a candidate is its own, and is known if the cache has it.
LEMMA ExtForDoes ==
  ASSUME NEW m, Genuine(m), NEW rloc, NEW heard, NEW has,
         Tells(rloc, heard), Tells(rloc, has)
  PROVE  /\ Tells(rloc, ExtFor(m, rloc, heard, has))
         /\ heard # NoExt \/ has # NoExt \/ Cached(m.recent, rloc)
              => ExtFor(m, rloc, heard, has) # NoExt
<1>1. CASE heard # NoExt \/ has # NoExt
  BY <1>1 DEF ExtFor
<1>2. CASE heard = NoExt /\ has = NoExt
  <2>1. ExtFor(m, rloc, heard, has) = Lookup(m.recent, rloc)
    BY <1>2 DEF ExtFor
  <2>2. CASE Cached(m.recent, rloc)
    <3>1. /\ Position(m.recent, rloc) \in DOMAIN m.recent
          /\ m.recent[Position(m.recent, rloc)].rloc = rloc
      BY <2>2 DEF Cached, Position
    <3>2. m.recent[Position(m.recent, rloc)] \in Entry
      BY <3>1 DEF Genuine
    <3>3. m.recent[Position(m.recent, rloc)].ext \in Ext
      BY <3>2 DEF Entry
    <3>4. Lookup(m.recent, rloc) = m.recent[Position(m.recent, rloc)].ext
      BY <2>2 DEF Lookup
    <3>. QED
      BY <2>1, <3>1, <3>3, <3>4, CacheAssumption DEF Genuine
  <2>3. CASE ~Cached(m.recent, rloc)
    BY <1>2, <2>1, <2>3 DEF Lookup, Tells
  <2>. QED
    BY <2>2, <2>3
<1>. QED
  BY <1>1, <1>2

\* Learning an address keeps the others, or forgets them.
LEMMA RememberGenuine ==
  ASSUME NEW m, Shaped(m), Genuine(m), NEW rloc \in Rloc, NEW ext,
         Tells(rloc, ext)
  PROVE  LET r == Remember(m, rloc, ext) IN
         /\ Genuine(r)
         /\ \A k : Cached(r.recent, k) => Cached(m.recent, k) \/ k = rloc
<1>1. CASE rloc = NoRloc \/ ext = NoExt
  BY <1>1 DEF Remember
<1>2. CASE ~(rloc = NoRloc \/ ext = NoExt)
  <2> DEFINE r == Remember(m, rloc, ext)
             t == Touch(m.recent, rloc, ext)
  <2>1. rloc \in Router /\ ext \in Ext
    BY <1>2 DEF Rloc, Tells
  <2>2. /\ t \in Seq(Entry) /\ Len(t) <= CacheSize
        /\ \A i \in DOMAIN t : \/ t[i] = [rloc |-> rloc, ext |-> ext]
                              \/ \E j \in DOMAIN m.recent : t[i] = m.recent[j]
    BY <2>1, TouchDoes DEF Genuine
  <2>3. r.active = m.active /\ r.standby = m.standby
    BY RememberKeeps
  <2>4. r.recent = t
    BY <1>2 DEF Remember, Shaped
  <2> HIDE DEF r, t
  <2>5. \A i \in DOMAIN t : Tells(t[i].rloc, t[i].ext)
    BY <2>2 DEF Genuine
  <2>6. \A k : Cached(t, k) => Cached(m.recent, k) \/ k = rloc
    BY <2>2 DEF Cached
  <2>. QED
    BY <2>2, <2>3, <2>4, <2>5, <2>6 DEF Genuine, r
<1>. QED
  BY <1>1, <1>2

\* A manager with another standby.
LEMMA StandbyGenuine ==
  ASSUME NEW m, Genuine(m), NEW v, NEW rloc \in Rloc, NEW ext,
         NEW score \in Int8, NEW t, Tells(rloc, ext),
         Cached(m.recent, rloc) => ext # NoExt
  PROVE  LET r == [active |-> m.active,
                   standby |-> [valid |-> v, rloc |-> rloc, ext |-> ext,
                                score |-> score, lastRefresh |-> t],
                   recent |-> m.recent]
         IN Genuine(r) /\ Used(r)
<1> DEFINE sb == [valid |-> v, rloc |-> rloc, ext |-> ext,
                  score |-> score, lastRefresh |-> t]
           r == [active |-> m.active, standby |-> sb, recent |-> m.recent]
<1>1. sb.rloc = rloc /\ sb.ext = ext /\ sb.score = score
  BY StandbyFields
<1> HIDE DEF sb
<1>2. r.active = m.active /\ r.standby = sb /\ r.recent = m.recent
  BY Fields
<1> HIDE DEF r
<1>3. Genuine(r) /\ Used(r)
  BY <1>1, <1>2 DEF Genuine, Used
<1>. QED
  BY <1>3 DEF r, sb

LEMMA RefreshGenuine ==
  ASSUME NEW m, Shaped(m), Genuine(m), NEW t, NEW score \in Int8, NEW ext,
         Tells(m.standby.rloc, ext)
  PROVE  LET r == Refresh(m, t, score, ext) IN Genuine(r) /\ Used(r)
<1> DEFINE e == ExtFor(m, m.standby.rloc, ext, m.standby.ext)
           sb == [valid |-> m.standby.valid, rloc |-> m.standby.rloc,
                  ext |-> e, score |-> score, lastRefresh |-> t]
<1>1. Tells(m.standby.rloc, e) /\ (Cached(m.recent, m.standby.rloc) => e # NoExt)
  BY ExtForDoes DEF Genuine
<1>2. Refresh(m, t, score, ext) = [m EXCEPT !.standby = sb]
  BY DEF Refresh
<1>3. [m EXCEPT !.standby = sb]
        = [active |-> m.active, standby |-> sb, recent |-> m.recent]
  BY ReplaceStandby
<1> HIDE DEF e
<1>4. m.standby.rloc \in Rloc
  BY DEF Genuine
<1> DEFINE r == [active |-> m.active, standby |-> sb, recent |-> m.recent]
<1>5. Genuine(r) /\ Used(r)
  BY <1>1, <1>4, StandbyGenuine
<1> HIDE DEF r
<1>6. Refresh(m, t, score, ext) = r
  BY <1>2, <1>3 DEF r
<1>. QED
  BY <1>5, <1>6

LEMMA AdoptGenuine ==
  ASSUME NEW m, Shaped(m), Genuine(m), NEW t, NEW rloc \in Rloc,
         NEW score \in Int8, NEW ext, Tells(rloc, ext)
  PROVE  LET r == Adopt(m, t, rloc, score, ext) IN Genuine(r) /\ Used(r)
<1> DEFINE e == ExtFor(m, rloc, ext, NoExt)
           sb == [valid |-> TRUE, rloc |-> rloc, ext |-> e, score |-> score,
                  lastRefresh |-> t]
<1>0. Tells(rloc, NoExt)
  BY DEF Tells
<1>1. Tells(rloc, e) /\ (Cached(m.recent, rloc) => e # NoExt)
  BY <1>0, ExtForDoes
<1>2. Adopt(m, t, rloc, score, ext) = [m EXCEPT !.standby = sb]
  BY DEF Adopt
<1>3. [m EXCEPT !.standby = sb]
        = [active |-> m.active, standby |-> sb, recent |-> m.recent]
  BY ReplaceStandby
<1> HIDE DEF e
<1> DEFINE r == [active |-> m.active, standby |-> sb, recent |-> m.recent]
<1>4. Genuine(r) /\ Used(r)
  BY <1>1, StandbyGenuine
<1> HIDE DEF r
<1>5. Adopt(m, t, rloc, score, ext) = r
  BY <1>2, <1>3 DEF r
<1>. QED
  BY <1>4, <1>5
LEMMA ObserveGenuine ==
  ASSUME NEW m, Shaped(m), Unaliased(m), Genuine(m), Used(m), NEW t,
         NEW rloc \in Router, NEW signal \in Signals, NEW ext, Tells(rloc, ext)
  PROVE  LET r == Observe(m, t, rloc, signal, ext) IN Genuine(r) /\ Used(r)
<1> DEFINE r == Remember(m, rloc, ext)
           score == Score(signal[1], signal[2])
           o == Observe(m, t, rloc, signal, ext)
<1>0. rloc \in Rloc /\ m.standby.valid \in BOOLEAN
  BY DEF Rloc, Shaped
<1>1. /\ Shaped(r) /\ r.active = m.active /\ r.standby = m.standby
      /\ Genuine(r)
      /\ \A k : Cached(r.recent, k) => Cached(m.recent, k) \/ k = rloc
  BY <1>0, RememberKeeps, RememberGenuine
<1>2. score \in Int8
  <2>1. signal[1] \in Int /\ signal[2] \in Int
    BY CandidateAssumption DEF Int8
  <2>. QED
    BY <2>1, ScoreType
<1>3. o = IF rloc = r.active THEN r
          ELSE IF r.standby.valid /\ rloc = r.standby.rloc
               THEN Refresh(r, t, score, ext)
               ELSE IF ShouldReplace(r, t, score)
                    THEN Adopt(r, t, rloc, score, ext) ELSE r
  BY DEF Observe
<1> SUFFICES Genuine(o) /\ Used(o)
  OBVIOUS
<1> HIDE DEF r, score, o
<1>4. CASE o = r /\ ~(r.standby.valid /\ rloc = r.standby.rloc)
  BY <1>1, <1>4 DEF Used
<1>5. CASE rloc = r.active
  <2>1. ~(r.standby.valid /\ rloc = r.standby.rloc)
    BY <1>0, <1>1, <1>5 DEF Unaliased
  <2>. QED
    BY <1>3, <1>4, <1>5, <2>1
<1>6. CASE rloc # r.active /\ r.standby.valid /\ rloc = r.standby.rloc
  <2> DEFINE q == Refresh(r, t, score, ext)
  <2>1. Genuine(q) /\ Used(q)
    BY <1>1, <1>2, <1>6, RefreshGenuine
  <2> HIDE DEF q
  <2>. QED
    BY <1>3, <1>6, <2>1 DEF q
<1>7. CASE rloc # r.active /\ ~(r.standby.valid /\ rloc = r.standby.rloc)
  <2> DEFINE q == Adopt(r, t, rloc, score, ext)
  <2>1. Genuine(q) /\ Used(q)
    BY <1>0, <1>1, <1>2, AdoptGenuine
  <2> HIDE DEF q
  <2>2. o = q \/ o = r
    BY <1>3, <1>7 DEF q
  <2>. QED
    BY <1>4, <1>7, <2>1, <2>2
<1>. QED
  BY <1>5, <1>6, <1>7

\* update() has just learned the new parent's address, which the standby may
\* still lack if it is that router.
LEMMA MarkGenuine ==
  ASSUME NEW m, Shaped(m), Genuine(m), NEW t \in Time, NEW new \in Rloc,
         m.standby.rloc = new \/ Used(m)
  PROVE  LET r == MarkFailoverComplete(m, t, new) IN Genuine(r) /\ Used(r)
<1> DEFINE a == [m EXCEPT !.active = new]
           p == Promote(a, t, new)
           r == MarkFailoverComplete(m, t, new)
<1>1. /\ Shaped(a) /\ a.active = new /\ a.standby = m.standby
      /\ a.recent = m.recent
  BY DEF Shaped
<1>2. Genuine(a) /\ (m.standby.rloc = new \/ Used(a))
  BY <1>1 DEF Genuine, Used
<1> HIDE DEF a
<1>3. Shaped(p) /\ Genuine(p) /\ Used(p)
  <2>1. CASE a.standby.valid /\ a.standby.rloc = new
    <3> DEFINE q == Remember(a, new, a.standby.ext)
    <3>1. Shaped(q) /\ Genuine(q)
      BY <1>1, <1>2, <2>1, RememberKeeps, RememberGenuine DEF Genuine
    <3>2. p = [q EXCEPT !.standby.valid = FALSE, !.standby.lastRefresh = t]
      BY <2>1 DEF Promote
    <3> HIDE DEF q, p
    <3>3. p = [active |-> q.active,
               standby |-> [valid |-> FALSE, rloc |-> q.standby.rloc,
                            ext |-> q.standby.ext,
                            score |-> q.standby.score, lastRefresh |-> t],
               recent |-> q.recent]
      BY <3>1, <3>2 DEF Shaped
    <3>4. Shaped(p)
      BY <3>3, ShapedRecord
    <3>5. p.standby.valid = FALSE
      BY <3>3
    <3>6. /\ p.active = q.active /\ p.recent = q.recent
          /\ p.standby.rloc = q.standby.rloc /\ p.standby.ext = q.standby.ext
          /\ p.standby.score = q.standby.score
      BY <3>3
    <3>. QED
      BY <3>1, <3>4, <3>5, <3>6 DEF Genuine, Used
  <2>2. CASE ~(a.standby.valid /\ a.standby.rloc = new)
    <3>1. p = a
      BY <2>2 DEF Promote
    <3>. QED
      BY <1>1, <1>2, <2>2, <3>1 DEF Used
  <2>. QED
    BY <2>1, <2>2
<1>4. r = IF m.active # NoRloc /\ m.active # new
          THEN Adopt(p, t, m.active, ContinuityScore, NoExt) ELSE p
  BY DEF MarkFailoverComplete, a
<1> HIDE DEF p, r
<1>5. CASE m.active # NoRloc /\ m.active # new
  <2> DEFINE q == Adopt(p, t, m.active, ContinuityScore, NoExt)
  <2>1. m.active \in Rloc /\ Tells(m.active, NoExt)
    BY DEF Genuine, Tells
  <2>2. ContinuityScore \in Int8
    BY ScoreType DEF ContinuityScore
  <2>3. Genuine(q) /\ Used(q)
    BY <1>3, <2>1, <2>2, AdoptGenuine
  <2> HIDE DEF q
  <2>. QED
    BY <1>4, <1>5, <2>3 DEF q, r
<1>6. CASE ~(m.active # NoRloc /\ m.active # new)
  BY <1>3, <1>4, <1>6 DEF r
<1>. QED
  BY <1>5, <1>6

LEMMA TickGenuine ==
  ASSUME NEW m, Shaped(m), Genuine(m), Used(m), NEW t
  PROVE  LET r == Tick(m, t) IN Genuine(r) /\ Used(r)
<1> DEFINE r == Tick(m, t)
<1>1. CASE IsStale(m, t)
  <2>1. r = [active |-> m.active,
             standby |-> [valid |-> FALSE, rloc |-> m.standby.rloc,
                          ext |-> m.standby.ext, score |-> m.standby.score,
                          lastRefresh |-> m.standby.lastRefresh],
             recent |-> m.recent]
    BY <1>1 DEF Tick, Shaped
  <2> HIDE DEF r
  <2>2. /\ r.active = m.active /\ r.recent = m.recent
        /\ r.standby.valid = FALSE /\ r.standby.rloc = m.standby.rloc
        /\ r.standby.ext = m.standby.ext /\ r.standby.score = m.standby.score
    BY <2>1
  <2>. QED
    BY <2>2 DEF Genuine, Used, r
<1>2. CASE ~IsStale(m, t)
  BY <1>2 DEF Tick
<1>. QED
  BY <1>1, <1>2

LEMMA PollGenuine ==
  ASSUME NEW m, Shaped(m), Unaliased(m), Genuine(m), Used(m), NEW t \in Time,
         NEW parent \in Rloc, NEW ext, Tells(parent, ext),
         parent = NoRloc => ext = NoExt
  PROVE  LET r == Tick(TrackParent(m, t, parent, ext), t)
         IN Genuine(r) /\ Used(r)
<1> DEFINE l == Remember(m, parent, ext)
           p == TrackParent(m, t, parent, ext)
<1>1. /\ Shaped(l) /\ l.active = m.active /\ l.standby = m.standby
      /\ Genuine(l)
      /\ \A k : Cached(l.recent, k) => Cached(m.recent, k) \/ k = parent
  BY RememberKeeps, RememberGenuine
<1>2. p = IF parent # NoRloc /\ parent # l.active
          THEN MarkFailoverComplete(l, t, parent) ELSE l
  BY DEF TrackParent
<1>3. parent = NoRloc => l = m
  BY DEF Remember
<1> HIDE DEF l, p
<1>4. l.standby.rloc = parent \/ Used(l)
  BY <1>1 DEF Used
<1>5. Shaped(p) /\ Genuine(p) /\ Used(p)
  <2>1. CASE parent # NoRloc /\ parent # l.active
    <3> DEFINE q == MarkFailoverComplete(l, t, parent)
    <3>1. Genuine(q) /\ Used(q)
      BY <1>1, <1>4, MarkGenuine
    <3>2. Marked(q, l, t, parent)
      BY <1>1, MarkDoes, Zenon
    <3>3. p = q
      BY <1>2, <2>1
    <3> HIDE DEF q
    <3>. QED
      BY <3>1, <3>2, <3>3 DEF Marked
  <2>2. CASE parent = NoRloc
    BY <1>2, <1>3, <2>2
  <2>3. CASE parent = l.active
    <3>1. p = l
      BY <1>2, <2>3
    <3>2. l.standby.valid \in BOOLEAN
      BY <1>1 DEF Shaped
    <3>3. Used(l)
      BY <1>1, <2>3, <3>2 DEF Used, Unaliased
    <3>. QED
      BY <1>1, <3>1, <3>3
  <2>. QED
    BY <2>1, <2>2, <2>3
<1> DEFINE r == Tick(p, t)
<1>6. Genuine(r) /\ Used(r)
  BY <1>5, TickGenuine
<1>. QED
  BY <1>6 DEF p
AddressInv == Genuine(manager) /\ Used(manager)

LEMMA AddressInit == CandidateInit => AddressInv
<1> SUFFICES ASSUME CandidateInit PROVE AddressInv
  OBVIOUS
<1>1. /\ manager.active = NoRloc /\ manager.recent = <<>>
      /\ manager.standby = NoCandidate
  BY DEF CandidateInit
<1>2. /\ NoCandidate.valid = FALSE /\ NoCandidate.rloc = NoRloc
      /\ NoCandidate.ext = NoExt /\ NoCandidate.score = -127
  BY DEF NoCandidate
<1>3. <<>> \in Seq(Entry) /\ Len(<<>>) = 0 /\ DOMAIN <<>> = {}
  OBVIOUS
<1>4. Genuine(manager)
  BY <1>1, <1>2, <1>3, CacheAssumption DEF Genuine, Tells, Rloc, Int8
<1>. QED
  BY <1>1, <1>2, <1>4 DEF AddressInv, Used

LEMMA AddressStep ==
  AliasInv /\ AddressInv /\ [CandidateNext]_candidateVars => AddressInv'
<1> SUFFICES ASSUME AliasInv, AddressInv, [CandidateNext]_candidateVars
             PROVE  AddressInv'
  OBVIOUS
<1>1. ASSUME NEW d \in 1 .. MaxGap, NEW parent \in Rloc,
             NEW ext \in ExtsOf(parent), Poll(d, parent, ext)
      PROVE  AddressInv'
  <2>1. now' \in Time
    BY <1>1, CandidateAssumption DEF AliasInv, Poll, Time, UAdd
  <2> DEFINE r == Tick(TrackParent(manager, now', parent, ext), now')
  <2>2. Tells(parent, ext) /\ (parent = NoRloc => ext = NoExt)
    BY HeardTells
  <2>3. Genuine(r) /\ Used(r)
    BY <2>1, <2>2, PollGenuine DEF AliasInv, AddressInv
  <2>4. manager' = r
    BY <1>1 DEF Poll
  <2> HIDE DEF r
  <2>. QED
    BY <2>3, <2>4 DEF AddressInv, Genuine, Used
<1>2. ASSUME NEW rloc \in Router, NEW signal \in Signals,
             NEW ext \in ExtsOf(rloc), Hear(rloc, signal, ext)
      PROVE  AddressInv'
  <2> DEFINE r == Observe(manager, now, rloc, signal, ext)
  <2>1. Tells(rloc, ext)
    BY HeardTells DEF Rloc
  <2>2. Genuine(r) /\ Used(r)
    BY <2>1, ObserveGenuine DEF AliasInv, AddressInv
  <2>3. manager' = r
    BY <1>2 DEF Hear
  <2> HIDE DEF r
  <2>. QED
    BY <2>2, <2>3 DEF AddressInv, Genuine, Used
<1>3. CASE UNCHANGED candidateVars
  BY <1>3 DEF AddressInv, Genuine, Used, candidateVars
<1> QED
  BY <1>1, <1>2, <1>3 DEF CandidateNext

\* Through every eviction from the cache, refresh and change of parent, the
\* address the attach hook would be given is one that the standby announced.
THEOREM AuthenticTheorem == CandidateSpec => []StandbyPairIsAuthentic
<1>1. AddressInv => StandbyPairIsAuthentic
  BY DEF AddressInv, Genuine, Tells, StandbyPairIsAuthentic
<1>2. AliasInv /\ AddressInv /\ [CandidateNext]_candidateVars
        => (AliasInv /\ AddressInv)'
  BY AliasStep, AddressStep
<1> QED
  BY <1>1, <1>2, AliasInit, AddressInit, PTL DEF CandidateSpec

\* A standby has its address whenever the cache has it, also the previous
\* parent that became the standby without having been heard of.
THEOREM KnownAddressTheorem == CandidateSpec => []KnownAddressIsUsed
<1>1. AddressInv => KnownAddressIsUsed
  BY DEF AddressInv, Used, KnownAddressIsUsed
<1>2. AliasInv /\ AddressInv /\ [CandidateNext]_candidateVars
        => (AliasInv /\ AddressInv)'
  BY AliasStep, AddressStep
<1> QED
  BY <1>1, <1>2, AliasInit, AddressInit, PTL DEF CandidateSpec

\* The manager's state is well typed: scores within 8 bits, timestamps within
\* the clock, and never more addresses than entries.
THEOREM CandidateTypeCorrect == CandidateSpec => []CandidateTypeOK
<1>1. AliasInv /\ FreshInv /\ AddressInv => CandidateTypeOK
  <2> SUFFICES ASSUME AliasInv, FreshInv, AddressInv PROVE CandidateTypeOK
    OBVIOUS
  <2>1. DOMAIN manager = {"active", "standby", "recent"}
    BY DEF AliasInv, Shaped
  <2>2. manager.standby \in Candidate
    BY DEF AliasInv, Shaped, AddressInv, Genuine, Tells, Candidate
  <2> QED
    BY <2>1, <2>2 DEF AliasInv, FreshInv, AddressInv, Genuine, CandidateTypeOK
<1>2. AliasInv /\ FreshInv /\ AddressInv /\ [CandidateNext]_candidateVars
        => (AliasInv /\ FreshInv /\ AddressInv)'
  BY AliasStep, FreshStep, AddressStep
<1> QED
  BY <1>1, <1>2, AliasInit, FreshInit, AddressInit, PTL DEF CandidateSpec

-----------------------------------------------------------------------------
(***************************************************************************)
(* The hysteresis.                                                         *)
(***************************************************************************)
LEMMA ObserveYields ==
  ASSUME NEW m, Shaped(m), NEW t, NEW rloc, NEW signal, NEW ext,
         m.standby.valid, ~IsStale(m, t)
  PROVE  LET o == Observe(m, t, rloc, signal, ext) IN
         /\ o.standby.valid
         /\ \/ o.standby.rloc = m.standby.rloc
            \/ o.standby.score >= m.standby.score + Hysteresis
<1> DEFINE r == Remember(m, rloc, ext)
           score == Score(signal[1], signal[2])
           o == Observe(m, t, rloc, signal, ext)
<1>1. Shaped(r) /\ r.active = m.active /\ r.standby = m.standby
  BY RememberKeeps
<1>2. o = IF rloc = r.active THEN r
          ELSE IF r.standby.valid /\ rloc = r.standby.rloc
               THEN Refresh(r, t, score, ext)
               ELSE IF ShouldReplace(r, t, score)
                    THEN Adopt(r, t, rloc, score, ext) ELSE r
  BY DEF Observe
<1> SUFFICES /\ o.standby.valid
             /\ \/ o.standby.rloc = m.standby.rloc
                \/ o.standby.score >= m.standby.score + Hysteresis
  OBVIOUS
<1> HIDE DEF r, score, o
<1>3. CASE o = r
  BY <1>1, <1>3
<1>4. CASE o = Refresh(r, t, score, ext)
  <2>1. /\ o.standby.valid = r.standby.valid
        /\ o.standby.rloc = r.standby.rloc
    BY <1>1, <1>4 DEF Refresh, Shaped
  <2>. QED
    BY <1>1, <2>1
<1>5. CASE o = Adopt(r, t, rloc, score, ext) /\ ShouldReplace(r, t, score)
  <2>1. o.standby.valid = TRUE /\ o.standby.score = score
    BY <1>1, <1>5 DEF Adopt, Shaped
  <2>2. score >= r.standby.score + Hysteresis
    BY <1>1, <1>5 DEF ShouldReplace, IsStale
  <2>. QED
    BY <1>1, <2>1, <2>2
<1>. QED
  BY <1>2, <1>3, <1>4, <1>5

LEMMA PollYields ==
  ASSUME NEW m, Shaped(m), NEW t \in Time, NEW parent, NEW ext,
         m.standby.valid, ~IsStale(m, t),
         Tick(TrackParent(m, t, parent, ext), t).active = m.active
  PROVE  Tick(TrackParent(m, t, parent, ext), t).standby = m.standby
<1> DEFINE l == Remember(m, parent, ext)
           p == TrackParent(m, t, parent, ext)
<1>1. Shaped(l) /\ l.active = m.active /\ l.standby = m.standby
  BY RememberKeeps
<1>2. p = IF parent # NoRloc /\ parent # l.active
          THEN MarkFailoverComplete(l, t, parent) ELSE l
  BY DEF TrackParent
<1> SUFFICES ASSUME Tick(p, t).active = m.active
             PROVE  Tick(p, t).standby = m.standby
  OBVIOUS
<1> HIDE DEF l, p
<1>3. CASE parent # NoRloc /\ parent # l.active
  <2> DEFINE q == MarkFailoverComplete(l, t, parent)
  <2>1. Marked(q, l, t, parent)
    BY <1>1, MarkDoes, Zenon
  <2>2. p = q
    BY <1>2, <1>3
  <2> HIDE DEF q
  <2>3. Shaped(p) /\ p.active = parent
    BY <2>1, <2>2 DEF Marked
  <2>4. Ticked(Tick(p, t), p, t)
    BY <2>3, TickDoes, Zenon
  <2>. QED
    BY <1>1, <1>3, <2>3, <2>4 DEF Ticked
<1>4. CASE ~(parent # NoRloc /\ parent # l.active)
  <2>1. p = l
    BY <1>2, <1>4
  <2>2. ~IsStale(p, t)
    BY <1>1, <2>1 DEF IsStale
  <2>. QED
    BY <1>1, <2>1, <2>2 DEF Tick
<1>. QED
  BY <1>3, <1>4

\* For every hysteresis and signal strength: while the parent stays, a fresh
\* standby is given up only for a router that scores better by the hysteresis.
THEOREM HysteresisTheorem == CandidateSpec => FreshStandbyYieldsToBetter
<1> DEFINE Yields ==
      manager'.active = manager.active /\ HasStandby(manager, now')
        => /\ manager'.standby.valid
           /\ \/ manager'.standby.rloc = manager.standby.rloc
              \/ manager'.standby.score >= manager.standby.score + Hysteresis
<1>1. AliasInv /\ [CandidateNext]_candidateVars => [Yields]_candidateVars
  <2> SUFFICES ASSUME AliasInv, CandidateNext,
                      manager'.active = manager.active,
                      HasStandby(manager, now')
               PROVE  Yields
    OBVIOUS
  <2>0. manager.standby.valid /\ ~IsStale(manager, now')
    BY DEF HasStandby
  <2>1. ASSUME NEW d \in 1 .. MaxGap, NEW parent, NEW ext,
               Poll(d, parent, ext)
        PROVE  Yields
    <3>1. now' \in Time
      BY <2>1, CandidateAssumption DEF AliasInv, Poll, Time, UAdd
    <3>2. manager'.standby = manager.standby
      BY <2>0, <2>1, <3>1, PollYields DEF AliasInv, Poll
    <3>. QED
      BY <2>0, <3>2
  <2>2. ASSUME NEW rloc, NEW signal, NEW ext, Hear(rloc, signal, ext)
        PROVE  Yields
    <3>1. now' = now /\ manager' = Observe(manager, now, rloc, signal, ext)
      BY <2>2 DEF Hear
    <3>. QED
      BY <2>0, <3>1, ObserveYields DEF AliasInv
  <2>. QED
    BY <2>1, <2>2 DEF CandidateNext
<1>. QED
  BY <1>1, AliasInit, AliasStep, PTL DEF CandidateSpec, FreshStandbyYieldsToBetter

-----------------------------------------------------------------------------
(***************************************************************************)
(* The ranking of parent responses.  The narrowings to eight bits lose the *)
(* order of two responses (a run shows it); the following says where they  *)
(* do not.                                                                 *)
(***************************************************************************)
Counter == 0 .. 255                 \* uint8_t
Dbm == -128 .. 0                    \* an int8_t RSSI that is not positive

\* The weighted count before it is narrowed.
Weight(lq3, lq2, lq1) == lq3 * 10 + lq2 * 6 + lq1 * 3

LEMMA HalfBounds ==
  ASSUME NEW n \in Dbm
  PROVE  Half(n) \in -64 .. 0
BY DEF Dbm, Half

LEMMA HalfMonotonic ==
  ASSUME NEW m \in Dbm, NEW n \in Dbm, m <= n
  PROVE  Half(m) <= Half(n)
BY DEF Dbm, Half

LEMMA NarrowingExact ==
  ASSUME NEW n \in Int8
  PROVE  ToInt8(n) = n
BY DEF Int8, ToInt8

\* Up to a weight of 127 neither cast of the margin changes it.
LEMMA MarginExact ==
  ASSUME NEW lq3 \in Counter, NEW lq2 \in Counter, NEW lq1 \in Counter,
         Weight(lq3, lq2, lq1) <= 127
  PROVE  /\ ResponseMargin(lq3, lq2, lq1) = Weight(lq3, lq2, lq1)
         /\ ResponseMargin(lq3, lq2, lq1) \in 0 .. 127
<1> DEFINE w == Weight(lq3, lq2, lq1)
<1>1. w \in 0 .. 127
  BY DEF Weight, Counter
<1>2. ToUint8(w) = w
  BY <1>1 DEF ToUint8
<1>3. ToInt8(w) = w
  BY <1>1, NarrowingExact DEF Int8
<1> QED
  BY <1>1, <1>2, <1>3 DEF ResponseMargin, Weight

\* As long as the link-quality counters of the better response weigh at most
\* 127 together (twelve link-quality-3 neighbours do, the thirteenth does not
\* fit), the score neither wraps nor swaps two responses: more neighbours of
\* every quality and no weaker RSSI never rank lower.
THEOREM ResponsesRanked ==
  ASSUME NEW a3 \in Counter, NEW a2 \in Counter, NEW a1 \in Counter,
         NEW b3 \in Counter, NEW b2 \in Counter, NEW b1 \in Counter,
         NEW aRssi \in Dbm, NEW bRssi \in Dbm,
         a3 <= b3, a2 <= b2, a1 <= b1, aRssi <= bRssi,
         Weight(b3, b2, b1) <= 127
  PROVE  /\ Score(ResponseMargin(a3, a2, a1), aRssi)
              <= Score(ResponseMargin(b3, b2, b1), bRssi)
         /\ Score(ResponseMargin(b3, b2, b1), bRssi)
              = Weight(b3, b2, b1) + Half(bRssi)
<1>1. Weight(a3, a2, a1) \in Nat /\ Weight(b3, b2, b1) \in Nat
      /\ Weight(a3, a2, a1) <= Weight(b3, b2, b1)
  BY DEF Weight, Counter
<1>2. /\ ResponseMargin(a3, a2, a1) = Weight(a3, a2, a1)
      /\ ResponseMargin(a3, a2, a1) \in 0 .. 127
      /\ ResponseMargin(b3, b2, b1) = Weight(b3, b2, b1)
      /\ ResponseMargin(b3, b2, b1) \in 0 .. 127
  BY <1>1, MarginExact
<1>3. /\ Half(aRssi) \in -64 .. 0 /\ Half(bRssi) \in -64 .. 0
      /\ Half(aRssi) <= Half(bRssi)
  BY HalfBounds, HalfMonotonic
<1>4. ASSUME NEW u \in 0 .. 127, NEW h \in -64 .. 0 PROVE u + h \in Int8
  BY DEF Int8
<1>5. /\ Weight(a3, a2, a1) \in 0 .. 127 /\ Weight(b3, b2, b1) \in 0 .. 127
      /\ Weight(a3, a2, a1) + Half(aRssi) \in Int8
      /\ Weight(b3, b2, b1) + Half(bRssi) \in Int8
  <2>1. Weight(a3, a2, a1) \in 0 .. 127 /\ Weight(b3, b2, b1) \in 0 .. 127
    BY <1>2, Zenon
  <2>. QED
    BY <1>3, <1>4, <2>1, Zenon
<1>6. ASSUME NEW u \in 0 .. 127, NEW v \in 0 .. 127, u <= v,
             NEW g \in -64 .. 0, NEW h \in -64 .. 0, g <= h
      PROVE  u + g <= v + h
  BY <1>6
<1>7. Weight(a3, a2, a1) + Half(aRssi) <= Weight(b3, b2, b1) + Half(bRssi)
  BY <1>1, <1>3, <1>5, <1>6
<1> QED
  BY <1>2, <1>5, <1>7, NarrowingExact DEF Score
=============================================================================
