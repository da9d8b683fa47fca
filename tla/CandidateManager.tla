-------------------------- MODULE CandidateManager --------------------------
(***************************************************************************)
(* The standby candidate of src/components/biparental_ed/                  *)
(* candidate_manager.{h,cpp}, driven as biparental_ed.cpp drives it: once  *)
(* per poll update() tracks the active parent and expires the standby, and *)
(* between polls (and in the scan of the neighbour table) routers are      *)
(* observed.                                                               *)
(*                                                                         *)
(* The methods are functions from one value of the manager to the next, so *)
(* that a caller's sequence of calls is their composition.  The address    *)
(* cache is the recency list that ExtAddressCache implements; has_ext_     *)
(* address is ext # NoExt.  Every call here is atomic and uses the present *)
(* time: what becomes of a callback that runs inside update() is not the   *)
(* subject of this module.                                                 *)
(***************************************************************************)
EXTENDS RecencyList, CandidateScore, UnsignedArithmetic

CONSTANTS
  NoRloc,           \* 0xffff or 0xfffe
  Announced,        \* the <<router, address>> pairs that routers announce
  Signals,          \* the <<link margin, RSSI>> pairs a router is heard with
  Wrap,             \* number of values of a millisecond timestamp
  MaxGap,           \* most milliseconds between two polls
  RefreshInterval,  \* standby_refresh_interval_ms_
  Hysteresis        \* replace_hysteresis_

Int8 == -128 .. 127

ASSUME CandidateAssumption ==
  /\ NoRloc \notin Router
  /\ Announced \subseteq Router \X Ext
  /\ Signals \subseteq Int8 \X Int8
  /\ Wrap \in Nat \ {0}
  /\ MaxGap \in Nat \ {0}
  /\ RefreshInterval \in Nat
  /\ RefreshInterval + MaxGap <= Wrap
  /\ Hysteresis \in Nat

VARIABLES
  now,      \* the present millis()
  manager,  \* [active, standby, recent]: active_parent_rloc16_,
            \* standby_candidate_ and ext_address_cache_
  age       \* history: milliseconds since the standby was last refreshed, up
            \* to RefreshInterval

candidateVars == <<now, manager, age>>

Rloc == Router \cup {NoRloc}
Time == 0 .. Wrap - 1

Candidate == [valid: BOOLEAN, rloc: Rloc, ext: Ext \cup {NoExt}, score: Int8,
              lastRefresh: Time]

\* How mark_failover_complete() rates the previous active parent.
ContinuityScore == Score(0, -127)

NoCandidate == [valid |-> FALSE, rloc |-> NoRloc, ext |-> NoExt,
                score |-> -127, lastRefresh |-> 0]

-----------------------------------------------------------------------------
(***************************************************************************)
(* The methods.                                                            *)
(***************************************************************************)

\* Slip: learns addresses of no router.
RememberAnything(m, rloc, ext) ==
  [m EXCEPT !.recent = Touch(m.recent, rloc, ext)]

Remember(m, rloc, ext) ==
  IF rloc = NoRloc \/ ext = NoExt
  THEN m
  ELSE [m EXCEPT !.recent = Touch(m.recent, rloc, ext)]

IsStale(m, t) ==
  \/ ~m.standby.valid
  \/ USub(t, m.standby.lastRefresh, Wrap) >= RefreshInterval

HasStandby(m, t) == m.standby.valid /\ ~IsStale(m, t)

\* The address a candidate gets: the one just heard, or the one it has, or
\* the one in the cache.
ExtFor(m, rloc, heard, has) ==
  IF heard # NoExt THEN heard
  ELSE IF has # NoExt THEN has ELSE Lookup(m.recent, rloc)

\* Slip: no hysteresis.
ShouldReplaceByAny(m, t, score) ==
  ~m.standby.valid \/ IsStale(m, t) \/ score >= m.standby.score

ShouldReplace(m, t, score) ==
  \/ ~m.standby.valid
  \/ IsStale(m, t)
  \/ score >= m.standby.score + Hysteresis

Refresh(m, t, score, ext) ==
  [m EXCEPT !.standby = [valid |-> m.standby.valid, rloc |-> m.standby.rloc,
                         ext |-> ExtFor(m, m.standby.rloc, ext, m.standby.ext),
                         score |-> score, lastRefresh |-> t]]

\* Slips: has_ext_address not reset, and the cache not asked.
AdoptKeepingExt(m, t, rloc, score, ext) ==
  [m EXCEPT !.standby = [valid |-> TRUE, rloc |-> rloc,
                         ext |-> ExtFor(m, rloc, ext, m.standby.ext),
                         score |-> score, lastRefresh |-> t]]
AdoptUncached(m, t, rloc, score, ext) ==
  [m EXCEPT !.standby = [valid |-> TRUE, rloc |-> rloc, ext |-> ext,
                         score |-> score, lastRefresh |-> t]]

Adopt(m, t, rloc, score, ext) ==
  [m EXCEPT !.standby = [valid |-> TRUE, rloc |-> rloc,
                         ext |-> ExtFor(m, rloc, ext, NoExt),
                         score |-> score, lastRefresh |-> t]]

\* observe_parent_response() and observe_router_neighbor()
Observe(m, t, rloc, signal, ext) ==
  LET r == Remember(m, rloc, ext)
      score == Score(signal[1], signal[2])
  IN CASE rloc = r.active -> r
       [] rloc # r.active /\ r.standby.valid /\ rloc = r.standby.rloc
            -> Refresh(r, t, score, ext)
       [] OTHER -> IF ShouldReplace(r, t, score)
                   THEN Adopt(r, t, rloc, score, ext) ELSE r

\* Slip: the new parent stays the standby.
PromoteNothing(m, t, new) == m

\* The new active parent stops being the standby; its address is kept.
Promote(m, t, new) ==
  IF m.standby.valid /\ m.standby.rloc = new
  THEN [Remember(m, new, m.standby.ext) EXCEPT
          !.standby.valid = FALSE, !.standby.lastRefresh = t]
  ELSE m

MarkFailoverComplete(m, t, new) ==
  LET p == Promote([m EXCEPT !.active = new], t, new) IN
  IF m.active # NoRloc /\ m.active # new
  THEN Adopt(p, t, m.active, ContinuityScore, NoExt) ELSE p

\* Slip: staleness is left to the readers.
TickNothing(m, t) == m

Tick(m, t) == IF IsStale(m, t) THEN [m EXCEPT !.standby.valid = FALSE] ELSE m

\* update(), lines 134-145: parent is NoRloc when the metrics are invalid.
TrackParent(m, t, parent, ext) ==
  LET r == Remember(m, parent, ext) IN
  IF parent # NoRloc /\ parent # r.active
  THEN MarkFailoverComplete(r, t, parent) ELSE r

-----------------------------------------------------------------------------
\* What is heard of a router may or may not carry its extended address.
ExtsOf(rloc) == { e \in Ext : <<rloc, e>> \in Announced } \cup {NoExt}

CandidateInit ==
  /\ now = 0
  /\ manager = [active |-> NoRloc, standby |-> NoCandidate, recent |-> <<>>]
  /\ age = 0

\* A standby changes while it is valid only by being refreshed or adopted.
CountAge(d) ==
  age' = IF manager'.standby # manager.standby /\ manager'.standby.valid
         THEN 0 ELSE Saturate(age + d, RefreshInterval)

Poll(d, parent, ext) ==
  /\ now' = UAdd(now, d, Wrap)
  /\ manager' = Tick(TrackParent(manager, now', parent, ext), now')
  /\ CountAge(d)

Hear(rloc, signal, ext) ==
  /\ manager' = Observe(manager, now, rloc, signal, ext)
  /\ CountAge(0)
  /\ UNCHANGED now

CandidateNext ==
  \/ \E d \in 1 .. MaxGap, parent \in Rloc :
       \E ext \in ExtsOf(parent) : Poll(d, parent, ext)
  \/ \E rloc \in Router, signal \in Signals :
       \E ext \in ExtsOf(rloc) : Hear(rloc, signal, ext)

CandidateSpec == CandidateInit /\ [][CandidateNext]_candidateVars
-----------------------------------------------------------------------------
CandidateTypeOK ==
  /\ now \in Time
  /\ DOMAIN manager = {"active", "standby", "recent"}
  /\ manager.active \in Rloc
  /\ manager.standby \in Candidate
  /\ manager.recent \in Seq(Entry)
  /\ Len(manager.recent) <= CacheSize
  /\ age \in 0 .. RefreshInterval

\* The device never keeps its own parent as the router to fail over to.
StandbyIsNotActive ==
  manager.standby.valid => manager.standby.rloc # manager.active

\* A standby that get_standby() hands out was really refreshed less than
\* standby_refresh_interval ago: a candidate that went stale is not fresh
\* again when the clock has wrapped.
OfferedStandbyIsFresh == HasStandby(manager, now) => age < RefreshInterval

\* The attach hook selects a parent by address.  The standby's address is one
\* that the standby's RLOC16 announced, never another router's.
StandbyPairIsAuthentic ==
  manager.standby.valid /\ manager.standby.ext # NoExt
    => <<manager.standby.rloc, manager.standby.ext>> \in Announced

\* A standby whose address is in the cache has it, however it became standby.
KnownAddressIsUsed ==
  manager.standby.valid /\ Cached(manager.recent, manager.standby.rloc)
    => manager.standby.ext # NoExt

\* Between two changes of parent a fresh standby gives way only to a router
\* that scores better by the hysteresis.
FreshStandbyYieldsToBetter ==
  [][ manager'.active = manager.active /\ HasStandby(manager, now')
        => /\ manager'.standby.valid
           /\ \/ manager'.standby.rloc = manager.standby.rloc
              \/ manager'.standby.score
                   >= manager.standby.score + Hysteresis ]_candidateVars

=============================================================================
