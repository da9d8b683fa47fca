----------------------- MODULE StandbyTracking_proofs -----------------------
(***************************************************************************)
(* Theorems about StandbyTracking, for every set of routers, size of the   *)
(* cache, width of the clock and durations.                                *)
(***************************************************************************)
EXTENDS StandbyTracking, TLAPS

\* The constants one by one.
LEMMA Constants ==
  /\ NoRloc \notin Router
  /\ CacheSize \in Nat /\ CacheSize >= 1
  /\ Wrap \in Nat /\ MaxGap \in Nat /\ MaxLag \in Nat /\ RefreshInterval \in Nat
  /\ Wrap >= 1 /\ MaxGap >= 1 /\ MaxLag >= 1 /\ RefreshInterval >= 1
  /\ MaxLag <= MaxGap
  /\ RefreshInterval + MaxGap + MaxLag <= Wrap
<1>1. Wrap \in Nat \ {0} /\ MaxGap \in Nat \ {0}
  BY TrackingAssumption
<1>2. MaxLag \in Nat \ {0} /\ RefreshInterval \in Nat \ {0}
  BY TrackingAssumption
<1>. QED
  BY <1>1, <1>2, TrackingAssumption

LEMMA SubTime == \A a, b \in Time : USub(a, b, Wrap) \in Time
BY Constants DEF Time, USub

LEMMA AddTime == \A a \in Time : UAdd(a, 1, Wrap) \in Time
BY Constants DEF Time, UAdd

LEMMA EntriesAreSlots ==
  \A rloc : Entries(rloc) \subseteq Slot /\ Hits(rloc) \subseteq Slot
BY DEF Entries, Hits

\* What a response leaves behind.
LEMMA ObserveType ==
  ASSUME TrackingTypeOK, NEW rloc \in Router, NEW time \in Time,
         NEW better \in BOOLEAN, Observe(rloc, time, better),
         USub(now, time, Wrap) <= AgeCap
  PROVE  active' \in Rloc /\ standby' \in Standby /\ cache' \in [Slot -> Pair]
         /\ age' \in 0 .. AgeCap
<1>1. active' \in Rloc
  BY DEF Observe, TrackingTypeOK
<1>2. cache' \in [Slot -> Pair]
  <2>1. PICK i \in Entries(rloc) :
          cache' = [cache EXCEPT ![i] = [rloc |-> rloc, ext |-> rloc]]
    BY DEF Observe
  <2>2. [rloc |-> rloc, ext |-> rloc] \in Pair
    BY DEF Pair, Rloc
  <2>. QED
    BY <2>1, <2>2, EntriesAreSlots DEF TrackingTypeOK
<1>3. standby' \in Standby
  <2>1. CASE Takes(rloc, time, better)
    <3>1. standby' = [valid |-> TRUE, rloc |-> rloc, ext |-> rloc,
                      lastRefresh |-> time]
      BY <2>1 DEF Observe
    <3>. QED
      BY <3>1 DEF Standby, Rloc
  <2>2. CASE ~Takes(rloc, time, better)
    BY <2>2 DEF Observe, TrackingTypeOK
  <2>. QED
    BY <2>1, <2>2
<1>4. USub(now, time, Wrap) \in 0 .. AgeCap
  BY SubTime, Constants DEF Time, TrackingTypeOK, AgeCap
<1>5. age' \in 0 .. AgeCap
  BY <1>4 DEF Observe, TrackingTypeOK
<1>. QED
  BY <1>1, <1>2, <1>3, <1>5

\* update() never takes longer than MaxLag.
LagBounded ==
  /\ Lag <= MaxGap
  /\ pc # "idle" => Lag <= MaxLag

TrackingTypeInv == TrackingTypeOK /\ LagBounded

LEMMA TypeInit == TrackingInit => TrackingTypeInv
<1>. SUFFICES ASSUME TrackingInit PROVE TrackingTypeInv
  OBVIOUS
<1>1. NoPair \in Pair
  BY DEF NoPair, Pair, Rloc
<1>2. 1 \in Slot /\ 0 \in Time /\ 0 \in 0 .. AgeCap
  BY Constants DEF Slot, Time, AgeCap
<1>3. my \in Locals
  BY <1>1, <1>2 DEF TrackingInit, Locals, Rloc
<1>4. standby \in Standby
  BY <1>2 DEF TrackingInit, Standby, Rloc
<1>5. TrackingTypeOK
  BY <1>1, <1>2, <1>3, <1>4 DEF TrackingInit, TrackingTypeOK, Rloc, Label
<1>6. Lag = 0
  BY Constants DEF TrackingInit, Lag, USub
<1>7. LagBounded
  BY <1>6, Constants DEF LagBounded
<1>. QED
  BY <1>5, <1>7 DEF TrackingTypeInv

\* What does not touch the clock keeps the lag.
LEMMA LagKept ==
  ASSUME LagBounded, now' = now, my'.t = my.t, pc # "idle"
  PROVE  LagBounded'
<1>1. Lag' = Lag
  BY DEF Lag
<1>. QED
  BY <1>1 DEF LagBounded

\* The three shapes of most of update()'s steps.
LEMMA LookType ==
  ASSUME TrackingTypeInv, NEW from, NEW to \in Label, Look(from, to),
         from # "idle"
  PROVE  TrackingTypeInv'
<1>1. TrackingTypeOK'
  BY DEF Look, Step, TrackingTypeInv, TrackingTypeOK
<1>2. LagBounded'
  BY LagKept DEF Look, Step, TrackingTypeInv
<1>. QED
  BY <1>1, <1>2 DEF TrackingTypeInv

LEMMA NoteType ==
  ASSUME TrackingTypeInv, NEW from, NEW to \in Label, NEW locals \in Locals,
         Note(from, to, locals), locals.t = my.t, from # "idle"
  PROVE  TrackingTypeInv'
<1>1. TrackingTypeOK'
  BY DEF Note, Step, TrackingTypeInv, TrackingTypeOK
<1>2. LagBounded'
  BY LagKept DEF Note, Step, TrackingTypeInv
<1>. QED
  BY <1>1, <1>2 DEF TrackingTypeInv

LEMMA WriteType ==
  ASSUME TrackingTypeInv, NEW from, NEW to \in Label, NEW candidate \in Standby,
         Write(from, to, candidate), from # "idle"
  PROVE  TrackingTypeInv'
<1>1. TrackingTypeOK'
  BY DEF Write, Step, TrackingTypeInv, TrackingTypeOK
<1>2. LagBounded'
  BY LagKept DEF Write, Step, TrackingTypeInv
<1>. QED
  BY <1>1, <1>2 DEF TrackingTypeInv

LEMMA BeginType ==
  ASSUME TrackingTypeInv, NEW p \in Rloc, NEW known \in BOOLEAN, Begin(p, known)
  PROVE  TrackingTypeInv'
<1>1. my' \in Locals /\ my'.t = now
  BY DEF Begin, Note, TrackingTypeInv, TrackingTypeOK, Locals
<1>2. TrackingTypeOK'
  BY <1>1 DEF Begin, Note, Step, TrackingTypeInv, TrackingTypeOK, Label
<1>3. Lag' = 0
  BY <1>1, Constants DEF Begin, Note, Step, Lag, USub, TrackingTypeInv,
     TrackingTypeOK, Time
<1>4. LagBounded'
  BY <1>3, Constants DEF LagBounded
<1>. QED
  BY <1>2, <1>4 DEF TrackingTypeInv

LEMMA CacheWriteType ==
  ASSUME TrackingTypeInv, WriteRloc \/ WriteExt
  PROVE  TrackingTypeInv'
<1>0. /\ my.slot \in Slot /\ my.rloc \in Rloc /\ standby.ext \in Rloc
      /\ cache \in [Slot -> Pair]
  BY DEF TrackingTypeInv, TrackingTypeOK, Locals, Standby
<1>1. cache' \in [Slot -> Pair]
  <2>1. /\ [cache[my.slot] EXCEPT !.rloc = my.rloc] \in Pair
        /\ [cache[my.slot] EXCEPT !.ext = standby.ext] \in Pair
        /\ [cache[my.slot] EXCEPT !.ext = my.rloc] \in Pair
    BY <1>0 DEF Pair
  <2>. QED
    BY <1>0, <2>1 DEF WriteRloc, WriteExt
<1>2. TrackingTypeOK'
  BY <1>1 DEF WriteRloc, WriteExt, Step, TrackingTypeInv, TrackingTypeOK, Label
<1>3. LagBounded'
  BY LagKept DEF WriteRloc, WriteExt, Step, TrackingTypeInv
<1>. QED
  BY <1>2, <1>3 DEF TrackingTypeInv

LEMMA MarkRenameType ==
  ASSUME TrackingTypeInv, MarkActive \/ Rename
  PROVE  TrackingTypeInv'
<1>1. Lag \in 0 .. AgeCap
  BY Constants, SubTime DEF TrackingTypeInv, TrackingTypeOK, LagBounded, AgeCap,
     Time, Lag, Locals
<1>2. my' \in Locals /\ my'.t = my.t
  BY DEF MarkActive, Rename, TrackingTypeInv, TrackingTypeOK, Locals
<1>3. standby' \in Standby
  BY DEF MarkActive, Rename, TrackingTypeInv, TrackingTypeOK, Standby, Locals,
     Rloc
<1>4. TrackingTypeOK'
  BY <1>1, <1>2, <1>3 DEF MarkActive, Rename, Step, TrackingTypeInv,
     TrackingTypeOK, Label, Locals
<1>5. LagBounded'
  BY <1>2, LagKept DEF MarkActive, Rename, Step, TrackingTypeInv
<1>. QED
  BY <1>4, <1>5 DEF TrackingTypeInv

LEMMA ScanType ==
  ASSUME TrackingTypeInv, NEW rloc \in Router, NEW better \in BOOLEAN,
         Scan(rloc, better)
  PROVE  TrackingTypeInv'
<1>1. my.t \in Time /\ Lag <= AgeCap
  BY Constants, SubTime DEF TrackingTypeInv, TrackingTypeOK, LagBounded, AgeCap,
     Time, Lag, Locals, Scan, Step
<1>2. /\ active' \in Rloc /\ standby' \in Standby
      /\ cache' \in [Slot -> Pair] /\ age' \in 0 .. AgeCap
  BY <1>1, ObserveType DEF Scan, Lag, TrackingTypeInv
<1>3. TrackingTypeOK'
  BY <1>2 DEF Scan, Step, TrackingTypeInv, TrackingTypeOK, Label
<1>4. LagBounded'
  BY LagKept DEF Scan, Step, TrackingTypeInv
<1>. QED
  BY <1>3, <1>4 DEF TrackingTypeInv

LEMMA ResponseType ==
  ASSUME TrackingTypeInv, NEW rloc \in Router, NEW better \in BOOLEAN,
         ParentResponse(rloc, better)
  PROVE  TrackingTypeInv'
<1>1. now \in Time /\ USub(now, now, Wrap) <= AgeCap
  BY Constants DEF TrackingTypeInv, TrackingTypeOK, AgeCap, Time, USub
<1>2. /\ active' \in Rloc /\ standby' \in Standby
      /\ cache' \in [Slot -> Pair] /\ age' \in 0 .. AgeCap
  BY <1>1, ObserveType DEF ParentResponse, TrackingTypeInv
<1>3. raced' \in BOOLEAN
  BY DEF ParentResponse
<1>4. TrackingTypeOK'
  BY <1>2, <1>3 DEF ParentResponse, TrackingTypeInv, TrackingTypeOK
<1>5. LagBounded'
  BY DEF ParentResponse, TrackingTypeInv, LagBounded, Lag
<1>. QED
  BY <1>4, <1>5 DEF TrackingTypeInv

LEMMA OutsideType ==
  ASSUME TrackingTypeInv, Loop \/ GetReady \/ Advance
  PROVE  TrackingTypeInv'
<1>1. CASE Loop
  <2>1. TrackingTypeOK'
    BY <1>1 DEF Loop, TrackingTypeInv, TrackingTypeOK, Label
  <2>2. LagBounded'
    BY <1>1, Constants, SubTime
       DEF Loop, TrackingTypeInv, TrackingTypeOK, LagBounded, Lag, Time, Locals
  <2>. QED
    BY <2>1, <2>2 DEF TrackingTypeInv
<1>2. CASE GetReady
  BY <1>2 DEF GetReady, TrackingTypeInv, TrackingTypeOK, LagBounded, Lag
<1>3. CASE Advance
  <2>1. now' \in Time
    BY <1>3, AddTime DEF Advance, TrackingTypeInv, TrackingTypeOK
  <2>2. age' \in 0 .. AgeCap
    BY <1>3, Constants DEF Advance, Saturate, AgeCap, TrackingTypeInv,
       TrackingTypeOK
  <2>3. TrackingTypeOK'
    BY <1>3, <2>1, <2>2 DEF Advance, TrackingTypeInv, TrackingTypeOK
  <2>4. my.t \in Time /\ now \in Time /\ my'.t = my.t
    BY <1>3 DEF Advance, TrackingTypeInv, TrackingTypeOK, Locals
  <2>5. Lag' <= Lag + 1
    BY <1>3, <2>4, Constants DEF Advance, Lag, UAdd, USub, Time
  <2>6. Lag \in Nat /\ Lag' \in Nat
    <3>1. USub(now, my.t, Wrap) \in Time /\ USub(now', my'.t, Wrap) \in Time
      BY <2>1, <2>4, SubTime
    <3>. QED
      BY <3>1, Constants DEF Lag, Time
  <2>7. LagBounded'
    BY <1>3, <2>5, <2>6, Constants DEF Advance, LagBounded
  <2>. QED
    BY <2>3, <2>7 DEF TrackingTypeInv
<1>. QED
  BY <1>1, <1>2, <1>3

LEMMA UpdateType ==
  ASSUME TrackingTypeInv, Update
  PROVE  TrackingTypeInv'
<1>0. my \in Locals /\ standby \in Standby /\ cache \in [Slot -> Pair]
  BY DEF TrackingTypeInv, TrackingTypeOK
<1>1. CASE \E p \in Rloc, known \in BOOLEAN :
             (known => p # NoRloc) /\ Begin(p, known)
  BY <1>1, BeginType
<1>2. CASE ChooseEntry
  <2>1. PICK i \in Slot :
          Note("choose", "write rloc", [my EXCEPT !.slot = i])
    BY <1>2, EntriesAreSlots DEF ChooseEntry
  <2>2. [my EXCEPT !.slot = i] \in Locals
    BY <1>0 DEF Locals
  <2>. QED
    BY <2>1, <2>2, <1>0, NoteType DEF Label, Locals
<1>3. CASE WriteRloc \/ WriteExt
  BY <1>3, CacheWriteType
<1>4. CASE MarkActive \/ Rename
  BY <1>4, MarkRenameType
<1>5. CASE SameParent \/ Promote \/ LookupNothing \/ Tick \/ Scanned \/ Get
  BY <1>5, LookType DEF SameParent, Promote, LookupNothing, Tick, Scanned, Get,
     Label
<1>6. CASE Keep
  <2>1. [my EXCEPT !.rloc = standby.rloc, !.standbys = TRUE] \in Locals
    BY <1>0 DEF Locals, Standby
  <2>. QED
    BY <2>1, <1>0, <1>6, NoteType DEF Keep, Label, Locals
<1>7. CASE Drop \/ DropStamp \/ Stamp \/ Forget \/ Apply \/ Expire
  <2>1. /\ [standby EXCEPT !.valid = FALSE] \in Standby
        /\ [standby EXCEPT !.lastRefresh = my.t] \in Standby
        /\ [standby EXCEPT !.ext = NoRloc] \in Standby
        /\ [standby EXCEPT !.ext = cache[my.slot].ext] \in Standby
    BY <1>0 DEF Standby, Locals, Pair, Rloc
  <2>. QED
    BY <2>1, <1>7, WriteType
       DEF Drop, DropStamp, Stamp, Forget, Apply, Expire, Label
<1>8. CASE Continue
  <2>1. [standby EXCEPT !.valid = TRUE] \in Standby
    BY <1>0 DEF Standby
  <2>. QED
    BY <2>1, <1>8, WriteType, LookType DEF Continue, Label
<1>9. CASE Lookup
  <2>1. PICK i \in Slot : Note("lookup", "apply", [my EXCEPT !.slot = i])
    BY <1>9, EntriesAreSlots DEF Lookup
  <2>2. [my EXCEPT !.slot = i] \in Locals
    BY <1>0 DEF Locals
  <2>. QED
    BY <2>1, <2>2, <1>0, NoteType DEF Label, Locals
<1>10. CASE \E rloc \in Router, better \in BOOLEAN : Scan(rloc, better)
  BY <1>10, ScanType
<1>11. CASE CopyRloc \/ CopyExt
  <2>1. /\ [my EXCEPT !.target.rloc = standby.rloc] \in Locals
        /\ [my EXCEPT !.target.ext = standby.ext] \in Locals
    BY <1>0 DEF Locals, Pair, Standby
  <2>2. /\ [my EXCEPT !.target.rloc = standby.rloc].t = my.t
        /\ [my EXCEPT !.target.ext = standby.ext].t = my.t
    BY <1>0 DEF Locals
  <2>. QED
    BY <2>1, <2>2, <1>11, NoteType DEF CopyRloc, CopyExt, Label
<1>12. CASE Finish
  <2> DEFINE l == [my EXCEPT !.parent = NoRloc, !.previous = NoRloc,
                     !.rloc = NoRloc, !.standbys = FALSE, !.target = NoPair]
  <2>1. l \in Locals /\ l.t = my.t
    BY <1>0 DEF Locals, Rloc, NoPair, Pair
  <2>2. PICK from \in {"done", "request"} : Note(from, "loop", l)
    BY <1>12 DEF Finish
  <2>. QED
    BY <2>1, <2>2, NoteType DEF Label
<1>. QED
  BY <1>1, <1>2, <1>3, <1>4, <1>5, <1>6, <1>7, <1>8, <1>9, <1>10, <1>11, <1>12
     DEF Update

LEMMA TypeStep ==
  ASSUME TrackingTypeInv, [TrackingNext]_trackingVars
  PROVE  TrackingTypeInv'
<1>1. CASE UNCHANGED trackingVars
  BY <1>1 DEF trackingVars, TrackingTypeInv, TrackingTypeOK, LagBounded, Lag
<1>2. CASE TrackingNext
  BY <1>2, UpdateType, OutsideType, ResponseType DEF TrackingNext
<1>. QED
  BY <1>1, <1>2

\* Whatever responses come between the steps of update(), every variable keeps
\* its type.
THEOREM TrackingTypeCorrect == TrackingSpec => []TrackingTypeOK
<1>1. TrackingTypeInv => TrackingTypeOK
  BY DEF TrackingTypeInv
<1>. QED
  BY TypeInit, TypeStep, <1>1, PTL DEF TrackingSpec

-----------------------------------------------------------------------------
(***************************************************************************)
(* The standby is not the parent, and is fresh.                            *)
(***************************************************************************)

\* From the change of the active parent until it is no longer the standby.
Promoting ==
  \/ pc \in {"promote", "keep", "drop"}
  \/ my.standbys /\ pc \in {"choose", "write rloc", "write ext"}

Copying == {"copy", "copy rloc", "copy ext", "request"}

Apart ==
  /\ my.standbys
       => pc \notin {"setup", "loop", "idle", "compare", "promote"}
  /\ Promoting \/ pc \in {"drop stamp", "continue", "rename"}
       => my.parent = active /\ my.previous # active
  /\ standby.valid /\ ~Promoting /\ pc # "rename" => standby.rloc # active
  /\ pc \in Copying => standby.valid
  /\ pc \in {"copy ext", "request"} => my.target.rloc # active

LEMMA ApartInit == TrackingInit => Apart
BY DEF TrackingInit, Apart, Promoting, Copying

\* A response leaves the standby alone or makes another router the standby.
LEMMA ObserveApart ==
  ASSUME NEW rloc \in Router, NEW time, NEW better, Observe(rloc, time, better)
  PROVE  /\ active' = active
         /\ \/ standby' = standby
            \/ standby'.valid /\ standby'.rloc # active
BY DEF Observe, Takes

LEMMA ResponseApart ==
  ASSUME Apart, NEW rloc \in Router, NEW better,
         ParentResponse(rloc, better) \/ Scan(rloc, better)
  PROVE  Apart'
<1>1. /\ active' = active /\ my' = my
      /\ \/ standby' = standby
         \/ standby'.valid /\ standby'.rloc # active
  BY ObserveApart DEF ParentResponse, Scan
<1>2. CASE ParentResponse(rloc, better)
  <2>1. pc' = pc
    BY <1>2 DEF ParentResponse
  <2>. QED
    BY <1>1, <2>1 DEF Apart, Promoting, Copying
<1>3. CASE Scan(rloc, better)
  BY <1>1, <1>3 DEF Scan, Step, Apart, Promoting, Copying
<1>. QED
  BY <1>2, <1>3

LEMMA UpdateApart ==
  ASSUME TrackingTypeInv, Apart, Update
  PROVE  Apart'
<1>0. my \in Locals /\ standby \in Standby
  BY DEF TrackingTypeInv, TrackingTypeOK
<1>1. CASE \E p \in Rloc, known \in BOOLEAN :
             (known => p # NoRloc) /\ Begin(p, known)
  BY <1>0, <1>1 DEF Begin, Note, Step, Apart, Promoting, Copying, Locals
<1>2. CASE ChooseEntry
  BY <1>0, <1>2 DEF ChooseEntry, Note, Step, Apart, Promoting, Copying, Locals
<1>3. CASE WriteRloc \/ WriteExt
  BY <1>3 DEF WriteRloc, WriteExt, Step, Apart, Promoting, Copying
<1>4. CASE MarkActive
  BY <1>0, <1>4 DEF MarkActive, Step, Apart, Promoting, Copying, Locals
<1>5. CASE SameParent \/ LookupNothing \/ Tick \/ Scanned
  BY <1>5 DEF SameParent, LookupNothing, Tick, Scanned, Look, Step, Apart,
     Promoting, Copying
<1>6. CASE Promote
  BY <1>6 DEF Promote, Look, Step, Apart, Promoting, Copying
<1>7. CASE Keep
  BY <1>0, <1>7 DEF Keep, Note, Step, Apart, Promoting, Copying, Locals
<1>8. CASE Drop \/ Expire
  BY <1>0, <1>8 DEF Drop, Expire, Write, Step, Apart, Promoting, Copying,
     Standby
<1>9. CASE Continue \/ Rename
  BY <1>0, <1>9 DEF Continue, Rename, Write, Look, Step, Apart, Promoting,
     Copying, Standby
<1>10. CASE DropStamp \/ Stamp \/ Forget \/ Apply
  BY <1>0, <1>10 DEF DropStamp, Stamp, Forget, Apply, Write, Step, Apart,
     Promoting, Copying, Standby
<1>11. CASE Lookup
  BY <1>0, <1>11 DEF Lookup, Note, Step, Apart, Promoting, Copying, Locals
<1>12. CASE \E rloc \in Router, better \in BOOLEAN : Scan(rloc, better)
  BY <1>12, ResponseApart
<1>13. CASE Get
  BY <1>13 DEF Get, IsStale, Look, Step, Apart, Promoting, Copying
<1>14. CASE CopyRloc \/ CopyExt
  <2>1. /\ my' \in Locals /\ standby' = standby /\ active' = active
        /\ \A x \in {"parent", "previous", "standbys"} : my'[x] = my[x]
    BY <1>0, <1>14 DEF CopyRloc, CopyExt, Note, Locals, Pair, Standby
  <2>2. CASE CopyRloc
    <3>1. my'.target.rloc = standby.rloc
      BY <1>0, <2>2 DEF CopyRloc, Note, Locals, Pair
    <3>. QED
      BY <2>1, <2>2, <3>1 DEF CopyRloc, Note, Step, Apart, Promoting, Copying
  <2>3. CASE CopyExt
    <3>1. my'.target.rloc = my.target.rloc
      BY <1>0, <2>3 DEF CopyExt, Note, Locals, Pair
    <3>. QED
      BY <2>1, <2>3, <3>1 DEF CopyExt, Note, Step, Apart, Promoting, Copying
  <2>. QED
    BY <1>14, <2>2, <2>3
<1>15. CASE Finish
  BY <1>0, <1>15 DEF Finish, Note, Step, Apart, Promoting, Copying, Locals
<1>. QED
  BY <1>1, <1>2, <1>3, <1>4, <1>5, <1>6, <1>7, <1>8, <1>9, <1>10, <1>11, <1>12,
     <1>13, <1>14, <1>15 DEF Update

LEMMA ApartStep ==
  ASSUME TrackingTypeInv, Apart, [TrackingNext]_trackingVars
  PROVE  Apart'
<1>1. CASE UNCHANGED trackingVars
  BY <1>1 DEF trackingVars, Apart, Promoting, Copying
<1>2. CASE Loop \/ GetReady \/ Advance
  BY <1>2 DEF Loop, GetReady, Advance, Apart, Promoting, Copying
<1>. QED
  BY <1>1, <1>2, UpdateApart, ResponseApart DEF TrackingNext

\* The router that update() asks the stack to attach to is never the parent it
\* has, whatever responses came while the manager was following a new parent.
THEOREM TargetIsNeverActive == TrackingSpec => []TargetIsNotActive
<1>1. Apart => TargetIsNotActive
  BY DEF Apart, TargetIsNotActive
<1>. QED
  BY TypeInit, TypeStep, ApartInit, ApartStep, <1>1, PTL DEF TrackingSpec

\* Where update() has not yet dropped what is stale.
BeforeTick ==
  {"choose", "write rloc", "write ext", "compare", "promote", "keep", "drop",
   "drop stamp", "continue", "rename", "stamp", "forget", "lookup", "apply",
   "tick", "expire"}

\* The age that the manager's stamp shows.  It is the true one or, when an older
\* now_ms came to overwrite a response's stamp, at most MaxLag more; it is
\* bounded, and below the interval before update() took its time.
Shown == USub(now, standby.lastRefresh, Wrap)
Within(a, s) == a <= s /\ s <= a + MaxLag
Near == Within(age, Shown)
Bounded == Shown < RefreshInterval + MaxGap + Lag
Recent == Shown < RefreshInterval + Lag

\* Refreshed since update() took its time, or nearly outdated.
SinceUpdate == age <= Lag
Overdue == age + MaxLag >= RefreshInterval \/ SinceUpdate

Fresh ==
  /\ standby.valid /\ pc \notin {"rename", "stamp"}
       => Near /\ Bounded /\ (pc \notin BeforeTick => Recent)
  /\ standby.valid /\ pc = "expire" => Overdue
  /\ standby.valid /\ Promoting /\ pc # "promote"
       => standby.rloc = active \/ SinceUpdate
  /\ standby.valid /\ pc = "drop stamp" => SinceUpdate
  /\ pc = "stamp" => SinceUpdate

LEMMA WithinLag ==
  /\ \A a \in Nat : Within(a, a)
  /\ \A a, s \in Nat : a <= s /\ s <= MaxLag => Within(a, s)
BY Constants DEF Within

LEMMA FreshInit == TrackingInit => Fresh
BY DEF TrackingInit, Fresh

\* What moves neither the clock nor the standby's keeps the parts of Fresh.
LEMMA SameAge ==
  ASSUME now' = now, age' = age, my'.t = my.t,
         standby'.lastRefresh = standby.lastRefresh
  PROVE  /\ Near' = Near /\ Bounded' = Bounded /\ Recent' = Recent
         /\ Overdue' = Overdue /\ SinceUpdate' = SinceUpdate
BY DEF Near, Bounded, Recent, Overdue, SinceUpdate, Lag, Shown

LEMMA Numbers ==
  ASSUME TrackingTypeInv
  PROVE  /\ now \in Time /\ my.t \in Time /\ standby.lastRefresh \in Time
         /\ age \in Nat /\ Lag \in Nat /\ Lag <= MaxGap
         /\ pc # "idle" => Lag <= MaxLag
         /\ Shown \in Time /\ Shown \in Nat
<1>1. now \in Time /\ my.t \in Time /\ standby.lastRefresh \in Time
  BY DEF TrackingTypeInv, TrackingTypeOK, Locals, Standby
<1>2. Lag \in Time /\ Shown \in Time
  BY <1>1, SubTime DEF Lag, Shown
<1>. QED
  BY <1>1, <1>2, Constants DEF TrackingTypeInv, TrackingTypeOK, LagBounded, Time

\* The manager measures from update()'s time, age is measured from now.
LEMMA Measured ==
  ASSUME TrackingTypeInv, Near
  PROVE  /\ USub(my.t, standby.lastRefresh, Wrap) >= RefreshInterval => Overdue
         /\ ~(USub(my.t, standby.lastRefresh, Wrap) >= RefreshInterval) => Recent
<1>1. /\ now \in Time /\ my.t \in Time /\ standby.lastRefresh \in Time
      /\ age \in Nat /\ Lag \in Nat /\ Shown \in Nat
  BY Numbers
<1>2. Shown > Lag => USub(my.t, standby.lastRefresh, Wrap) = Shown - Lag
  BY <1>1, Constants DEF Shown, Lag, USub, Time
<1>3. USub(my.t, standby.lastRefresh, Wrap) \in Time
  BY <1>1, SubTime
<1>. QED
  BY <1>1, <1>2, <1>3, Constants
     DEF Near, Within, Overdue, Recent, SinceUpdate, Time

\* A response: the standby is as it was, or has just been heard of.
LEMMA ResponseFresh ==
  ASSUME TrackingTypeInv, Fresh, NEW rloc \in Router, NEW better,
         ParentResponse(rloc, better) \/ Scan(rloc, better)
  PROVE  Fresh'
<1>1. PICK time \in {now, my.t} : Observe(rloc, time, better)
  BY DEF ParentResponse, Scan
<1>2. /\ now' = now /\ my' = my /\ active' = active
      /\ pc' = pc \/ (pc = "scan" /\ pc' = "scanning")
  BY DEF ParentResponse, Scan, Step, Observe
<1>3. CASE standby' = standby /\ age' = age
  BY <1>2, <1>3, SameAge DEF Fresh, Promoting, BeforeTick
<1>4. CASE /\ standby' = [valid |-> TRUE, rloc |-> rloc, ext |-> rloc,
                          lastRefresh |-> time]
           /\ age' = USub(now, time, Wrap)
  <2>1. age' \in {0, Lag} /\ Lag' = Lag /\ Shown' = age'
    BY <1>1, <1>2, <1>4, Numbers, Constants DEF Lag, Shown, USub, Time
  <2>2. Near' /\ Bounded' /\ Recent' /\ SinceUpdate'
    <3>1. /\ Lag \in Nat /\ MaxLag \in Nat /\ MaxGap \in Nat
          /\ RefreshInterval \in Nat /\ RefreshInterval >= 1
      BY Numbers, Constants
    <3>2. Near'
      <4>1. age' \in Nat
        BY <2>1, <3>1
      <4>2. Within(age', age')
        BY <4>1, WithinLag
      <4>. QED
        BY <2>1, <4>2 DEF Near
    <3>3. Bounded'
      BY <2>1, <3>1 DEF Bounded
    <3>4. Recent'
      BY <2>1, <3>1 DEF Recent
    <3>5. SinceUpdate'
      BY <2>1, <3>1 DEF SinceUpdate
    <3>. QED
      BY <3>2, <3>3, <3>4, <3>5
  <2>. QED
    BY <2>2 DEF Fresh, Overdue
<1>. QED
  BY <1>1, <1>3, <1>4 DEF Observe

LEMMA AdvanceFresh ==
  ASSUME TrackingTypeInv, Fresh, Advance
  PROVE  Fresh'
<1>1. /\ now' = UAdd(now, 1, Wrap) /\ age' = Saturate(age + 1, AgeCap)
      /\ standby' = standby /\ my' = my /\ active' = active /\ pc' = pc
  BY DEF Advance
<1>2. Lag' = Lag + 1 /\ Lag' <= MaxGap /\ (pc # "idle" => Lag' <= MaxLag)
  BY <1>1, Numbers, Constants DEF Advance, Lag, UAdd, USub, Time
<1>3. CASE ~standby.valid \/ pc \in {"rename", "stamp"}
  <2>1. SinceUpdate => SinceUpdate'
    BY <1>1, <1>2, Numbers, Constants DEF SinceUpdate, Saturate, AgeCap
  <2>. QED
    BY <1>1, <1>3, <2>1 DEF Fresh, Promoting
<1>4. CASE standby.valid /\ pc \notin {"rename", "stamp"}
  <2>0. Near /\ Bounded /\ (pc \notin BeforeTick => Recent)
    BY <1>4 DEF Fresh
  <2>1. Shown + 1 < AgeCap
    <3>1. CASE pc = "idle"
      BY <3>1, <2>0, <1>2, Numbers, Constants DEF BeforeTick, Recent, AgeCap
    <3>2. CASE pc # "idle"
      BY <3>2, <2>0, <1>2, Numbers, Constants DEF Bounded, AgeCap
    <3>. QED
      BY <3>1, <3>2
  <2>2. age' = age + 1
    BY <1>1, <2>0, <2>1, Numbers, Constants DEF Near, Within, Saturate, AgeCap
  <2>3. Shown' = Shown + 1
    BY <1>1, <2>1, Numbers, Constants DEF Shown, UAdd, USub, Time, AgeCap
  <2>4. /\ Near' /\ Bounded' /\ (Recent => Recent')
        /\ (SinceUpdate => SinceUpdate') /\ (Overdue => Overdue')
    BY <1>2, <2>0, <2>2, <2>3, Numbers, Constants
       DEF Near, Within, Bounded, Recent, SinceUpdate, Overdue
  <2>. QED
    BY <1>1, <1>4, <2>0, <2>4 DEF Fresh, Promoting
<1>. QED
  BY <1>3, <1>4

LEMMA UpdateFresh ==
  ASSUME TrackingTypeInv, Apart, Fresh, Update
  PROVE  Fresh'
<1>0. my \in Locals /\ standby \in Standby
  BY DEF TrackingTypeInv, TrackingTypeOK
<1>1. CASE \E p \in Rloc, known \in BOOLEAN :
             (known => p # NoRloc) /\ Begin(p, known)
  <2>1. /\ pc = "idle" /\ pc' \in {"choose", "compare"} /\ now' = now
        /\ my'.t = now /\ my'.standbys = my.standbys
        /\ standby' = standby /\ age' = age
    BY <1>0, <1>1 DEF Begin, Note, Step, Locals
  <2>2. ~Promoting'
    BY <2>1 DEF Apart, Promoting
  <2>3. Shown' = Shown /\ (Near => Near')
    BY <2>1 DEF Near, Shown
  <2>4. Recent => Bounded'
    BY <2>1, <2>3, Numbers, Constants DEF Recent, Bounded, Lag, USub, Time
  <2>. QED
    BY <2>1, <2>2, <2>3, <2>4 DEF Fresh, BeforeTick
<1>2. CASE ChooseEntry
  BY <1>0, <1>2, SameAge DEF ChooseEntry, Note, Step, Fresh, Promoting,
     BeforeTick, Locals
<1>3. CASE WriteRloc \/ WriteExt
  BY <1>3, SameAge DEF WriteRloc, WriteExt, Step, Fresh, Promoting, BeforeTick
<1>4. CASE MarkActive
  BY <1>0, <1>4, SameAge DEF MarkActive, Step, Fresh, Promoting, BeforeTick,
     Apart, Locals
<1>5. CASE SameParent \/ LookupNothing \/ Scanned
  BY <1>5, SameAge DEF SameParent, LookupNothing, Scanned, Look, Step, Fresh,
     Promoting, BeforeTick
<1>6. CASE Promote
  BY <1>6, SameAge DEF Promote, Look, Step, Fresh, Promoting, BeforeTick, Apart
<1>7. CASE Keep
  BY <1>0, <1>7, SameAge DEF Keep, Note, Step, Fresh, Promoting, BeforeTick,
     Locals
<1>8. CASE Drop \/ Expire
  <2>1. ~standby'.valid /\ pc' \in {"drop stamp", "scan"}
    BY <1>0, <1>8 DEF Drop, Expire, Write, Step, Standby
  <2>. QED
    BY <2>1 DEF Fresh
<1>9. CASE Continue
  <2>1. CASE my.previous # NoRloc
    BY <1>9, <2>1 DEF Continue, Write, Step, Fresh, Promoting
  <2>2. CASE my.previous = NoRloc
    BY <1>9, <2>2, SameAge DEF Continue, Look, Step, Fresh, Promoting,
       BeforeTick
  <2>. QED
    BY <2>1, <2>2
<1>10. CASE Rename
  <2>1. pc' = "stamp" /\ age' = Lag /\ Lag' = Lag
    BY <1>10 DEF Rename, Step, Lag
  <2>2. SinceUpdate'
    BY <2>1, Numbers DEF SinceUpdate
  <2>. QED
    BY <2>1, <2>2 DEF Fresh, Promoting
<1>11. CASE DropStamp \/ Stamp
  <2>1. /\ standby'.lastRefresh = my.t /\ standby'.valid = standby.valid
        /\ age' = age /\ now' = now /\ my' = my
        /\ pc \in {"drop stamp", "stamp"} /\ pc' \in {"continue", "forget"}
    BY <1>0, <1>11 DEF DropStamp, Stamp, Write, Step, Standby
  <2>2. Lag' = Lag /\ Shown' = Lag
    BY <2>1 DEF Lag, Shown
  <2>3. standby.valid => SinceUpdate
    BY <2>1 DEF Fresh
  <2>4. ASSUME SinceUpdate
        PROVE  Near' /\ Bounded'
    <3>1. /\ Lag \in Nat /\ age \in Nat /\ Lag <= MaxLag
          /\ MaxLag \in Nat /\ MaxGap \in Nat
          /\ RefreshInterval \in Nat /\ RefreshInterval >= 1
      BY <2>1, Numbers, Constants
    <3>2. Near'
      <4>1. Within(age, Lag)
        BY <2>4, <3>1, WithinLag DEF SinceUpdate
      <4>. QED
        BY <2>1, <2>2, <4>1 DEF Near
    <3>3. Bounded'
      BY <2>2, <3>1 DEF Bounded
    <3>. QED
      BY <3>2, <3>3
  <2>. QED
    BY <2>1, <2>3, <2>4 DEF Fresh, Promoting, BeforeTick
<1>12. CASE Forget
  BY <1>0, <1>12, SameAge DEF Forget, Write, Step, Fresh, Promoting, BeforeTick,
     Standby
<1>13. CASE Lookup
  BY <1>0, <1>13, SameAge DEF Lookup, Note, Step, Fresh, Promoting, BeforeTick,
     Locals
<1>14. CASE Apply
  BY <1>0, <1>14, SameAge DEF Apply, Write, Step, Fresh, Promoting, BeforeTick,
     Standby
<1>15. CASE Tick
  <2>1. /\ pc = "tick" /\ now' = now /\ my' = my /\ standby' = standby
        /\ age' = age
        /\ \/ pc' = "expire" /\ IsStale(my.t)
           \/ pc' = "scan" /\ ~IsStale(my.t)
    BY <1>15 DEF Tick, Look, Step
  <2>2. standby.valid => Near /\ Bounded
    BY <2>1 DEF Fresh
  <2>3. standby.valid => /\ IsStale(my.t) => Overdue
                         /\ ~IsStale(my.t) => Recent
    BY <2>2, Measured DEF IsStale
  <2>. QED
    BY <2>1, <2>2, <2>3, SameAge DEF Fresh, Promoting, BeforeTick
<1>16. CASE \E rloc \in Router, better \in BOOLEAN : Scan(rloc, better)
  BY <1>16, ResponseFresh
<1>17. CASE Get
  BY <1>17, SameAge DEF Get, Look, Step, Fresh, Promoting, BeforeTick
<1>18. CASE CopyRloc \/ CopyExt
  BY <1>0, <1>18, SameAge DEF CopyRloc, CopyExt, Note, Step, Fresh, Promoting,
     BeforeTick, Locals
<1>19. CASE Finish
  BY <1>0, <1>19, SameAge DEF Finish, Note, Step, Fresh, Promoting, BeforeTick,
     Locals
<1>. QED
  BY <1>1, <1>2, <1>3, <1>4, <1>5, <1>6, <1>7, <1>8, <1>9, <1>11, <1>13, <1>14,
     <1>15, <1>16, <1>17, <1>18, <1>19, <1>10, <1>12 DEF Update

LEMMA FreshStep ==
  ASSUME TrackingTypeInv, Apart, Fresh, [TrackingNext]_trackingVars
  PROVE  Fresh'
<1>1. CASE UNCHANGED trackingVars
  BY <1>1, SameAge DEF trackingVars, Fresh, Promoting
<1>2. CASE Loop \/ GetReady
  BY <1>2, SameAge DEF Loop, GetReady, Fresh, Promoting, BeforeTick
<1>. QED
  BY <1>1, <1>2, UpdateFresh, ResponseFresh, AdvanceFresh DEF TrackingNext

\* What get_standby() hands out has been heard of within the interval before
\* update() took its time, although that time was taken before the responses
\* of the same update() came in and the clock may have wrapped since.
THEOREM TargetIsAlwaysFresh == TrackingSpec => []TargetIsFresh
<1>1. TrackingTypeInv /\ Apart /\ Fresh => TargetIsFresh
  <2>. SUFFICES ASSUME TrackingTypeInv, Apart, Fresh, pc \in Copying
                PROVE  age < RefreshInterval + Lag
    BY DEF TargetIsFresh, Copying
  <2>1. Near /\ Recent
    BY DEF Apart, Fresh, Copying, BeforeTick
  <2>. QED
    BY <2>1, Numbers, Constants DEF Near, Within, Recent
<1>. QED
  BY TypeInit, TypeStep, ApartInit, ApartStep, FreshInit, FreshStep, <1>1, PTL
     DEF TrackingSpec

\* A standby known before update() took its time, and refreshed within the
\* interval less an update(), is only forgotten to follow the parent to it,
\* although promoting it and expiring it each take a test and a later write, and
\* although a response's stamp may be overwritten by an older one.
THEOREM KnownStandbyIsKept == TrackingSpec => KnownStandbyKept
<1> DEFINE Step1 == standby.valid /\ Lag < age /\ age + MaxLag < RefreshInterval
                      => standby'.valid \/ standby.rloc = active
<1>1. TrackingTypeInv /\ Fresh /\ [TrackingNext]_trackingVars
        => [Step1]_trackingVars
  <2>. SUFFICES ASSUME TrackingTypeInv, Fresh, TrackingNext, standby.valid,
                       ~standby'.valid, Lag < age,
                       age + MaxLag < RefreshInterval
                PROVE  standby.rloc = active
    OBVIOUS
  <2>0. ~SinceUpdate /\ ~Overdue
    BY Numbers, Constants DEF SinceUpdate, Overdue
  <2>1. standby' # standby
    OBVIOUS
  <2>2. Drop \/ Expire
    <3>1. ~Loop /\ ~GetReady /\ ~Advance
      BY <2>1 DEF Loop, GetReady, Advance
    <3>2. \A rloc \in Router, better \in BOOLEAN :
            ~ParentResponse(rloc, better) /\ ~Scan(rloc, better)
      BY ObserveApart DEF ParentResponse, Scan
    <3>3. Update
      BY <3>1, <3>2 DEF TrackingNext
    <3>4. standby \in Standby
      BY DEF TrackingTypeInv, TrackingTypeOK
    <3>5. /\ ~DropStamp /\ ~Continue /\ ~Rename /\ ~Stamp /\ ~Forget
          /\ ~Apply
      BY <2>1, <3>4 DEF DropStamp, Continue, Rename, Stamp, Forget, Apply,
         Write, Look, Standby
    <3>6. /\ ~ChooseEntry /\ ~WriteRloc /\ ~WriteExt /\ ~SameParent
          /\ ~MarkActive /\ ~Promote /\ ~Keep /\ ~Lookup /\ ~LookupNothing
          /\ ~Tick /\ ~Scanned /\ ~Get /\ ~CopyRloc /\ ~CopyExt /\ ~Finish
          /\ \A p, known : ~Begin(p, known)
      BY <2>1 DEF ChooseEntry, WriteRloc, WriteExt, SameParent, MarkActive,
         Promote, Keep, Lookup, LookupNothing, Tick, Scanned, Get, CopyRloc,
         CopyExt, Finish, Begin, Note, Look
    <3>. QED
      BY <3>2, <3>3, <3>5, <3>6 DEF Update
  <2>3. CASE Drop
    BY <2>0, <2>3 DEF Drop, Write, Step, Fresh, Promoting
  <2>4. CASE Expire
    BY <2>0, <2>4 DEF Expire, Write, Step, Fresh
  <2>. QED
    BY <2>2, <2>3, <2>4
<1>. QED
  BY TypeInit, TypeStep, ApartInit, ApartStep, FreshInit, FreshStep, <1>1, PTL
     DEF TrackingSpec, KnownStandbyKept

-----------------------------------------------------------------------------
(***************************************************************************)
(* Addresses.                                                              *)
(***************************************************************************)
Right(pair) == pair.ext \in {pair.rloc, NoRloc}

Authentic ==
  /\ pc \notin {"stamp", "forget"} => Right(standby)
  /\ \A i \in Slot : Right(cache[i]) \/ (pc = "write ext" /\ i = my.slot)
  /\ pc = "write ext" => cache[my.slot].rloc = my.rloc
  /\ pc \in {"choose", "write rloc", "write ext"} /\ my.standbys
       => standby.ext = my.rloc
  /\ pc = "apply" => cache[my.slot].rloc = standby.rloc
  /\ pc = "copy ext" => my.target.rloc = standby.rloc
  /\ pc = "copy rloc" => my.target.ext = standby.ext
  /\ pc = "request" => Right(my.target)

AuthenticUnlessRaced == ~raced => Authentic

LEMMA AuthenticInit == TrackingInit => AuthenticUnlessRaced
BY DEF TrackingInit, AuthenticUnlessRaced, Authentic, Right, NoPair

\* What leaves the standby's and the cache's pairs alone, by the next access.
LEMMA SamePairs ==
  ASSUME Authentic, cache' = cache, pc \notin {"write ext", "stamp", "forget"},
         standby'.rloc = standby.rloc, standby'.ext = standby.ext,
         pc' \notin {"choose", "write rloc", "write ext", "apply", "copy ext",
                    "copy rloc", "request"}
  PROVE  Authentic'
BY DEF Authentic, Right

\* A response outside the exposed accesses.
LEMMA ResponseAuthentic ==
  ASSUME TrackingTypeInv, Authentic, NEW rloc \in Router, NEW better,
         \/ ParentResponse(rloc, better) /\ ~Exposed
         \/ Scan(rloc, better)
  PROVE  Authentic'
<1>0. cache \in [Slot -> Pair]
  BY DEF TrackingTypeInv, TrackingTypeOK
<1>1. PICK time \in {now, my.t} : Observe(rloc, time, better)
  BY DEF ParentResponse, Scan
<1>2. /\ my' = my
      /\ pc' \notin {"write ext", "apply", "copy rloc", "copy ext"}
      /\ ~(pc' \in {"choose", "write rloc"} /\ my.standbys)
      /\ pc # "write ext"
      /\ pc' \in {"stamp", "forget"} <=> pc \in {"stamp", "forget"}
      /\ pc' = "request" => pc = "request"
  BY DEF ParentResponse, Scan, Step, Exposed
<1>3. \A i \in Slot : Right(cache[i])'
  <2>1. PICK i \in Entries(rloc) :
          cache' = [cache EXCEPT ![i] = [rloc |-> rloc, ext |-> rloc]]
    BY <1>1 DEF Observe
  <2>2. \A j \in Slot : Right(cache[j])
    BY <1>2 DEF Authentic
  <2>. QED
    BY <1>0, <2>1, <2>2 DEF Right
<1>4. pc \notin {"stamp", "forget"} => Right(standby)'
  <2>1. CASE Takes(rloc, time, better)
    <3>1. standby' = [valid |-> TRUE, rloc |-> rloc, ext |-> rloc,
                      lastRefresh |-> time]
      BY <1>1, <2>1 DEF Observe
    <3>. QED
      BY <3>1 DEF Right
  <2>2. CASE ~Takes(rloc, time, better)
    BY <1>1, <2>2 DEF Observe, Authentic, Right
  <2>. QED
    BY <2>1, <2>2
<1>5. pc = "request" => Right(my.target)'
  BY <1>2 DEF Authentic, Right
<1>. QED
  BY <1>2, <1>3, <1>4, <1>5 DEF Authentic

LEMMA UpdateAuthentic ==
  ASSUME TrackingTypeInv, Apart, Authentic, Update
  PROVE  Authentic'
<1>0. my \in Locals /\ standby \in Standby /\ cache \in [Slot -> Pair]
  BY DEF TrackingTypeInv, TrackingTypeOK
<1>1. CASE \E p \in Rloc, known \in BOOLEAN :
             (known => p # NoRloc) /\ Begin(p, known)
  <2>1. /\ pc = "idle" /\ pc' \in {"choose", "compare"} /\ cache' = cache
        /\ standby' = standby /\ my'.standbys = my.standbys
    BY <1>0, <1>1 DEF Begin, Note, Step, Locals
  <2>2. ~my'.standbys
    BY <2>1 DEF Apart
  <2>. QED
    BY <2>1, <2>2 DEF Authentic, Right
<1>2. CASE ChooseEntry
  <2>1. /\ pc = "choose" /\ pc' = "write rloc" /\ cache' = cache
        /\ standby' = standby /\ my'.standbys = my.standbys
        /\ my'.rloc = my.rloc
    BY <1>0, <1>2 DEF ChooseEntry, Note, Step, Locals
  <2>. QED
    BY <2>1 DEF Authentic, Right
<1>3. CASE WriteRloc
  <2>1. /\ pc = "write rloc" /\ pc' = "write ext" /\ my' = my
        /\ standby' = standby /\ cache'[my.slot].rloc = my.rloc
        /\ \A i \in Slot \ {my.slot} : cache'[i] = cache[i]
    BY <1>0, <1>3 DEF WriteRloc, Step, Locals, Pair
  <2>. QED
    BY <2>1 DEF Authentic, Right
<1>4. CASE WriteExt
  <2>1. /\ pc = "write ext" /\ pc' \in {"drop", "compare"} /\ my' = my
        /\ standby' = standby /\ cache'[my.slot].rloc = cache[my.slot].rloc
        /\ cache'[my.slot].ext = IF my.standbys THEN standby.ext ELSE my.rloc
        /\ \A i \in Slot \ {my.slot} : cache'[i] = cache[i]
    BY <1>0, <1>4 DEF WriteExt, Step, Locals, Pair
  <2>2. cache'[my.slot].ext = cache'[my.slot].rloc
    BY <2>1 DEF Authentic
  <2>. QED
    BY <2>1, <2>2 DEF Authentic, Right
<1>5. CASE SameParent \/ MarkActive \/ Promote \/ LookupNothing \/ Tick
           \/ Scanned
  BY <1>5, SamePairs DEF SameParent, MarkActive, Promote, LookupNothing, Tick,
     Scanned, Look, Step
<1>6. CASE Keep
  <2>1. /\ pc = "keep" /\ cache' = cache /\ standby' = standby
        /\ my'.rloc = standby.rloc
        /\ pc' = IF standby.ext # NoRloc THEN "choose" ELSE "drop"
    BY <1>0, <1>6 DEF Keep, Note, Step, Locals
  <2>. QED
    BY <2>1 DEF Authentic, Right
<1>7. CASE Drop \/ DropStamp \/ Expire
  <2>1. standby'.rloc = standby.rloc /\ standby'.ext = standby.ext
    BY <1>0, <1>7 DEF Drop, DropStamp, Expire, Write, Standby
  <2>. QED
    BY <1>7, <2>1, SamePairs DEF Drop, DropStamp, Expire, Write, Step
<1>8. CASE Continue
  <2>1. standby'.rloc = standby.rloc /\ standby'.ext = standby.ext
    BY <1>0, <1>8 DEF Continue, Write, Look, Standby
  <2>. QED
    BY <1>8, <2>1, SamePairs DEF Continue, Write, Look, Step
<1>9. CASE Rename \/ Stamp
  BY <1>9 DEF Rename, Stamp, Write, Step, Authentic, Right
<1>10. CASE Forget
  <2>1. standby'.ext = NoRloc
    BY <1>0, <1>10 DEF Forget, Write, Standby
  <2>. QED
    BY <1>10, <2>1 DEF Forget, Write, Step, Authentic, Right
<1>11. CASE Lookup
  <2>1. PICK i \in Hits(standby.rloc) :
          Note("lookup", "apply", [my EXCEPT !.slot = i])
    BY <1>11 DEF Lookup
  <2>2. i \in Slot /\ cache[i].rloc = standby.rloc /\ my'.slot = i
    BY <1>0, <2>1 DEF Hits, Note, Locals
  <2>. QED
    BY <2>1, <2>2 DEF Note, Step, Authentic, Right
<1>12. CASE Apply
  <2>1. /\ standby'.ext = cache[my.slot].ext /\ standby'.rloc = standby.rloc
        /\ my.slot \in Slot
    BY <1>0, <1>12 DEF Apply, Write, Standby, Locals
  <2>2. Right(standby)'
    BY <1>12, <2>1 DEF Apply, Write, Step, Authentic, Right
  <2>. QED
    BY <1>12, <2>2 DEF Apply, Write, Step, Authentic, Right
<1>13. CASE \E rloc \in Router, better \in BOOLEAN : Scan(rloc, better)
  BY <1>13, ResponseAuthentic
<1>14. CASE Get
  BY <1>14, SamePairs DEF Get, Look, Step
<1>15. CASE CopyRloc
  <2>1. /\ my'.target.rloc = standby.rloc /\ my'.target.ext = my.target.ext
        /\ cache' = cache /\ standby' = standby
        /\ \/ pc = "copy" /\ pc' = "copy ext"
           \/ pc = "copy rloc" /\ pc' = "request"
    BY <1>0, <1>15 DEF CopyRloc, Note, Step, Locals, Pair
  <2>. QED
    BY <2>1 DEF Authentic, Right
<1>16. CASE CopyExt
  <2>1. /\ my'.target.ext = standby.ext /\ my'.target.rloc = my.target.rloc
        /\ cache' = cache /\ standby' = standby
        /\ \/ pc = "copy" /\ pc' = "copy rloc"
           \/ pc = "copy ext" /\ pc' = "request"
    BY <1>0, <1>16 DEF CopyExt, Note, Step, Locals, Pair
  <2>. QED
    BY <2>1 DEF Authentic, Right
<1>17. CASE Finish
  <2>1. /\ pc \in {"done", "request"} /\ pc' = "loop" /\ cache' = cache
        /\ standby' = standby
    BY <1>17 DEF Finish, Note, Step
  <2>. QED
    BY <2>1, SamePairs
<1>. QED
  BY <1>1, <1>2, <1>3, <1>4, <1>5, <1>6, <1>7, <1>8, <1>10, <1>11, <1>12, <1>13,
     <1>14, <1>15, <1>16, <1>17, <1>9 DEF Update

LEMMA AuthenticStep ==
  ASSUME TrackingTypeInv, Apart, AuthenticUnlessRaced,
         [TrackingNext]_trackingVars
  PROVE  AuthenticUnlessRaced'
<1>. SUFFICES ASSUME ~raced' PROVE Authentic'
  BY DEF AuthenticUnlessRaced
<1>1. CASE UNCHANGED trackingVars
  BY <1>1 DEF trackingVars, AuthenticUnlessRaced, Authentic, Right
<1>2. CASE Loop \/ GetReady \/ Advance
  BY <1>2 DEF Loop, GetReady, Advance, AuthenticUnlessRaced, Authentic, Right
<1>3. CASE Update
  <2>1. raced' = raced
    BY <1>3 DEF Update, ChooseEntry, WriteRloc, WriteExt, SameParent,
       MarkActive, Promote, Keep, Drop, DropStamp, Continue, Rename, Stamp,
       Forget, Lookup, LookupNothing, Apply, Tick, Expire, Scan, Scanned, Get, CopyRloc, CopyExt, Finish,
       Begin, Look, Note, Write, Step
  <2>. QED
    BY <1>3, <2>1, UpdateAuthentic DEF AuthenticUnlessRaced
<1>4. CASE \E rloc \in Router, better \in BOOLEAN : ParentResponse(rloc, better)
  <2>1. PICK rloc \in Router, better \in BOOLEAN : ParentResponse(rloc, better)
    BY <1>4
  <2>2. ~raced /\ ~Exposed
    BY <2>1 DEF ParentResponse
  <2>. QED
    BY <2>1, <2>2, ResponseAuthentic DEF AuthenticUnlessRaced
<1>. QED
  BY <1>1, <1>2, <1>3, <1>4 DEF TrackingNext

\* A failover request pairs a router with its own address, or with none, as
\* long as no response fell between the halves of an access to such a pair: no
\* other interleaving of the two tasks can mix two routers up.
THEOREM TargetIsAuthentic == TrackingSpec => []TargetIsAuthenticUnlessRaced
<1>1. AuthenticUnlessRaced => TargetIsAuthenticUnlessRaced
  BY DEF AuthenticUnlessRaced, Authentic, Right, TargetIsAuthenticUnlessRaced
<1>. QED
  BY TypeInit, TypeStep, ApartInit, ApartStep, AuthenticInit, AuthenticStep,
     <1>1, PTL DEF TrackingSpec
=============================================================================
