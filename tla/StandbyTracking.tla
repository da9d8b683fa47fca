-------------------------- MODULE StandbyTracking --------------------------
(***************************************************************************)
(* The candidate manager between two tasks: update() in ESPHome's main     *)
(* loop and parent_response_callback() in OpenThread's task                *)
(* (src/components/biparental_ed/biparental_ed.cpp, candidate_manager.cpp).*)
(*                                                                         *)
(* The manager has no lock of its own.  The callback runs to its end once  *)
(* it runs (one core; OpenThread's task preempts the main loop and does    *)
(* not block in it) and may come between any two accesses of update() to   *)
(* the manager, except while update() holds the OpenThread lock for the    *)
(* neighbour scan.  One action below is one access; pc names the next.     *)
(*                                                                         *)
(* An address is named by the router it belongs to, so a pair of RLOC16    *)
(* and address is right when both are the same.  Of a score remains        *)
(* whether it beats the standby's by the hysteresis.  Which entry a full   *)
(* cache gives up is the matter of ExtAddressCache; here it is any.        *)
(***************************************************************************)
EXTENDS UnsignedArithmetic

CONSTANTS
  Router, NoRloc,   \* RLOC16s; NoRloc also stands for a missing address
  CacheSize,        \* entries of ext_address_cache_
  Wrap,             \* the uint32_t millisecond clock has Wrap values
  MaxGap,           \* bound: milliseconds from one update() to the next
  MaxLag,           \* bound: milliseconds that update() takes
  RefreshInterval   \* standby_refresh_interval_ms_

ASSUME TrackingAssumption ==
  /\ NoRloc \notin Router
  /\ CacheSize \in Nat \ {0}
  /\ {Wrap, MaxGap, MaxLag, RefreshInterval} \subseteq Nat \ {0}
  /\ MaxLag <= MaxGap
  /\ RefreshInterval + MaxGap + MaxLag <= Wrap

VARIABLES
  now,         \* the present millis()
  ready,       \* whether OpenThread's lock is initialised
  registered,  \* parent_response_callback_registered_
  active,      \* active_parent_rloc16_
  standby,     \* standby_candidate_; ext is NoRloc unless has_ext_address
  cache,       \* ext_address_cache_
  pc,          \* the next access of the main loop
  my,          \* the main loop's locals, see Locals
  age,         \* history: milliseconds since the standby was last refreshed:
               \* since its response came, or since the now_ms as of which
               \* it was found by a scan or stopped being the parent
  raced        \* history: whether a response arrived when half of an access
               \* to a pair of RLOC16 and address was done

trackingVars ==
  <<now, ready, registered, active, standby, cache, pc, my, age, raced>>

Rloc == Router \cup {NoRloc}
Slot == 1 .. CacheSize
Time == 0 .. Wrap - 1
AgeCap == RefreshInterval + MaxGap + MaxLag   \* bound: age counts up to here

Standby == [valid: BOOLEAN, rloc: Rloc, ext: Rloc, lastRefresh: Time]
Pair == [rloc: Rloc, ext: Rloc]
NoPair == [rloc |-> NoRloc, ext |-> NoRloc]

Locals ==
  [t: Time,            \* update()'s now_ms
   parent: Rloc,       \* metrics.parent_rloc16, NoRloc when invalid
   previous: Rloc,     \* previous_active_rloc16
   rloc: Rloc,         \* the router remember_ext_address() is called for,
   standbys: BOOLEAN,  \* whether with a pointer into standby_candidate_,
   slot: Slot,         \* and the cache entry in use
   target: Pair]       \* the copy that get_standby() makes

Label ==
  {"setup", "loop", "idle", "choose", "write rloc", "write ext", "compare",
   "promote", "keep", "drop", "drop stamp", "continue", "rename", "stamp",
   "forget", "lookup", "apply", "tick", "expire", "scan", "scanning", "get",
   "copy", "copy rloc", "copy ext", "done", "request"}

Lag == USub(now, my.t, Wrap)

\* Where the main loop has done one half of an access to a pair.
Exposed ==
  \/ pc \in {"write ext", "apply", "copy rloc", "copy ext"}
  \/ pc \in {"choose", "write rloc"} /\ my.standbys

-----------------------------------------------------------------------------
(***************************************************************************)
(* What both tasks do.                                                     *)
(***************************************************************************)
Hits(rloc) == { i \in Slot : cache[i].rloc = rloc }

\* Slip: the search runs one past the end.
EntriesPastEnd(rloc) ==
  IF Hits(rloc) # {} THEN Hits(rloc) ELSE Slot \cup {CacheSize + 1}

\* Where remember_ext_address() puts rloc.
Entries(rloc) ==
  IF Hits(rloc) # {} THEN Hits(rloc)
  ELSE IF Hits(NoRloc) # {} THEN Hits(NoRloc) ELSE Slot

IsStale(time) ==
  \/ ~standby.valid
  \/ USub(time, standby.lastRefresh, Wrap) >= RefreshInterval

\* Slip: the active parent's own response is taken.
TakesAny(rloc, time, better) ==
  IsStale(time) \/ rloc = standby.rloc \/ better

\* Whether a response of rloc refreshes the standby or replaces it.
Takes(rloc, time, better) ==
  /\ rloc # active
  /\ IsStale(time) \/ rloc = standby.rloc \/ better

\* observe_parent_response() with the router's own address, all of it
Observe(rloc, time, better) ==
  /\ \E i \in Entries(rloc) :
       cache' = [cache EXCEPT ![i] = [rloc |-> rloc, ext |-> rloc]]
  /\ IF Takes(rloc, time, better)
     THEN /\ standby' = [valid |-> TRUE, rloc |-> rloc, ext |-> rloc,
                         lastRefresh |-> time]
          /\ age' = USub(now, time, Wrap)
     ELSE UNCHANGED <<standby, age>>
  /\ UNCHANGED active

-----------------------------------------------------------------------------
(***************************************************************************)
(* OpenThread and the clock.                                               *)
(***************************************************************************)
Advance ==
  /\ Lag < IF pc = "idle" THEN MaxGap ELSE MaxLag
  /\ now' = UAdd(now, 1, Wrap)
  /\ age' = Saturate(age + 1, AgeCap)
  /\ UNCHANGED <<ready, registered, active, standby, cache, pc, my, raced>>

GetReady ==
  /\ ~ready
  /\ ready' = TRUE
  /\ UNCHANGED <<now, registered, active, standby, cache, pc, my, age, raced>>

ParentResponse(rloc, better) ==
  /\ registered
  /\ pc # "scanning"
  /\ Observe(rloc, now, better)
  /\ raced' = (raced \/ Exposed)
  /\ UNCHANGED <<now, ready, registered, pc, my>>

-----------------------------------------------------------------------------
(***************************************************************************)
(* The main loop: setup() and loop(), then update().                       *)
(***************************************************************************)
\* Slip: only setup() registers the callback.
LoopOnce ==
  /\ pc \in {"setup", "loop", "idle"}
  /\ registered' = IF pc = "setup" THEN ready ELSE registered
  /\ pc' = "idle"
  /\ UNCHANGED <<now, ready, active, standby, cache, my, age, raced>>

\* setup(), and loop() for as long as the callback is not registered
Loop ==
  /\ pc \in {"setup", "loop", "idle"}
  /\ registered' = ready
  /\ pc' = "idle"
  /\ UNCHANGED <<now, ready, active, standby, cache, my, age, raced>>

\* update() goes on from one access to the next: it looks at the manager,
\* takes a note in its locals, or writes to the standby.
Step(from, to) ==
  /\ pc = from
  /\ pc' = to
  /\ UNCHANGED <<now, ready, registered, raced>>

Look(from, to) ==
  Step(from, to) /\ UNCHANGED <<active, standby, cache, my, age>>

Note(from, to, locals) ==
  Step(from, to) /\ my' = locals /\ UNCHANGED <<active, standby, cache, age>>

Write(from, to, candidate) ==
  Step(from, to) /\ standby' = candidate /\ UNCHANGED <<active, cache, my, age>>

\* update() takes the time, then reads the metrics.
Begin(p, known) ==
  Note("idle", IF known THEN "choose" ELSE "compare",
       [my EXCEPT !.t = now, !.parent = p, !.rloc = p])

\* remember_ext_address(): the search,
ChooseEntry ==
  \E i \in Entries(my.rloc) :
    Note("choose", "write rloc", [my EXCEPT !.slot = i])

\* the RLOC16, and the address from where it was said to be
WriteRloc ==
  /\ Step("write rloc", "write ext")
  /\ cache' = [cache EXCEPT ![my.slot].rloc = my.rloc]
  /\ UNCHANGED <<active, standby, my, age>>

WriteExt ==
  /\ Step("write ext", IF my.standbys THEN "drop" ELSE "compare")
  /\ cache' = [cache EXCEPT
                 ![my.slot].ext = IF my.standbys THEN standby.ext ELSE my.rloc]
  /\ UNCHANGED <<active, standby, my, age>>

SameParent == my.parent \in {NoRloc, active} /\ Look("compare", "tick")

\* mark_failover_complete(): the new active parent
MarkActive ==
  /\ my.parent \notin {NoRloc, active}
  /\ Step("compare", "promote")
  /\ active' = my.parent
  /\ my' = [my EXCEPT !.previous = active]
  /\ UNCHANGED <<standby, cache, age>>

\* Slip: whatever the standby is, it is dropped.
PromoteAnyone ==
  Look("promote", IF standby.valid THEN "keep" ELSE "continue")

\* stops being the standby,
Promote ==
  Look("promote", IF standby.valid /\ standby.rloc = my.parent
                  THEN "keep" ELSE "continue")

\* whose address is remembered;
Keep ==
  Note("keep", IF standby.ext # NoRloc THEN "choose" ELSE "drop",
       [my EXCEPT !.rloc = standby.rloc, !.standbys = TRUE])

Drop == Write("drop", "drop stamp", [standby EXCEPT !.valid = FALSE])

DropStamp ==
  Write("drop stamp", "continue", [standby EXCEPT !.lastRefresh = my.t])

\* the previous active parent becomes the standby: valid,
Continue ==
  IF my.previous # NoRloc
  THEN Write("continue", "rename", [standby EXCEPT !.valid = TRUE])
  ELSE Look("continue", "tick")

\* by its RLOC16,
Rename ==
  /\ Step("rename", "stamp")
  /\ standby' = [standby EXCEPT !.rloc = my.previous]
  /\ age' = Lag
  /\ UNCHANGED <<active, cache, my>>

\* fresh as of now_ms, whatever the standby is by now,
Stamp == Write("stamp", "forget", [standby EXCEPT !.lastRefresh = my.t])

\* Slip: has_ext_address is not reset.
ForgetNothing == Look("forget", "lookup")

\* and without an address
Forget == Write("forget", "lookup", [standby EXCEPT !.ext = NoRloc])

\* unless the cache has one.
Lookup ==
  /\ standby.ext = NoRloc
  /\ \E i \in Hits(standby.rloc) :
       Note("lookup", "apply", [my EXCEPT !.slot = i])

LookupNothing ==
  /\ standby.ext # NoRloc \/ Hits(standby.rloc) = {}
  /\ Look("lookup", "tick")

Apply == Write("apply", "tick", [standby EXCEPT !.ext = cache[my.slot].ext])

\* Slip: what is stale stays.
TickNever == Look("tick", "scan")

\* tick(): the test and the write
Tick == Look("tick", IF IsStale(my.t) THEN "expire" ELSE "scan")

Expire == Write("expire", "scan", [standby EXCEPT !.valid = FALSE])

\* maybe_scan_neighbors_(): each neighbour young enough, under the OpenThread
\* lock.  How young (neighbor_max_age_ms_) is left out, as it is from the stamp.
Scan(rloc, better) ==
  /\ \E from \in {"scan", "scanning"} : Step(from, "scanning")
  /\ Observe(rloc, my.t, better)
  /\ UNCHANGED my

Scanned == \E from \in {"scan", "scanning"} : Look(from, "get")

\* get_standby(): the test,
Get == Look("get", IF IsStale(my.t) THEN "done" ELSE "copy")

\* and the copy, in whichever order it is compiled to.
CopyRloc ==
  LET copy == [my EXCEPT !.target.rloc = standby.rloc] IN
  Note("copy", "copy ext", copy) \/ Note("copy rloc", "request", copy)

CopyExt ==
  LET copy == [my EXCEPT !.target.ext = standby.ext] IN
  Note("copy", "copy rloc", copy) \/ Note("copy ext", "request", copy)

\* The rest of update() works on its copy, if it has one.
Finish ==
  \E from \in {"done", "request"} :
    Note(from, "loop",
         [my EXCEPT !.parent = NoRloc, !.previous = NoRloc, !.rloc = NoRloc,
                    !.standbys = FALSE, !.target = NoPair])

Update ==
  \/ \E p \in Rloc, known \in BOOLEAN : (known => p # NoRloc) /\ Begin(p, known)
  \/ ChooseEntry \/ WriteRloc \/ WriteExt
  \/ SameParent \/ MarkActive \/ Promote \/ Keep \/ Drop \/ DropStamp
  \/ Continue \/ Rename \/ Stamp \/ Forget
  \/ Lookup \/ LookupNothing \/ Apply
  \/ Tick \/ Expire
  \/ \E rloc \in Router, better \in BOOLEAN : Scan(rloc, better)
  \/ Scanned \/ Get \/ CopyRloc \/ CopyExt \/ Finish

-----------------------------------------------------------------------------
TrackingInit ==
  /\ now = 0
  /\ ready \in BOOLEAN
  /\ registered = FALSE
  /\ active = NoRloc
  /\ standby = [valid |-> FALSE, rloc |-> NoRloc, ext |-> NoRloc,
                lastRefresh |-> 0]
  /\ cache = [i \in Slot |-> NoPair]
  /\ pc = "setup"
  /\ my = [t |-> 0, parent |-> NoRloc, previous |-> NoRloc, rloc |-> NoRloc,
           standbys |-> FALSE, slot |-> 1, target |-> NoPair]
  /\ age = 0
  /\ raced = FALSE

TrackingNext ==
  \/ Loop \/ Update
  \/ \E rloc \in Router, better \in BOOLEAN : ParentResponse(rloc, better)
  \/ GetReady \/ Advance

\* The main loop never stops and a table of neighbours ends; nothing is assumed
\* of OpenThread.
TrackingFairness ==
  WF_trackingVars(Loop \/ Update) /\ WF_trackingVars(Scanned)

TrackingSpec ==
  TrackingInit /\ [][TrackingNext]_trackingVars /\ TrackingFairness
-----------------------------------------------------------------------------
TrackingTypeOK ==
  /\ now \in Time
  /\ ready \in BOOLEAN /\ registered \in BOOLEAN /\ raced \in BOOLEAN
  /\ active \in Rloc
  /\ standby \in Standby
  /\ cache \in [Slot -> Pair]
  /\ pc \in Label
  /\ my \in Locals
  /\ age \in 0 .. AgeCap

\* Whatever is heard while the device changes its parent, update() never
\* takes the parent itself for the router to fail over to.
TargetIsNotActive == pc = "request" => my.target.rloc # active

\* A standby handed out was refreshed (for a neighbour in the table: as of the
\* scan) less than standby_refresh_interval before update() took its time, or
\* later.
TargetIsFresh ==
  pc \in {"copy", "copy rloc", "copy ext", "request"}
    => age < RefreshInterval + Lag

\* A standby known before update() took its time, and refreshed within the
\* interval less the longest update(), is only forgotten to follow the parent to
\* it, whatever responses come meanwhile.  Less an update(), because responses
\* during mark_failover_complete() can get its older now_ms for a stamp.  Of a
\* standby first heard of, or refreshed, while update() runs nothing is said:
\* tick() takes a stamp after now_ms for an outdated one (FreshStandbyIsOffered),
\* and what a response wrote between tick()'s test and its write it undoes.
KnownStandbyKept ==
  [][ standby.valid /\ Lag < age /\ age + MaxLag < RefreshInterval
        => standby'.valid \/ standby.rloc = active ]_trackingVars

\* A request names another router's address only once a response arrived when
\* half of an access to a pair was done: every other order of the responses and
\* update() is harmless.
TargetIsAuthenticUnlessRaced ==
  ~raced /\ pc = "request" => my.target.ext \in {my.target.rloc, NoRloc}

\* Once OpenThread is ready the callback is registered, and stays so.
Registers == ready ~> []registered

-----------------------------------------------------------------------------
\* docs/milestone-1-architecture-freeze.md: it is "standby stale/lost" that
\* leads to ATTACHED_ACTIVE_NO_STANDBY.  A standby that was heard of within the
\* interval is therefore handed out by get_standby().
FreshStandbyIsOffered ==
  [][ pc = "get" /\ standby.valid /\ age < RefreshInterval
        => pc' # "done" ]_trackingVars
=============================================================================
