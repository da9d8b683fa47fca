# Formal model of the biparental end device

TLA+ modules, TLC model-checking runs and TLAPS proofs for the ESPHome
component in `src/components/biparental_ed/`: a Thread end device that keeps a
standby parent next to its active one and fails over to it.

```
tlc -workers 2 -config MCFailoverController.cfg MCFailoverController.tla
tlapm FailoverController_proofs.tla
```

`PROJECT.json` lists the runs, the mutants that show each property can fail,
the source lines of every definition, the hazards and the theorems.

## 1. The system

`BiparentalEDComponent::update()` is called once per poll by ESPHome's main
loop. It reads the parent's metrics, tracks the active parent, judges its
health, maintains the standby candidate, asks the failover controller for an
action and issues it to OpenThread through an adapter. OpenThread runs in a
task of its own and calls back with parent responses.

```
            millis()                     parent responses (OpenThread task)
               |                                   |
  update() ----+--> CandidateManager <-------------+
     |                 | standby
     |   metrics       v
     +--> ParentHealthMonitor --> FailoverController --> action
     |                                                     |
     +--------- OpenThreadPlatformAdapter <----------------+
                       |  lock per call
                    OpenThread stack
```

| Part | State | Operations | Hard behaviour | Correct when |
|---|---|---|---|---|
| Failover controller (`failover_controller.*`) | one of nine states, three `uint32_t` timestamps, five counters, the target, the last outcome | `evaluate()` | wrapping timestamps; four ways into a failover; outcome bookkeeping | hold-down, deadlines, balanced counters, every failover carried out |
| Parent health monitor (`parent_health_monitor.*`) | health, reason, `degraded_since_ms_` (0 = unset) | `evaluate()` | sentinel 0, reception timestamps from a later clock, early returns that keep the timer | degraded means it persisted; failed means a real gap |
| Candidate manager (`candidate_manager.*`) | standby, active parent, eight-entry address cache; no lock | `remember_ext_address`, `observe_*`, `mark_failover_complete`, `tick`, `get_standby` | used by two tasks; any order of observations and parent changes, eviction, RLOC16 reuse, staleness across a wrap | the standby is fresh, is not the parent, has its own address |
| Update loop (`biparental_ed.*`) | scan, search and log timestamps, whether the callback is registered | `setup`, `loop`, `update`, `maybe_issue_failover_action_`, the observation paths | several adapter calls, each with its own lock; a rejected request replaced by another | bounded, justified detaches; failovers complete |
| Platform adapter (`ot_platform_adapter.*`) | none of its own | read metrics, neighbours, role; request search, targeted attach, generic attach | lock per call, refusals, a later `millis()` | requests have the effect the controller expects |
| Diagnostics publisher (`diagnostics_publisher.*`) | last published values | `publish` | heartbeat and change detection | nothing changed stays unpublished |
| `__init__.py`, `CMakeLists.txt` | none | configuration schema, code generation | none | not modelled |
| `scripts/`, `tests/host/` | none | OpenThread patch, laboratory scripts, unit tests | text substitution, log parsing | not modelled |

`request_failover_to_preferred()` of the adapter has no caller in `src/`.

## 2. Modules and how they correspond to the code

| Module | Models |
|---|---|
| `UnsignedArithmetic` | `uint32_t` addition and subtraction, modulo a constant width |
| `FailoverController` | `FailoverController::evaluate()`: one action per `case` of its switch, one step `Poll` per call |
| `FailoverPolicy` | what the controller promises, in true time and seven phases; abstract |
| `FailoverCalls` | the controller with a record of the health it decided for, and of how long that was seen |
| `ParentHealthMonitor` | `ParentHealthMonitor::evaluate()`: one action per return |
| `CandidateScore` | the 8-bit score arithmetic |
| `ExtAddressCache` | the stamped eight-slot array of `remember_ext_address()` and the lookup |
| `LruCache`, `RecencyList` | what that array promises: a least-recently-confirmed list; abstract |
| `CandidateManager` | every method on the standby, over the abstract cache |
| `StandbyTracking` | `setup()`, `loop()`, `update()` and the parent-response callback as two tasks over the candidate manager, one action per access |
| `BiparentalED` | `update()` split at its adapter calls, running against the OpenThread stack; contains `FailoverController` |
| `PeriodicWork` | the scan and search timers of `update()` and `DiagnosticsPublisher::publish()` |
| `MC*` | instances for TLC |
| `*_proofs` | theorems |

**FailoverController.** Variables are the C++ members (`stateEntered` is
`state_entered_ms_`, `lastFailover` is `last_failover_ms_`, and so on),
`action` is the returned `FailoverAction`, `quiet` is history. The inputs of
`evaluate()` are an arbitrary record per call: attached or not, known parent or
not, standby or not, healthy, degraded or failed. `is_failed()` and
`is_degraded()` are read off one enum, so they exclude each other.

**FailoverPolicy** has no clock, only true durations. `PolicySpec` reads phase
and age off the controller's state; it says that the wrapping timestamps behave
like true time, that a failover issues at most one preferred and one generic
request, and that no timer fires early or late: a preferred attempt is given up
only once its timeout is over, and a new parent is settled on only after the
whole stabilise time, unless it is lost and sought again.

**ParentHealthMonitor.** RSSI and error counts enter a comparison only, so a
sample is `weak` or `unstable`; the last reception is given by its true age.
The adapter stamps it with a later `millis()` than the poll's `now_ms`, hence
negative ages, which are always inferred ones.

**CandidateManager** is used by `update()` (`Poll`) and by the observation paths
(`Hear`): neighbour scan and parent responses, whose handlers do the same. Its
cache is `RecencyList`, which `ExtAddressCache` is shown to implement, so the
small model stays small without weakening the cache: every update of the array
is one `Touch` of the list (`ImplementsLru`), and every search of it answers
with the list's `Lookup` (`FindsWhatTheListHolds`, proved).

**StandbyTracking.** The candidate manager has no lock; the callback runs in
OpenThread's task. The examples build for the ESP32-C6, which has one core, so
the callback, once it runs, runs to its end (`ParentResponse`, one step), but it
may come between any two accesses of `update()` to the manager. It holds the
OpenThread lock, and so cannot come while `update()` holds it: not during the
neighbour scan (`pc = "scanning"`). Each other action is one access of
`update()`, in the order of the code: `ChooseEntry`, `WriteRloc`, `WriteExt` are
`remember_ext_address()`; `MarkActive` to `Apply` are `mark_failover_complete()`
with the address lookup at its end; `Tick` and `Expire` are the test and the
write of `tick()`; `Get`, `CopyRloc`, `CopyExt` are `get_standby()`, whose
structure copy may go in either order. An access is to one member; the eight
bytes of an address are copied as a whole. `my` holds the locals, among them
`t`, the `now_ms` of line 126, which the callback's `millis()` overtakes. A
router's address is named by the router, so a pair of RLOC16 and address is right
when both are equal. Whether a score beats the standby's is left open (`better`),
as is which entry a full cache gives up: `CandidateManager` and
`ExtAddressCache` are about these; and a scan takes neighbours of any age
(`neighbor_max_age_ms_` is left out, and the stamp is the scan's, as in the
code). `age` and `raced` are history. `age` is the true time since the standby
was last refreshed, by a response, by a scan or by becoming the former parent; a
stamp does not reset it. That matters in `mark_failover_complete()`, whose
stores are one action each: where a response replaces the standby before
`DropStamp` or `Stamp`, its stamp is overwritten with the older `now_ms`, and
the manager takes the standby for up to one `update()` older than it is.

`KnownStandbyKept` allows for that much, and it is about standbys last
refreshed before this `update()` took its time; without either clause TLC
refutes it. Two losses are thus in the model and outside the property: a
response with a stamp after `now_ms` makes its standby look outdated (the run
`fresh_standby_refused`), and a response between `tick()`'s test and its write is
undone by the write. Likewise `TargetIsAuthenticUnlessRaced` excludes the
responses in the middle of an access to a pair, and says that there is no other
way to a wrong pair.

**BiparentalED.** `pc` says which adapter call comes next: `Begin` is
`read_parent_metrics()` and the bookkeeping after it, `Decide` is
`is_attached_as_child()` and `evaluate()`, `TargetAccepted`/`TargetRejected` are
`request_failover_to_standby_target()`, `GenericDetaches`/
`GenericChangesNothing` are `request_failover_generic()`. Between any two the
stack may start, attach, lose its parent, move to another one, and finish or
fail a selected attach. The standby offered is any router or none, even the
active parent, since the callback may rewrite it during `update()`; of the
health monitor only this is used, that FAILED means invalid metrics (the
adapter always reports `supervision_ok`, no control-plane errors and an
inferred reception).
Two outside facts are stated as such: the stack's hook accepts a selected
attach only from a child that is not attaching already
(`scripts/apply-openthread-selected-parent-hook.py`), and
`otThreadGetParentInfo()` answers a child (`ParentInfoFails = FALSE`; with
`TRUE`, the code's fallback to the freshest neighbour stands in for the parent,
or there are no metrics for want of a neighbour, and `SuccessWasOnTarget` is
lost).

`FailoverController` polls and reads the clock in one step; here the time is
read at `Begin`, the role at `Decide`, and the stack moves in between. `polled`
remembers time and quiet time as they were at the last `evaluate()`, and
`Controller` is `FailoverController` with these for its clock. `SystemPolls` says
that the calls `update()` makes are a run of it, `SystemFollowsPolicy` that the
device follows `FailoverPolicy`.

**PeriodicWork.** `Work` is `update()` up to the search, `Publish` the call at
its end. A snapshot has arbitrary values, in fields `changed_()` compares and
in fields it does not (the parent's age, the standby's freshness). The stack
accepts or refuses each search. The `since...` variables and `searched` (whether
the stack ever accepted one) are history, in true time: until the first
acceptance `SearchRetried` asks for a search at every `update()`, and afterwards
it exempts only what lies a turn of the clock after an acceptance.

## 3. Runs

| Run | What it shows |
|---|---|
| `controller` | hold-down in real time, balanced counters, a target only in flight, no missed deadline, refinement of `FailoverPolicy`; failovers are decided for a cause |
| `system` | the device is detached at most twice per failover, once if its targeted request was taken, never inside the hold-down; no invented success; what it asks of the stack follows `FailoverPolicy` in true time |
| `completion` | no transient state lasts; every decision leads to a request; once the link holds, every decided failover completes |
| `health` | degraded means persistence and persistence is recognised; hard failures are real |
| `ext_cache` | the array is an LRU cache without gaps, duplicates or outdated answers |
| `standby` | standby is not the parent, is fresh when offered, has an authentic address and one that is known, and yields only to a better router |
| `tracking` | whatever the order of responses and `update()`: the target is fresh and not the parent, a standby known before the update is not dropped before its time, a wrong address needs a response in the middle of an access to a pair; the callback is registered at last |
| `periodic` | scans do not starve, refused searches are repeated, from boot on, publications are current and keep their interval |
| `fresh_standby_refused` | counterexample: a response during `update()` makes the standby look 2^32 ms old, and it is not offered |
| `failed_by_race` | counterexample: attaching between the two reads of one poll looks like a failed parent |
| `degradation_with_gaps` | counterexample: the persistence timer survives invalid samples |
| `score_of_dense_router` | counterexample: the margin proxy wraps at thirteen good neighbours |

The counterexamples are disagreements between the code and a sentence of the
documents or comments; `findings` quotes both. More were met and are not
runs:

* `last_failover_ms_` is compared with the wrapping clock for ever, so 2^32 ms
  after the last failover the hold-down is in force a second time; a failed
  parent then has to wait (`failover_controller.cpp:166`).
* The interleavings `raced` marks do give the target another router's address:
  a response between the two halves of a copy, of a cache update or of a cache
  lookup. `TargetIsAuthenticUnlessRaced` without `~raced` is violated by each.
* A FAILED parent in FAILOVER_ELIGIBLE goes through the attached state
  first (milestone-1 calls the transition immediate).
* A device attached to another router than the target waits for the timeout
  (milestone-5 calls the transition immediate, while
  `tests/host/test_preferred_failover.cpp` asserts that it waits).
* A MISS records 0xffff instead of the parent.
* A matter of reading: milestone-1 lets a generic attach that fails be retried;
  the controller asks once and leaves the retrying to OpenThread.

That a change of parent replaces even a better standby by the previous parent is
documented (`docs/milestone-4-warm-standby.md:31`), so
`FreshStandbyYieldsToBetter` speaks of the time between two changes.

### Bounds

* `Wrap` (3 to 8) stands for 2^32 milliseconds, a little more than the longest
  timer, so that every timer meets the wrap at every phase and the clock runs
  round many times. `CounterWrap` (2) does the same for the counters; where it
  is 1 the counters are left out, since nothing reads them back.
* `periodic` uses 8 for the clock: its longest interval, gap and lag together
  take 7. Two compared fields let a mutant forget one of them.
* `MaxGap` bounds the time between two polls. `TimerAssumption` asks that a
  timer plus one gap fits the clock: 49 days against the default poll interval
  of seconds.
* `QuietCap`, the cap of the history variables and `MaxDetaches` saturate
  counts above every value a property compares with.
* Routers: one where identity does not matter, two for a target and another,
  three (`standby`) for parent, standby and challenger; four over three slots
  (`ext_cache`), so that eviction and re-insertion happen. `MaxUpdates` bounds
  the stamps.
* The stabilise time is two polls in `controller` and `system`: a device that
  ignored a stabilise time of one would do nothing wrong. So the shortest way
  from one completed failover to the next takes three polls to the decision and
  four to the request, and the hold-downs are longer, four and five; with less
  the properties could not fail. `completion` needs no hold-down that long and uses a smaller
  clock.
* `tracking`: an update takes at most one millisecond of a refresh interval of
  four, and the clock has seven values, so that the standby's age passes every
  value up to a wrap within `update()` and between two. One cache entry for two
  routers makes the entry in use change its router under `update()`, which more
  entries would only make rarer; the safety properties were also run with three
  routers and two entries (5.7 million states, up to the
  names of the routers).
* Durations of 1 to 3 polls give each timer a poll before, at and after its
  deadline. Symmetry over routers (and addresses) is used in safety runs only,
  where no constant names a router.

### Fairness

ESPHome's scheduler calls `loop()` and `update()` for ever, and `evaluate()` is
total. So `Spec` has weak fairness of `Next`, `SystemSpec` of `Update`, and
`TrackingSpec` of the main loop (`Loop \/ Update`) and of the end of a scan, for
a neighbour table is finite; it assumes nothing of OpenThread. Of the stack
`SystemSpec` asks only that it starts and that a detached device with a router
in range attaches. Nothing is assumed of requests: they may all be refused, and a
selected attach may never finish. `FailoverCompletesAtLast` in addition asks
that the link is at last not lost; without that a device may lose each new
parent before the next poll.

## 4. Proofs

All for every set of routers, width of clock and counters, and durations that
satisfy the named assumptions.

`FailoverController_proofs`: `UnsignedTheorem` (the models' unsigned addition and
subtraction are those modulo the width), `TypeCorrect`, then `HoldDownTheorem`,
`AttemptsTheorem`, `TargetTheorem`, `DeadlineTheorem` and `ImplementsPolicy`.
`HoldDownRespected` is not inductive: the step into a failover tests
`now - last_failover_ms_` modulo the width, so the invariant adds
`QuietMeasured` (the timer never shows more than the real quiet time, until
that exceeds the hold-down). `DeadlineTheorem` likewise measures ages by
wrapping differences and needs `TimerAssumption`: at each poll an age grows by
at most `MaxGap` and is still below the width. `ImplementsPolicy` maps every
case of the switch to one policy step from these invariants. The lemmas under it
need no fairness (`PollsAreSafe`, `PollsFollowPolicy`), so they also hold of a
controller that somebody else polls.

`FailoverCalls_proofs`: `DecisionTheorem`. The eligibility delay is measured by
a wrapping difference, so the invariant says that in FAILOVER_ELIGIBLE every
poll since it was entered saw a degraded parent, and that the timer shows at
most the real time of that.

`ParentHealthMonitor_proofs`: `HealthTypeCorrect`; `PersistenceTheorem` with the
strengthening `PersistenceMeasured` (a set timer shows at most the real time
since the last clearing sample); `HardFailureTheorem`; `RecognitionTheorem` with
the opposite strengthening `RunMeasured` (the timer lags behind a run of degraded
samples by one gap at most, which is lost when the run begins at timestamp 0).

`CandidateManager_proofs`: `CandidateTypeCorrect`, `StandbyTheorem`,
`FreshnessTheorem`, `AuthenticTheorem`, `KnownAddressTheorem`,
`HysteresisTheorem`. The manager is one record rewritten by nested operators, so
each operator has a lemma (a predicate on its result) and a step composes the
lemmas. Freshness holds for every clock width because `Tick` invalidates what a
poll finds stale: a valid standby is always younger than the interval, in true
age. The address theorems rest on `Genuine`: every address the manager holds, in
the cache and in the standby even when that is not valid, was announced by its
router. `ResponsesRanked` is the complement of the run `score_of_dense_router`:
where the weighted neighbour counters of the better of two responses do not
exceed 127 (twelve neighbours of link quality 3, say) and the RSSI is not
positive, no narrowing wraps and the responses are ranked in order.

`ExtAddressCache_proofs`: `CacheTypeCorrect`, `CompactTheorem` and
`CurrentTheorem` for any number of slots and routers: entries fill the array
from the front, so the search stops at a router's entry or at the first free
slot, and never leaves a second entry behind. `LruTheorem` is the refinement.
The array keeps no order but the stamps: these are distinct and not above the
sequence number (`StampsOrdered`), so an entry's place in the list is the number
of entries with a larger stamp (`Rank`), and these places are filled one each
(`RankPlaces`, by the pigeonhole principle). An update gives its entry rank 0
and moves every other down by one, except those older than the entry it
overwrites (`Shifted`); which that is (`Chosen`) decides how the list is touched:
an entry is moved to the head, a new one put there, or the last one dropped.
`LookupTheorem` adds that both answer alike.

`StandbyTracking_proofs`: `TrackingTypeCorrect`, `TargetIsNeverActive`,
`TargetIsAlwaysFresh`, `TargetIsAuthentic`, `KnownStandbyIsKept`, for every
number of routers and entries and every timing that fits the clock. One step per
access: what the main loop has noted must still follow from what a callback may
have changed since. The parent cannot be the standby between `MarkActive` and
`Drop` because the callback already refuses the new parent; a standby past its
test in `get_standby()` can only get younger; and while no response meets a
half-done access, entry, standby and copy are each of one router. The manager
knows only its stamp, so the invariant under freshness (`Near`) compares what
the stamp shows with the true age: it is never less, and at most the longest
`update()` more.

`BiparentalED_proofs`: `SystemTypeCorrect`; `SystemHoldDownTheorem` and
`DetachTheorem` from `SystemHoldInv`, which adds to `QuietMeasured` that
`update()` is at a request only in the state that ordered it; `DetachesTheorem`
from `DetachInv`, which says how much of the bound each state of the failover
may have used up (a rejected targeted request has used one detach before the
timeout orders the next); `SuccessTheorem` under `ParentInfoFails = FALSE`;
`SystemBookTheorem`, the controller's books inside the device. The stack is
unconstrained in all of them. `SystemPollsTheorem` rests on `PollInv`: where
`update()` is not between metrics and `evaluate()`, the device's time is that of
the last poll, and in between it is ahead of it by one gap, so each `Decide` is
one `Poll` and every other step leaves the controller alone. From it and
`PollsFollowPolicy` follows `SystemPolicyTheorem`: splitting `update()` and
letting the stack move between its calls costs the policy nothing.

`PeriodicWork_proofs`: `WorkTypeCorrect`, `SearchTheorem`, `ScanTheorem`,
`PublicationTheorem`, `CadenceTheorem`. All rest on `Measured`: a stamp that is
not 0 shows the real age of what it stamped until that age reaches a full turn
of the clock. `ScanBounded` and `PublicationBounded` then say that it never
does, because the next `update()` comes first (`PeriodAssumption`).

Out of the prover's reach, and so model-checked only: liveness
(`NoStateOverstays`, `DecisionIsCarriedOut`, `FailoverCompletesAtLast`), which
needs fairness and ENABLED; and so `Registers`. Every invariant, every action
property and every refinement of the passing runs is a theorem.

## 5. Not modelled, and why

* Logging with its timers, and the setters (they are the constants). A
  configuration that disables the callback or the scan is the case in which no
  response, no neighbour comes.
* Two cores: the callback would then run in parallel with `update()` and not
  only between its accesses.
* `request_failover_to_preferred()` and `set_active_parent_rloc16()`, which
  nothing calls; `standby_freshness_ms()`, which changes nothing.
* RLOC16 0xfffe as a reported parent or neighbour; `NoRloc` stands for both
  invalid values.
* A lock that cannot be had: once OpenThread is initialised, the blocking
  acquisition succeeds.
* Configuration, scripts and host tests: no state, or not part of the device.

## 6. Plan

1. `FailoverController`, its policy and proofs (done).
2. `ParentHealthMonitor`, cache, `CandidateManager` and proofs (done).
3. `BiparentalED`: update loop against the stack (done).
4. Theorems about `BiparentalED` (done).
5. `StandbyTracking` and its proofs (done).
6. `PeriodicWork` and its proofs (done).
7. Theorems for the remaining invariants and action properties (done).
8. The refinements as theorems: the array is the list, and the device follows
   the policy (done).
9. Open: `BiparentalED` takes the standby it is offered to be any router or
   none. Putting `StandbyTracking` in its place would add which offers the
   callback can bring about; the properties of `system` hold for all of them.
