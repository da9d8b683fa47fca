--------------------------- MODULE FailoverPolicy ---------------------------
(***************************************************************************)
(* What the failover controller promises, without its bookkeeping: a       *)
(* failover is decided only after the hold-down, asks the stack for the    *)
(* standby at most once and for a generic attach at most once, gives the   *)
(* preferred attach its whole timeout and not a poll more, and lets the    *)
(* new parent settle for the whole stabilise time, and not a poll more,    *)
(* unless the device has to look for a parent again before.                *)
(*                                                                         *)
(* Time is true elapsed time, free of any wrap-around: quiet since the     *)
(* last completed failover, age since the present timed phase began.       *)
(* FailoverController implements this with wrapping uint32_t timestamps.   *)
(***************************************************************************)
EXTENDS UnsignedArithmetic

CONSTANTS Router, NoRloc, MaxGap, HoldDown, EligibleDelay, StabilizeTime,
          PreferredTimeout, QuietCap

VARIABLES
  phase,    \* what the device is doing about its parent
  target,   \* the router asked for while phase = "preferred"
  request,  \* what the stack is asked to do in this step
  quiet,    \* time since the last completed failover, up to QuietCap
  age       \* time since a timed phase began, 0 in the others

pvars == <<phase, target, request, quiet, age>>

\* "seeking": looking for a first parent, or for one after a loss;
\* "serving": on the present parent;
\* "watching": the parent is degraded; "decided": a failover will start;
\* "preferred", "generic": waiting for the attach asked for;
\* "settling": on the new parent.
Phase == {"seeking", "serving", "watching", "decided", "preferred", "generic",
          "settling"}

PTypeOK ==
  /\ phase \in Phase
  /\ target \in Router \cup {NoRloc}
  /\ request \in {"NONE", "TRIGGER_PREFERRED_REATTACH",
                  "TRIGGER_GENERIC_REATTACH"}
  /\ quiet \in 0 .. QuietCap
  /\ age \in Nat

PInit ==
  /\ phase = "seeking"
  /\ target = NoRloc
  /\ request = "NONE"
  /\ quiet = 0
  /\ age = 0

Later(d) == Saturate(quiet + d, QuietCap)

\* Enter phase p, in which time is measured from now on.
Enter(p) == phase' = p /\ age' = 0

Ask(r) == request' = r

\* The parent is lost, or not found yet.
Seek(d) ==
  /\ phase \in {"seeking", "serving", "watching", "settling"}
  /\ Enter("seeking")
  /\ Ask("NONE")
  /\ quiet' = Later(d)
  /\ UNCHANGED target

\* A parent is found, or goes on to serve.
Serve(d) ==
  /\ phase \in {"seeking", "serving", "watching"}
  /\ Enter("serving")
  /\ Ask("NONE")
  /\ quiet' = Later(d)
  /\ UNCHANGED target

Watch(d) ==
  /\ phase = "serving"
  /\ Later(d) >= HoldDown
  /\ Enter("watching")
  /\ Ask("NONE")
  /\ quiet' = Later(d)
  /\ UNCHANGED target

KeepWatching(d) ==
  /\ phase = "watching"
  /\ age + d < EligibleDelay
  /\ age' = age + d
  /\ Ask("NONE")
  /\ quiet' = Later(d)
  /\ UNCHANGED <<phase, target>>

\* A hard failure decides at once, a degradation after its delay; neither
\* before the hold-down is over.
Decide(d) ==
  /\ \/ phase = "serving"
     \/ phase = "watching" /\ age + d >= EligibleDelay
  /\ Later(d) >= HoldDown
  /\ Enter("decided")
  /\ Ask("NONE")
  /\ quiet' = Later(d)
  /\ UNCHANGED target

AskPreferred(d) ==
  /\ phase = "decided"
  /\ Enter("preferred")
  /\ target' \in Router
  /\ Ask("TRIGGER_PREFERRED_REATTACH")
  /\ quiet' = Later(d)

AskGeneric(d) ==
  /\ phase = "decided"
  /\ Enter("generic")
  /\ Ask("TRIGGER_GENERIC_REATTACH")
  /\ quiet' = Later(d)
  /\ UNCHANGED target

AwaitPreferred(d) ==
  /\ phase = "preferred"
  /\ age + d < PreferredTimeout
  /\ age' = age + d
  /\ Ask("NONE")
  /\ quiet' = Later(d)
  /\ UNCHANGED <<phase, target>>

FallBack(d) ==
  /\ phase = "preferred"
  /\ age + d >= PreferredTimeout
  /\ Enter("generic")
  /\ target' = NoRloc
  /\ Ask("TRIGGER_GENERIC_REATTACH")
  /\ quiet' = Later(d)

AwaitGeneric(d) ==
  /\ phase = "generic"
  /\ Ask("NONE")
  /\ quiet' = Later(d)
  /\ UNCHANGED <<phase, target, age>>

Arrive(d) ==
  /\ phase \in {"preferred", "generic"}
  /\ Enter("settling")
  /\ target' = NoRloc
  /\ Ask("NONE")
  /\ quiet' = 0

Settling(d) ==
  /\ phase = "settling"
  /\ age + d < StabilizeTime
  /\ age' = age + d
  /\ Ask("NONE")
  /\ quiet' = Later(d)
  /\ UNCHANGED <<phase, target>>

\* The new parent held for the whole stabilise time.
Settled(d) ==
  /\ phase = "settling"
  /\ age + d >= StabilizeTime
  /\ Enter("serving")
  /\ Ask("NONE")
  /\ quiet' = Later(d)
  /\ UNCHANGED target

PStep(d) ==
  \/ Seek(d)
  \/ Serve(d)
  \/ Watch(d)
  \/ KeepWatching(d)
  \/ Decide(d)
  \/ AskPreferred(d)
  \/ AskGeneric(d)
  \/ AwaitPreferred(d)
  \/ FallBack(d)
  \/ AwaitGeneric(d)
  \/ Arrive(d)
  \/ Settling(d)
  \/ Settled(d)

PNext == \E d \in 1 .. MaxGap : PStep(d)

PSpec == PInit /\ [][PNext]_pvars
=============================================================================
