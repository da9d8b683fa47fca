---------------------------- MODULE FailoverCalls ----------------------------
(***************************************************************************)
(* FailoverController with a record of why it decided: which evaluate()    *)
(* was told of a failed or a degraded parent, and for how long.            *)
(***************************************************************************)
EXTENDS FailoverController

VARIABLES
  cause,        \* the health for which a failover was decided in the latest
                \* evaluate(), "none" otherwise
  degradedFor   \* history: milliseconds over which every poll saw the device
                \* attached to a degraded parent, up to EligibleDelay; -1 when
                \* the latest did not

callVars == <<vars, cause, degradedFor>>

SeesDegraded(in) == in.attached /\ in.health = "DEGRADED"

Decides == state' = "FAILOVER_TRIGGERED" /\ state # "FAILOVER_TRIGGERED"

CallInit == Init /\ cause = "none" /\ degradedFor = -1

Call(d, in) ==
  /\ Poll(d, in)
  /\ cause' = IF Decides /\ in.attached THEN in.health ELSE "none"
  /\ degradedFor' = CASE ~SeesDegraded(in) -> -1
                      [] SeesDegraded(in) /\ degradedFor = -1 -> 0
                      [] OTHER -> Saturate(degradedFor + d, EligibleDelay)

CallNext == \E d \in 1 .. MaxGap, in \in Inputs : Call(d, in)

CallSpec == CallInit /\ [][CallNext]_callVars

-----------------------------------------------------------------------------
\* A failover is decided only for a cause: on a device attached as a child
\* whose parent has failed at this very poll, or has been seen degraded at
\* every poll for at least failover_eligible_delay.
DecisionJustified ==
  [][ Decides
        => \/ cause' = "FAILED"
           \/ cause' = "DEGRADED" /\ degradedFor' >= EligibleDelay ]_callVars
=============================================================================
