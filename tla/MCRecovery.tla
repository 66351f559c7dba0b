----------------------------- MODULE MCRecovery -----------------------------
(***************************************************************************)
(* What must come about in the end, in the two components of the worker    *)
(* that recover by trying again: sessions and alerts.  They share no       *)
(* state: part says which of them a behaviour is about, the other rests.   *)
(***************************************************************************)
EXTENDS FleetProperties, Alerts

CONSTANTS a1, t1

VARIABLE part

allVars == <<part, fleetVars, alertVars>>

RecoveryInit ==
    /\ FleetInit /\ AlertsInit
    /\ \/ part = "fleet" /\ \A a \in Accounts : lines[a] = "up"
       \/ part = "alerts" /\ ~creds

FleetRuns == part = "fleet" /\ UNCHANGED <<part, alertVars>>
AlertsRun == part = "alerts" /\ UNCHANGED <<part, fleetVars>>

RecoveryNext == (FleetRuns /\ FleetNext) \/ (AlertsRun /\ AlertsNext)

\* Fairness of the components.  Two steps are enabled at rest as well, and are
\* fair where their component runs: the start of the worker and the interval.
RecoverySpec ==
    /\ RecoveryInit /\ [][RecoveryNext]_allVars
    /\ FleetFairness /\ AlertsFairness
    /\ WF_allVars(FleetRuns /\ Boot) /\ WF_allVars(AlertsRun /\ IntervalPasses)
=============================================================================
