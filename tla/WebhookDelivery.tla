-------------------------- MODULE WebhookDelivery --------------------------
(***************************************************************************)
(* What a project may rely on about one delivery of an event to its        *)
(* webhook, whatever jobs and rows do underneath: the event is tried at    *)
(* most MaxTries times, never again once it was taken or refused, and the  *)
(* verdict says what happened: DELIVERED if it was taken, FAILED only if   *)
(* it was refused or never taken in MaxTries.  None of this is promised    *)
(* for a delivery whose processing was interrupted (disturbed).            *)
(***************************************************************************)
EXTENDS Naturals

CONSTANTS Delivery, MaxTries

VARIABLES status, tries, answer, disturbed
dvars == <<status, tries, answer, disturbed>>

DInit ==
    /\ status = [d \in Delivery |-> "ABSENT"]
    /\ tries  = [d \in Delivery |-> 0]
    /\ answer = [d \in Delivery |-> "none"]
    /\ disturbed = {}

SetTo(d, s) == status' = [status EXCEPT ![d] = s]
Open(d) == status[d] = "PENDING" /\ answer[d] \in {"none", "again"}

Create(d) ==
    /\ status[d] = "ABSENT"
    /\ SetTo(d, "PENDING")
    /\ UNCHANGED <<tries, answer, disturbed>>

Try(d) ==
    /\ Open(d)
    /\ tries[d] < MaxTries
    /\ tries' = [tries EXCEPT ![d] = @ + 1]
    /\ \E a \in {"taken", "refused", "again"} :
          answer' = [answer EXCEPT ![d] = a]
    /\ UNCHANGED <<status, disturbed>>

\* The project gave its webhook up, or points it to a forbidden address.
Withdraw(d) ==
    /\ Open(d)
    /\ answer' = [answer EXCEPT ![d] = "refused"]
    /\ UNCHANGED <<status, tries, disturbed>>

Settle(d) ==
    /\ status[d] = "PENDING"
    /\ \/ answer[d] = "taken" /\ SetTo(d, "DELIVERED")
       \/ answer[d] = "refused" /\ SetTo(d, "FAILED")
       \/ answer[d] = "again" /\ tries[d] = MaxTries /\ SetTo(d, "FAILED")
    /\ UNCHANGED <<tries, answer, disturbed>>

\* Processing is interrupted: nothing is promised any more.
Disturb ==
    /\ \E D \in SUBSET Delivery : disturbed' = disturbed \cup D
    /\ \A d \in Delivery \ disturbed' :
          /\ status'[d] = status[d]
          /\ tries'[d]  = tries[d]
          /\ answer'[d] = answer[d]

DNext ==
    \/ Disturb
    \/ \E d \in Delivery \ disturbed :
          Create(d) \/ Try(d) \/ Withdraw(d) \/ Settle(d)

DSpec == DInit /\ [][DNext]_dvars

=============================================================================
