------------------------- MODULE WebhookProperties --------------------------
(***************************************************************************)
(* What the delivery of webhooks promises, and what an interrupted run     *)
(* can still cost.                                                         *)
(***************************************************************************)
EXTENDS Webhook

\* A project receives one event at most MaxTries times, and as often again for
\* every run of the delivery that was interrupted: duplicate jobs each carry
\* their own attemptsMade, and each series of retries ends
\* (webhookRetryDelayMs and scheduleRetry).
PostsBounded ==
    \A d \in Delivery : posts[d] =< MaxTries * (1 + cuts[d])

\* A job that goes on with its delivery, and that BullMQ has not given up.
Responsible(j) == job[j].pc \notin {"free", "exit"} /\ job[j].slot = "own"

\* A PENDING delivery has a job that will go on with it, unless its dispatch
\* died between the row and the job, or its job failed: the row is not left
\* behind by any sequence of answers, retries, crashes and stalled jobs
\* (processWebhook, scheduleRetry).
NoStrandedDelivery ==
    \A d \in Delivery :
        row[d] = "PENDING" =>
            \/ d \in dispatching \cup abandoned
            \/ \E j \in JobId : job[j].delivery = d /\ Responsible(j)

\* The panel shows, for an uninterrupted delivery that arrived, how many
\* attempts were made, and for any other one no attempt that was not made:
\* the number goes through the data of one job after the other
\* (attemptCount, attemptsMade).
AttemptCountTruthful ==
    \A d \in Delivery : cuts[d] = 0 =>
        /\ count[d] =< tries[d]
        /\ row[d] = "DELIVERED" => count[d] = tries[d]

\* Once a delivery is DELIVERED and the runs that had read the row before are
\* through, nothing is sent any more and the row stays, however many duplicate
\* jobs are left: the check that opens processWebhook ("job duplicado").
PastLoad(j) == job[j].pc \in {"resolve", "post", "verdict"}

DeliveredSettles ==
    [][\A d \in Delivery :
         /\ row[d] = "DELIVERED"
         /\ \A j \in JobId : job[j].delivery = d => ~PastLoad(j)
         => /\ posts'[d] = posts[d]
            /\ row'[d] = "DELIVERED"
            /\ \A j \in JobId : job'[j].delivery = d => ~PastLoad(j)']_vars

\* The abstract view: WebhookDelivery.
Delivering == INSTANCE WebhookDelivery WITH
    status <- row, disturbed <- {d \in Delivery : cuts[d] > 0}

\* As long as no run was interrupted, an event is tried at most MaxTries times,
\* never after it was taken or refused, and the verdict in the row is what the
\* project answered (processWebhook as a whole).
ImplementsDelivery == Delivering!DSpec

-----------------------------------------------------------------------------
(* Progress: the worker takes the jobs there are and a run goes on, the caller *)
(* of dispatchWebhook finishes, a restarted worker finds the stalled jobs.     *)
(* Nothing is assumed of the project or of what it answers.                    *)

Fairness ==
    /\ \A j \in JobId : WF_vars(Step(j)) /\ WF_vars(RecoverStalled(j))
    /\ \A d \in Delivery : WF_vars(EnqueueWebhook(d))

FairSpec == Spec /\ Fairness

\* Every delivery gets its verdict, unless its dispatch died or its job failed:
\* a project that never answers, or whose host is never found, does not keep it
\* PENDING (the sixth attempt is the last one).
EventuallyVerdict ==
    \A d \in Delivery :
        row[d] = "PENDING" ~> row[d] \in {"DELIVERED", "FAILED"} \/ d \in abandoned

=============================================================================
