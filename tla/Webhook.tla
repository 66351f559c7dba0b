------------------------------ MODULE Webhook -------------------------------
(***************************************************************************)
(* Delivery of events to the webhooks of the projects: dispatchWebhook     *)
(* writes a row and adds a job, a job makes one attempt, and a retry is a  *)
(* new job (processWebhook, scheduleRetry).  Row and job live in two       *)
(* stores, and nothing ties their changes together.                        *)
(*                                                                         *)
(*   free     no such job          waiting  waiting or delayed in BullMQ   *)
(*   stalled  active in Redis, its process is gone                         *)
(*   load     row and project      resolve  address of the host            *)
(*   post     the request          verdict  write what came of it          *)
(*   requeue  add the next job     exit     returns       abort  throws    *)
(***************************************************************************)
EXTENDS Naturals, FiniteSets

CONSTANTS
    Delivery,     \* webhook_deliveries rows
    JobId,        \* bound: BullMQ jobs that exist at the same time
    MaxTries,     \* WEBHOOK_MAX_ATTEMPTS
    Concurrency,  \* concurrency of the webhook worker
    Events,       \* bound: environment events of this instance
    MaxCuts,      \* bound: interruptions per delivery
    None

ASSUME WebhookAssumption ==
    /\ IsFiniteSet(JobId)
    /\ MaxTries \in Nat \ {0}
    /\ Concurrency \in Nat \ {0}
    /\ MaxCuts \in Nat
    /\ None \notin Delivery

VARIABLES
    row,          \* Postgres: status of each delivery, ABSENT before dispatch
    count,        \* Postgres: attemptCount
    job,          \* Redis and worker memory: the jobs and their runs
    hook,         \* the project's webhook: subscribed, silent (inactive or the
                  \* event not chosen), removed (no url or no secret)
    dispatching,  \* dispatches between the row and the job
    posts,        \* history: requests sent to the project
    tries,        \* history: attempts, a host that was not found included
    answer,       \* history: what the last attempt came to
    cuts,         \* history: runs of a delivery that were interrupted
    abandoned     \* history: deliveries whose dispatch died or job failed

store   == <<row, count>>
history == <<posts, tries, answer>>
vars    == <<store, job, hook, dispatching, history, cuts, abandoned>>

-----------------------------------------------------------------------------
\* HTTP answers by their family; none: timeout, network or name resolution.
Answer == {"2xx", "3xx", "4xx", "429", "5xx", "none"}

ShouldRetryWebhook(a) == a \in {"3xx", "429", "5xx", "none"}

\* Fault: the table of delays has an entry more.
HasOneDelayMore(n) == n =< MaxTries

\* webhookRetryDelayMs: there is a delay for the attempt after n ones.
HasRetryDelay(n) == n < MaxTries

Running == {"load", "resolve", "post", "verdict", "requeue", "exit", "abort"}

Job == [pc       : {"free", "waiting", "stalled"} \cup Running,
        delivery : Delivery \cup {None},
        made     : Nat,                                \* attemptsMade
        result   : Answer \cup {"no", "unset"},        \* no: no valid webhook
        slot     : {"own", "lost"},                    \* lost: BullMQ gave it up
        stalls   : Nat]                                \* BullMQ's stalled counter

NewJob(d, made) ==
    [pc |-> "waiting", delivery |-> d, made |-> made, result |-> "unset",
     slot |-> "own", stalls |-> 0]

FreeJob == [NewJob(None, 0) EXCEPT !.pc = "free"]

Active == {j \in JobId : job[j].pc \in Running}

At(j, p)   == job[j].pc = p
Goto(j, p) == job' = [job EXCEPT ![j].pc = p]
GotoWith(j, p, r) ==
    job' = [job EXCEPT ![j] = [@ EXCEPT !.pc = p, !.result = r]]

TypeOK ==
    /\ row    \in [Delivery -> {"ABSENT", "PENDING", "DELIVERED", "FAILED"}]
    /\ count  \in [Delivery -> Nat]
    /\ job    \in [JobId -> Job]
    /\ hook   \in {"subscribed", "silent", "removed"}
    /\ dispatching \subseteq Delivery
    /\ abandoned   \subseteq Delivery
    /\ posts  \in [Delivery -> Nat]
    /\ tries  \in [Delivery -> Nat]
    /\ cuts   \in [Delivery -> Nat]
    /\ answer \in [Delivery -> {"none", "taken", "refused", "again"}]

Init ==
    /\ row    = [d \in Delivery |-> "ABSENT"]
    /\ count  = [d \in Delivery |-> 0]
    /\ job    = [j \in JobId |-> FreeJob]
    /\ hook   = "subscribed"
    /\ dispatching = {}
    /\ abandoned   = {}
    /\ posts  = [d \in Delivery |-> 0]
    /\ tries  = [d \in Delivery |-> 0]
    /\ cuts   = [d \in Delivery |-> 0]
    /\ answer = [d \in Delivery |-> "none"]

-----------------------------------------------------------------------------
(* dispatchWebhook. *)

\* The project is read and the row created; the later insert cannot tell.
Dispatch(d) ==
    /\ row[d] = "ABSENT"
    /\ hook = "subscribed"
    /\ row' = [row EXCEPT ![d] = "PENDING"]
    /\ dispatching' = dispatching \cup {d}
    /\ UNCHANGED <<count, job, hook, history, cuts, abandoned>>

EnqueueWebhook(d) ==
    /\ d \in dispatching
    /\ \E k \in JobId :
         /\ At(k, "free")
         /\ job' = [job EXCEPT ![k] = NewJob(d, 0)]
    /\ dispatching' = dispatching \ {d}
    /\ UNCHANGED <<store, hook, history, cuts, abandoned>>

\* The process or Redis fails between the two; the caller only logs it.
LoseDispatch(d) ==
    /\ "crash" \in Events
    /\ d \in dispatching
    /\ dispatching' = dispatching \ {d}
    /\ abandoned' = abandoned \cup {d}
    /\ UNCHANGED <<store, job, hook, history, cuts>>

-----------------------------------------------------------------------------
(* processWebhook, one action per await. *)

\* BullMQ hands the job to the worker.
Start(j) ==
    /\ At(j, "waiting")
    /\ Cardinality(Active) < Concurrency
    /\ Goto(j, "load")
    /\ UNCHANGED <<store, hook, dispatching, history, cuts, abandoned>>

Heard(d, a) == answer' = [answer EXCEPT ![d] = a]

\* Fault: a delivery that was made is not recognised.
LoadWithoutLooking(j) ==
    /\ At(j, "load")
    /\ \/ /\ hook = "removed"
          /\ GotoWith(j, "verdict", "no")
          /\ Heard(job[j].delivery, "refused")
       \/ /\ hook # "removed"
          /\ Goto(j, "resolve")
          /\ UNCHANGED answer
    /\ UNCHANGED <<store, hook, dispatching, posts, tries, cuts, abandoned>>

\* Delivery and project are loaded.  FAILED is not looked at, nor whether the
\* project is active.
Load(j) ==
    /\ At(j, "load")
    /\ \/ /\ row[job[j].delivery] = "DELIVERED"
          /\ Goto(j, "exit")
          /\ UNCHANGED answer
       \/ /\ row[job[j].delivery] # "DELIVERED"
          /\ hook = "removed"
          /\ GotoWith(j, "verdict", "no")
          /\ Heard(job[j].delivery, "refused")
       \/ /\ row[job[j].delivery] # "DELIVERED"
          /\ hook # "removed"
          /\ Goto(j, "resolve")
          /\ UNCHANGED answer
    /\ UNCHANGED <<store, hook, dispatching, posts, tries, cuts, abandoned>>

\* The url is parsed and its host looked up now: it may be unfit, not found
\* (counted as an attempt that got no answer), or fine.
Resolve(j) ==
    /\ At(j, "resolve")
    /\ \/ /\ GotoWith(j, "verdict", "no")
          /\ Heard(job[j].delivery, "refused")
          /\ UNCHANGED tries
       \/ /\ GotoWith(j, "verdict", "none")
          /\ Heard(job[j].delivery, "again")
          /\ tries' = [tries EXCEPT ![job[j].delivery] = @ + 1]
       \/ /\ Goto(j, "post")
          /\ UNCHANGED <<answer, tries>>
    /\ UNCHANGED <<store, hook, dispatching, posts, cuts, abandoned>>

\* What an answer means to the project that gave it.
Meaning(a) == CASE a = "2xx" -> "taken"
                [] a = "4xx" -> "refused"
                [] OTHER     -> "again"

\* The request, up to its answer or its timeout of 10 s.
Post(j) ==
    /\ At(j, "post")
    /\ \E a \in Answer :
         /\ GotoWith(j, "verdict", a)
         /\ Heard(job[j].delivery, Meaning(a))
    /\ posts' = [posts EXCEPT ![job[j].delivery] = @ + 1]
    /\ tries' = [tries EXCEPT ![job[j].delivery] = @ + 1]
    /\ UNCHANGED <<store, hook, dispatching, cuts, abandoned>>

\* Fault: the row is given the answer for a status.
MarkAnswered(j) ==
    /\ At(j, "verdict")
    /\ job[j].result = "2xx"
    /\ row' = [row EXCEPT ![job[j].delivery] = job[j].result]
    /\ Goto(j, "exit")
    /\ UNCHANGED <<count, hook, dispatching, history, cuts, abandoned>>

MarkDelivered(j) ==
    /\ At(j, "verdict")
    /\ job[j].result = "2xx"
    /\ row' = [row EXCEPT ![job[j].delivery] = "DELIVERED"]
    /\ count' = [count EXCEPT ![job[j].delivery] = job[j].made + 1]
    /\ Goto(j, "exit")
    /\ UNCHANGED <<hook, dispatching, history, cuts, abandoned>>

\* The attempt is to be followed by another one.
RetryDue(j) ==
    /\ At(j, "verdict")
    /\ ShouldRetryWebhook(job[j].result)
    /\ HasRetryDelay(job[j].made + 1)

\* Fault: the answer of the last attempt is not waited for.
RefusedDue(j) ==
    /\ At(j, "verdict")
    /\ job[j].result # "2xx"
    /\ job[j].made + 2 >= MaxTries

\* markFailed is for a webhook that is not valid, an answer that forbids a
\* retry, and the end of the retries.
FailureDue(j) ==
    /\ At(j, "verdict")
    /\ job[j].result # "2xx"
    /\ ~RetryDue(j)

\* markFailed: whatever the row was; attemptCount stays.
MarkFailed(j) ==
    /\ FailureDue(j)
    /\ row' = [row EXCEPT ![job[j].delivery] = "FAILED"]
    /\ Goto(j, "exit")
    /\ UNCHANGED <<count, hook, dispatching, history, cuts, abandoned>>

\* Fault: the retry is lost.
ScheduleNoRetry(j) ==
    /\ RetryDue(j)
    /\ Goto(j, "exit")
    /\ UNCHANGED <<store, hook, dispatching, history, cuts, abandoned>>

\* scheduleRetry: the row first ...
ScheduleRetry(j) ==
    /\ RetryDue(j)
    /\ count' = [count EXCEPT ![job[j].delivery] = job[j].made + 1]
    /\ Goto(j, "requeue")
    /\ UNCHANGED <<row, hook, dispatching, history, cuts, abandoned>>

\* Fault: the retry forgets the attempts made.
RequeueSame(j) ==
    /\ At(j, "requeue")
    /\ \E k \in JobId :
         /\ At(k, "free")
         /\ job' = [job EXCEPT ![j].pc = "exit",
                               ![k] = NewJob(job[j].delivery, job[j].made)]
    /\ UNCHANGED <<store, hook, dispatching, history, cuts, abandoned>>

\* ... then a new job, delayed.
Requeue(j) ==
    /\ At(j, "requeue")
    /\ \E k \in JobId :
         /\ At(k, "free")
         /\ job' = [job EXCEPT ![j].pc = "exit",
                               ![k] = NewJob(job[j].delivery, job[j].made + 1)]
    /\ UNCHANGED <<store, hook, dispatching, history, cuts, abandoned>>

Complete(j) ==
    /\ At(j, "exit")
    /\ job' = [job EXCEPT ![j] = FreeJob]
    /\ UNCHANGED <<store, hook, dispatching, history, cuts, abandoned>>

\* The run throws: with attempts 1 its job, if it still is this run's, goes to
\* the failed set, where no code looks at it again.
Fail(j) ==
    /\ At(j, "abort")
    /\ job' = [job EXCEPT ![j] = FreeJob]
    /\ abandoned' = IF job[j].slot = "own" THEN abandoned \cup {job[j].delivery}
                    ELSE abandoned
    /\ UNCHANGED <<store, hook, dispatching, history, cuts>>

-----------------------------------------------------------------------------
(* Interrupted runs, and the project's settings. *)

\* Postgres or Redis fails; lookup and fetch catch their errors.
Throw(j) ==
    /\ "throw" \in Events
    /\ job[j].pc \in {"load", "verdict", "requeue"}
    /\ cuts[job[j].delivery] < MaxCuts
    /\ cuts' = [cuts EXCEPT ![job[j].delivery] = @ + 1]
    /\ Goto(j, "abort")
    /\ UNCHANGED <<store, hook, dispatching, history, abandoned>>

\* A job that stalls waits again the first time and fails the second one.
CutTwice(r) == r.stalls > 0
AfterStall(r) == IF CutTwice(r) THEN FreeJob
                 ELSE [NewJob(r.delivery, r.made) EXCEPT !.stalls = 1]
Losing(r) == IF CutTwice(r) THEN {r.delivery} ELSE {}

\* The worker process dies: the rest of its runs is gone.
Owning(d) == {j \in Active : job[j].delivery = d /\ job[j].slot = "own"}
AfterCrash(r) ==
    IF r.slot = "lost" THEN FreeJob
    ELSE [NewJob(r.delivery, r.made) EXCEPT !.pc = "stalled",
                                            !.stalls = r.stalls]

Crash ==
    /\ "crash" \in Events
    /\ Active # {}
    /\ \A d \in Delivery : cuts[d] + Cardinality(Owning(d)) =< MaxCuts
    /\ cuts' = [d \in Delivery |-> cuts[d] + Cardinality(Owning(d))]
    /\ job' = [j \in JobId |-> IF j \in Active THEN AfterCrash(job[j])
                               ELSE job[j]]
    /\ UNCHANGED <<store, hook, dispatching, history, abandoned>>

RecoverStalled(j) ==
    /\ At(j, "stalled")
    /\ job' = [job EXCEPT ![j] = AfterStall(@)]
    /\ abandoned' = abandoned \cup Losing(job[j])
    /\ UNCHANGED <<store, hook, dispatching, history, cuts>>

\* The stalled-job check while the run goes on: the job becomes k.
Stall(j) ==
    /\ "stall" \in Events
    /\ j \in Active
    /\ job[j].slot = "own"
    /\ cuts[job[j].delivery] < MaxCuts
    /\ cuts' = [cuts EXCEPT ![job[j].delivery] = @ + 1]
    /\ \E k \in JobId :
         /\ At(k, "free")
         /\ job' = [job EXCEPT ![j].slot = "lost", ![k] = AfterStall(job[j])]
    /\ abandoned' = abandoned \cup Losing(job[j])
    /\ UNCHANGED <<store, hook, dispatching, history>>

\* The project's webhook is edited, deactivated or removed in the panel.
ChangeHook(h) ==
    /\ "hook" \in Events
    /\ hook' = h
    /\ UNCHANGED <<store, job, dispatching, history, cuts, abandoned>>

-----------------------------------------------------------------------------
Step(j) ==
    \/ Start(j) \/ Load(j) \/ Resolve(j) \/ Post(j) \/ MarkDelivered(j)
    \/ MarkFailed(j) \/ ScheduleRetry(j) \/ Requeue(j) \/ Complete(j) \/ Fail(j)

Next ==
    \/ Crash
    \/ \E j \in JobId : Step(j) \/ Throw(j) \/ Stall(j) \/ RecoverStalled(j)
    \/ \E d \in Delivery : Dispatch(d) \/ EnqueueWebhook(d) \/ LoseDispatch(d)
    \/ \E h \in {"subscribed", "silent", "removed"} : ChangeHook(h)

Spec == Init /\ [][Next]_vars

=============================================================================
