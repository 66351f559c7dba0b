------------------------- MODULE OutboundProperties -------------------------
(***************************************************************************)
(* What the outbound queue promises.  The first group of properties holds  *)
(* of the code; each says what an interrupted run, a lock that expires     *)
(* under its holder or a stale snapshot can still cost.  The second group  *)
(* states what a comment or a document says and the code does not do.      *)
(***************************************************************************)
EXTENDS Outbound

\* A job that may still lead to an accepted send, by itself or through the
\* successor it will enqueue.
Potent(j) ==
    \/ job[j].pc \in {"waiting", "stalled", "failed", "read", "gate", "select",
                      "lock", "pace", "mark", "send", "failing"}
    \/ At(j, "record") /\ job[j].result # "ok"
    \/ At(j, "abort") /\ job[j].slot = "own"

Lineage(m) == {j \in JobId : job[j].msg = m /\ Potent(j)}

\* Every send that Baileys accepts beyond the first one is paid for by an
\* interrupted run of the message: without a crash, a thrown database error or
\* a stalled job, fallbacks, retries, lock contention and requeues never make
\* the gateway hand an accepted message over twice
\* (processOutbound, attempts: 1 in queues.ts).
AcceptedOncePerRun ==
    \A m \in Message : accepted[m] =< 1 + cuts[m]

\* Two runs that hold the lock of the same account are the same run, unless one
\* of them has outlived the lock: the token comparison of releaseAccountLock
\* keeps a late run from freeing the lock of its successor (lock.ts).
OneHolderPerAccount ==
    \A j, k \in JobId :
        /\ job[j].lease = "held" /\ job[k].lease = "held"
        /\ job[j].acct = job[k].acct
        => j = k

\* The limits are read before the lock is taken, so several runs can pass the
\* same check; the excess is bounded by the runs that can be in flight: at most
\* Concurrency jobs and the chat requests, less the one the limit allowed.
LimitOvershootBounded ==
    \A a \in Account :
        sent[a] < Limit[a] + Concurrency + Cardinality(Operator)

\* A message is never attempted twice through an account that failed it with a
\* code of group B, and a job never carries MaxAttempts tried accounts
\* (FALLBACK_LIMITS.DISTINCT_ACCOUNTS and MAX_ATTEMPTS).
DistinctAccounts ==
    \A j \in JobId :
        /\ Len(job[j].tried) < MaxAttempts
        /\ \A i, k \in DOMAIN job[j].tried :
              job[j].tried[i] = job[j].tried[k] => i = k
        /\ job[j].acct \notin Tried(j)

\* A job whose run or successor will still write a status of its message, or
\* whose failure is about to be recorded.
Responsible(j) == job[j].pc \notin {"free", "notify", "back", "report", "exit"}

\* A message is left QUEUED or SENDING with nothing that will ever settle it
\* only if its request died before the job was enqueued, its failed job was
\* dropped after a day, or a run BullMQ had given up on died.
NoStrandedMessage ==
    \A m \in Message :
        message[m] \in {"QUEUED", "SENDING"} =>
            \/ m \in intake \cup abandoned
            \/ \E j \in JobId : job[j].msg = m /\ Responsible(j)

\* As long as no run of a message was interrupted, its project hears one final
\* status at most, and hears the one in the database once the run has returned.
OneVerdict ==
    \A m \in Message : cuts[m] = 0 =>
        /\ \A s, t \in notified[m] : s = t
        /\ /\ message[m] \in FinalStatus
           /\ \A j \in JobId : job[j].msg # m
           => notified[m] = {message[m]}

-----------------------------------------------------------------------------
(* The abstract view: MessageLifecycle. *)

\* A run that has taken the message up and not let go of it.
UnderWay(j) == job[j].pc \in Running \ {"read", "exit", "abort"}

Busy == {m \in Message : \E j \in JobId : job[j].msg = m /\ UnderWay(j)}
Disturbed == {m \in Message : cuts[m] > 0}

Lifecycle == INSTANCE MessageLifecycle WITH
                 status <- message, busy <- Busy, disturbed <- Disturbed

\* The status of a message follows the lifecycle: a final status is never left,
\* a cancellation is only overtaken by a run that had picked the message up
\* before, and only an interrupted run voids these promises
\* (processOutbound as a whole against the cancel route).
ImplementsLifecycle == Lifecycle!LSpec

\* An opt-out counts for every run that has not passed the check yet: from then
\* on nothing more is accepted for the recipient (isSuppressed in
\* processOutbound, "defesa em profundidade").
PastGate(j) == job[j].pc \in {"select", "lock", "pace", "mark", "send"}

OptOutSettles ==
    [][\A m \in Message :
         /\ To[m] \in suppressed
         /\ \A j \in JobId : job[j].msg = m => ~PastGate(j)
         => /\ accepted'[m] = accepted[m]
            /\ \A j \in JobId : job'[j].msg = m => ~PastGate(j)']_vars

-----------------------------------------------------------------------------
(* Progress. *)

\* A run goes on, the worker takes the jobs there are, a restarted worker finds
\* the stalled ones, the API finishes its requests, keys expire and time passes.
\* Nothing is assumed of accounts, of the panel or of what a send ends in.
Fairness ==
    /\ \A j \in JobId : WF_vars(Step(j)) /\ WF_vars(RecoverStalled(j))
    /\ \A m \in Message : WF_vars(Enqueue(m)) /\ WF_vars(Age(m))
    /\ \A a \in Account : WF_vars(ExpireLock(a))

FairSpec == Spec /\ Fairness

Settled(m) == message[m] \in FinalStatus \cup {"CANCELED"}

\* Left to an operator: its job is in the failed set, or gone.
LeftToOperator(m) ==
    \/ m \in abandoned
    \/ \E j \in JobId : job[j].msg = m /\ At(j, "failed")

\* Every message that was accepted by the API is settled in the end, or is left
\* to an operator: no pool without accounts, no account that always fails and
\* no orphan lock keeps it QUEUED for ever, because each requeue goes through
\* the age check of processOutbound again.
EventuallySettled ==
    \A m \in Message :
        message[m] \in {"QUEUED", "SENDING"} ~> Settled(m) \/ LeftToOperator(m)

-----------------------------------------------------------------------------
(* What a comment or a document says, and the code does not do. *)

\* "cada conta processa UMA mensagem por vez" (lock.ts:5): no two runs hand a
\* message over to the same account at the same time.  The lock lasts 30 s and
\* is never renewed, the delay before the send alone may last 180 s.
OneSendAtATime ==
    \A j, k \in JobId :
        At(j, "send") /\ At(k, "send") /\ job[j].acct = job[k].acct => j = k

\* "Maximo de tentativas: 3" (doc 05, 4.1; MAX_ATTEMPTS in send-errors.ts:78).
\* Attempts are counted by triedAccountIds, which a retry on the same account
\* leaves as it is.
AttemptsWithinLimit == \A m \in Message : attempts[m] =< MaxAttempts

\* "Cancela uma mensagem ainda em QUEUED. Retorna 409 MESSAGE_NOT_CANCELABLE se
\* ja estiver em SENDING ou posterior" (doc 03, 3.6): a message whose request
\* was answered "canceled" is canceled.
CanceledIsCanceled == \A m \in told : message[m] = "CANCELED"

=============================================================================
