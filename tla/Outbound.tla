------------------------------ MODULE Outbound ------------------------------
(***************************************************************************)
(* The outbound queue: the API that inserts a message and enqueues a job   *)
(* for it, the BullMQ queue, the jobs running concurrently in the worker   *)
(* (processOutbound), the per-account lock and counters they share through *)
(* Redis, and what the environment does to them.                           *)
(*                                                                         *)
(* A job runs one action per await of processOutbound; between two awaits  *)
(* any other job, API request or event may run.  The pc of a job names the *)
(* step it is about to take:                                               *)
(*                                                                         *)
(*   free     no such job           waiting  waiting or delayed in BullMQ  *)
(*   stalled  active in Redis, its process is gone                         *)
(*   failed   in BullMQ's failed set                                       *)
(*   read     load the message      gate     existence cache and opt-out   *)
(*   select   snapshot and draw     lock     take the account's lock       *)
(*   pace     silence window        mark     delay over: status SENDING    *)
(*   send     hand over to Baileys  record   write the attempt             *)
(*   count    counters, cooldown    ack      ack awaited: final status     *)
(*   notify   webhook, sent         reject   fail before any attempt       *)
(*   failing  handleSendFailure     back     successor enqueued            *)
(*   report   webhook, failed       exit     returns     abort  throws     *)
(***************************************************************************)
EXTENDS Naturals, Sequences, FiniteSets, SendPolicy

CONSTANTS
    Message,      \* message ids
    Contact,      \* recipients
    Account,      \* sending accounts
    JobId,        \* bound: BullMQ jobs that exist at the same time
    Operator,     \* bound: concurrent /chat/send requests of the panel
    To,           \* recipient of each message
    Preferred,    \* preferredAccountId of each message, None if absent
    Limit,        \* limit of each account in one counting window
    Concurrency,  \* concurrency of the BullMQ worker
    Failures,     \* bound: raw failures a send may end in
    Events,       \* bound: environment events of this instance
    MaxCuts,      \* bound: interruptions and late sends per message
    None, Orphan  \* no value; the token of a process that is gone

ASSUME OutboundAssumption ==
    /\ IsFiniteSet(JobId) /\ IsFiniteSet(Operator)
    /\ To \in [Message -> Contact]
    /\ Preferred \in [Message -> Account \cup {None}]
    /\ Limit \in [Account -> Nat]
    /\ Concurrency \in Nat \ {0}
    /\ Failures \subseteq SUBSET (Boom \cup Words \cup {"timedOut"})
    /\ MaxCuts \in Nat
    /\ None \notin JobId \cup Account \cup Message
    /\ Orphan \notin JobId \cup {None}

VARIABLES
    message,     \* Postgres: status of each message, ABSENT before the insert
    job,         \* Redis and worker memory: the BullMQ jobs and their runs
    lock,        \* Redis: account:{id}:lock, the token of its holder
    sent,        \* Redis: successful sends of an account in this window
    cooldown,    \* Redis: accounts with a cooldown key
    existence,   \* Redis: wa:exists cache of each contact
    suppressed,  \* Postgres: suppressed_contacts
    line,        \* how usable each account's session is
    queue,       \* running, or paused by the panel
    hour,        \* day, or silent inside the window of silence
    aged,        \* messages created more than 24 h ago
    intake,      \* API requests between the insert and the enqueue
    cancelling,  \* cancel requests that have read QUEUED
    told,        \* messages whose cancel request was answered "canceled"
    chat,        \* /chat/send requests in progress
    accepted,    \* history: sends of a message that Baileys accepted
    attempts,    \* history: send attempts of a message, saturating
    cuts,        \* history: runs of a message interrupted, or sends timed out
                 \* that went through, which their run could not know
    notified,    \* history: statuses reported to the project by webhook
    abandoned    \* history: messages whose request died or job was dropped

redis   == <<lock, sent, cooldown, existence>>
world   == <<suppressed, line, queue, hour, aged>>
api     == <<intake, cancelling, told, abandoned>>
tally   == <<accepted, attempts, cuts, notified>>
vars    == <<message, job, redis, world, api, chat, tally>>

-----------------------------------------------------------------------------
Status == {"QUEUED", "SENDING", "SENT", "DELIVERED", "READ", "FAILED",
           "CANCELED"}
SentStatus == {"SENT", "DELIVERED", "READ"}
FinalStatus == SentStatus \cup {"FAILED"}
Existence == {"unknown", "yes", "no"}

InTry   == {"pace", "mark", "send", "record", "count", "ack", "notify"}
Leaving == {"failing", "back", "report", "exit", "abort"}
Running == {"read", "gate", "select", "lock", "reject"} \cup InTry \cup Leaving
PC      == {"free", "waiting", "stalled", "failed"} \cup Running

Job == [pc     : PC,
        msg    : Message \cup {None},
        tried  : Seq(Account),                   \* triedAccountIds
        acct   : Account \cup {None},            \* accountId
        lease  : {"none", "held", "lapsed"},     \* the lock this run took
        cached : Existence,                      \* cached
        result : {"none", "ok"} \cup SentStatus \cup SendErrorCode,
        slot   : {"own", "lost"},                \* lost: BullMQ gave it up
        stalls : Nat]                            \* BullMQ's stalled counter

\* A job with nothing but its data: what enqueueOutbound adds.
NewJob(m, tried) ==
    [pc |-> "waiting", msg |-> m, tried |-> tried, acct |-> None,
     lease |-> "none", cached |-> "unknown", result |-> "none", slot |-> "own",
     stalls |-> 0]

FreeJob == [NewJob(None, <<>>) EXCEPT !.pc = "free"]

Active       == {j \in JobId : job[j].pc \in Running}
Tried(j)     == {job[j].tried[i] : i \in DOMAIN job[j].tried}
AttemptOf(j) == Len(job[j].tried) + 1
ToOf(j)      == To[job[j].msg]

At(j, p)   == job[j].pc = p
Goto(j, p) == job' = [job EXCEPT ![j].pc = p]

\* Job j gives its message up with an error code, before any attempt.
TurnDown(j, code) ==
    job' = [job EXCEPT ![j] = [@ EXCEPT !.pc = "reject", !.result = code]]

\* Job j enqueues a job with the same message and goes to p.
EnqueueAndGoto(j, tried, p) ==
    \E k \in JobId :
        /\ At(k, "free")
        /\ job' = [job EXCEPT ![j].pc = p, ![k] = NewJob(job[j].msg, tried)]

SetStatus(j, s) == message' = [message EXCEPT ![job[j].msg] = s]

-----------------------------------------------------------------------------
RowsOK ==
    /\ message    \in [Message -> Status \cup {"ABSENT"}]
    /\ suppressed \subseteq Contact
    /\ aged       \subseteq Message

JobsOK == job \in [JobId -> Job]

RedisOK ==
    /\ lock      \in [Account -> JobId \cup {None, Orphan}]
    /\ sent      \in [Account -> Nat]
    /\ cooldown  \subseteq Account
    /\ existence \in [Contact -> Existence]

WorldOK ==
    /\ line  \in [Account -> {"ready", "withheld", "closed", "missing"}]
    /\ queue \in {"running", "paused"}
    /\ hour  \in {"day", "silent"}

RequestsOK ==
    /\ intake     \subseteq Message
    /\ cancelling \subseteq Message
    /\ told       \subseteq Message
    /\ abandoned  \subseteq Message
    /\ chat \in [Operator -> [pc   : {"idle", "send", "count"},
                              acct : Account \cup {None}]]

TallyOK ==
    /\ accepted \in [Message -> Nat]
    /\ attempts \in [Message -> Nat]
    /\ cuts     \in [Message -> Nat]
    /\ notified \in [Message -> SUBSET FinalStatus]

TypeOK == RowsOK /\ JobsOK /\ RedisOK /\ WorldOK /\ RequestsOK /\ TallyOK

Init ==
    /\ message    = [m \in Message |-> "ABSENT"]
    /\ job        = [j \in JobId |-> FreeJob]
    /\ lock       = [a \in Account |-> None]
    /\ sent       = [a \in Account |-> 0]
    /\ cooldown   = {}
    /\ existence  = [c \in Contact |-> "unknown"]
    /\ suppressed = {}
    /\ line       = [a \in Account |-> "ready"]
    /\ queue      = "running"
    /\ hour       = "day"
    /\ aged       = {}
    /\ intake     = {}
    /\ cancelling = {}
    /\ told       = {}
    /\ chat       = [o \in Operator |-> [pc |-> "idle", acct |-> None]]
    /\ accepted   = [m \in Message |-> 0]
    /\ attempts   = [m \in Message |-> 0]
    /\ cuts       = [m \in Message |-> 0]
    /\ notified   = [m \in Message |-> {}]
    /\ abandoned  = {}

-----------------------------------------------------------------------------
(* The public API. *)

\* POST /v1/messages up to the insert of the row (createAndEnqueue).
Post(m) ==
    /\ message[m] = "ABSENT"
    /\ To[m] \notin suppressed
    /\ message' = [message EXCEPT ![m] = "QUEUED"]
    /\ intake' = intake \cup {m}
    /\ UNCHANGED <<job, redis, world, cancelling, told, abandoned, chat, tally>>

\* Fault: the request enqueues again after an answer of Redis got lost.
EnqueueAgain(m) ==
    /\ m \in intake
    /\ \E k \in JobId :
         /\ At(k, "free")
         /\ job' = [job EXCEPT ![k] = NewJob(m, <<>>)]
    /\ UNCHANGED <<message, redis, world, api, chat, tally>>

\* The rest of createAndEnqueue: the job is added after the row exists.
Enqueue(m) ==
    /\ m \in intake
    /\ \E k \in JobId :
         /\ At(k, "free")
         /\ job' = [job EXCEPT ![k] = NewJob(m, <<>>)]
    /\ intake' = intake \ {m}
    /\ UNCHANGED <<message, redis, world, cancelling, told, abandoned, chat,
                   tally>>

\* The API process or Redis fails between the two.
LoseIntake(m) ==
    /\ "apicrash" \in Events
    /\ m \in intake
    /\ intake' = intake \ {m}
    /\ abandoned' = abandoned \cup {m}
    /\ UNCHANGED <<message, job, redis, world, cancelling, told, chat, tally>>

\* POST /v1/messages/:id/cancel reads the status ...
CancelRead(m) ==
    /\ "cancel" \in Events
    /\ message[m] = "QUEUED"
    /\ m \notin cancelling \cup told
    /\ cancelling' = cancelling \cup {m}
    /\ UNCHANGED <<message, job, redis, world, intake, told, abandoned, chat,
                   tally>>

\* ... then updates the row where it is still QUEUED, and answers "canceled"
\* whether or not a row was updated.
CancelWrite(m) ==
    /\ m \in cancelling
    /\ message' = [message EXCEPT ![m] = IF @ = "QUEUED" THEN "CANCELED" ELSE @]
    /\ cancelling' = cancelling \ {m}
    /\ told' = told \cup {m}
    /\ UNCHANGED <<job, redis, world, intake, abandoned, chat, tally>>

-----------------------------------------------------------------------------
(* processOutbound, one action per await. *)

\* BullMQ hands the job to the worker.
Start(j) ==
    /\ At(j, "waiting")
    /\ queue = "running"
    /\ Cardinality(Active) < Concurrency
    /\ Goto(j, "read")
    /\ UNCHANGED <<message, redis, world, api, chat, tally>>

\* Fault: a cancellation is not looked at.
AlreadySent == {"SENT", "DELIVERED"}

AlreadyDone == {"CANCELED", "SENT", "DELIVERED"}

\* Fault: the age is not looked at.
ReadMessageOfAnyAge(j) ==
    /\ At(j, "read")
    /\ Goto(j, IF message[job[j].msg] \in AlreadyDone THEN "exit" ELSE "gate")
    /\ UNCHANGED <<message, redis, world, api, chat, tally>>

\* The message is loaded: nothing to do for a canceled or sent one, too old
\* a message is rejected.  READ, FAILED and SENDING are not looked at.
ReadMessage(j) ==
    /\ At(j, "read")
    /\ \/ /\ message[job[j].msg] \in AlreadyDone
          /\ Goto(j, "exit")
       \/ /\ message[job[j].msg] \notin AlreadyDone
          /\ job[j].msg \in aged
          /\ TurnDown(j, "EXPIRED_IN_QUEUE")
       \/ /\ message[job[j].msg] \notin AlreadyDone
          /\ job[j].msg \notin aged
          /\ Goto(j, "gate")
    /\ UNCHANGED <<message, redis, world, api, chat, tally>>

\* Fault: the opt-out is left to the API.
GateWithoutOptOut(j) ==
    /\ At(j, "gate")
    /\ \/ /\ existence[ToOf(j)] = "no"
          /\ TurnDown(j, "NUMBER_NOT_ON_WHATSAPP")
       \/ /\ existence[ToOf(j)] # "no"
          /\ job' = [job EXCEPT ![j] = [@ EXCEPT
                         !.pc = "select", !.cached = existence[ToOf(j)]]]
    /\ UNCHANGED <<message, redis, world, api, chat, tally>>

\* The existence cache, whose answer is kept, and the opt-out list.
Gate(j) ==
    /\ At(j, "gate")
    /\ \/ /\ existence[ToOf(j)] = "no"
          /\ TurnDown(j, "NUMBER_NOT_ON_WHATSAPP")
       \/ /\ existence[ToOf(j)] # "no"
          /\ ToOf(j) \in suppressed
          /\ TurnDown(j, "RECIPIENT_OPTED_OUT")
       \/ /\ existence[ToOf(j)] # "no"
          /\ ToOf(j) \notin suppressed
          /\ job' = [job EXCEPT ![j] = [@ EXCEPT
                         !.pc = "select", !.cached = existence[ToOf(j)]]]
    /\ UNCHANGED <<message, redis, world, api, chat, tally>>

\* buildAccountSnapshots and isEligible: the accounts the draw is made from.
Eligible(j) ==
    {a \in Account \ Tried(j) : /\ line[a] = "ready"
                                /\ sent[a] < Limit[a]
                                /\ a \notin cooldown
                                /\ lock[a] = None}

\* Fault: a connected preferred account wins, tried or not.
SelectPreferredAccount(j) ==
    /\ At(j, "select")
    /\ \E a \in Account :
         /\ IF Preferred[job[j].msg] = None THEN a \in Eligible(j)
                                       ELSE a = Preferred[job[j].msg]
         /\ line[a] = "ready"
         /\ job' = [job EXCEPT ![j] = [@ EXCEPT !.pc = "lock", !.acct = a]]
    /\ UNCHANGED <<message, redis, world, api, chat, tally>>

\* selectAccount: the preferred account if eligible, else any (every eligible
\* account can win the weighted draw).
SelectAccount(j) ==
    /\ At(j, "select")
    /\ \E a \in Eligible(j) :
         /\ Preferred[job[j].msg] \in Eligible(j) => a = Preferred[job[j].msg]
         /\ job' = [job EXCEPT ![j] = [@ EXCEPT !.pc = "lock", !.acct = a]]
    /\ UNCHANGED <<message, redis, world, api, chat, tally>>

\* Fault: giving up does not reach the row.
NoAccountUnrecorded(j) ==
    /\ At(j, "select")
    /\ Eligible(j) = {}
    /\ \/ job[j].tried = <<>> /\ EnqueueAndGoto(j, <<>>, "exit")
       \/ job[j].tried # <<>> /\ Goto(j, "exit")
    /\ UNCHANGED <<message, redis, world, api, chat, tally>>

\* handleNoAccount: requeue a first attempt, give up on a fallback.
NoAccount(j) ==
    /\ At(j, "select")
    /\ Eligible(j) = {}
    /\ \/ /\ job[j].tried = <<>>
          /\ EnqueueAndGoto(j, <<>>, "exit")
       \/ /\ job[j].tried # <<>>
          /\ TurnDown(j, "NO_ACCOUNTS_AVAILABLE")
    /\ UNCHANGED <<message, redis, world, api, chat, tally>>

\* The session has left manager.active since the snapshot: handled as a
\* failure of the account, before any lock is taken.
SessionMissing(j) ==
    /\ At(j, "lock")
    /\ line[job[j].acct] = "missing"
    /\ job' = [job EXCEPT ![j] = [@ EXCEPT
                   !.pc = "failing", !.result = "ACCOUNT_DISCONNECTED"]]
    /\ UNCHANGED <<message, redis, world, api, chat, tally>>

\* acquireAccountLock: SET NX EX with a fresh token.
AcquireAccountLock(j) ==
    /\ At(j, "lock")
    /\ line[job[j].acct] # "missing"
    /\ lock[job[j].acct] = None
    /\ lock' = [lock EXCEPT ![job[j].acct] = j]
    /\ job' = [job EXCEPT ![j] = [@ EXCEPT !.pc = "pace", !.lease = "held"]]
    /\ UNCHANGED <<message, sent, cooldown, existence, world, api, chat, tally>>

\* Another run was faster: the same job data goes back to the queue.
LockBusy(j) ==
    /\ At(j, "lock")
    /\ line[job[j].acct] # "missing"
    /\ lock[job[j].acct] # None
    /\ EnqueueAndGoto(j, job[j].tried, "exit")
    /\ UNCHANGED <<message, redis, world, api, chat, tally>>

\* The window of silence is looked at once, before the humanised delay.
Pace(j) ==
    /\ At(j, "pace")
    /\ \/ hour = "silent" /\ EnqueueAndGoto(j, job[j].tried, "exit")
       \/ hour = "day" /\ Goto(j, "mark")
    /\ UNCHANGED <<message, redis, world, api, chat, tally>>

\* The delay is over: the row becomes SENDING whatever it was.
MarkSending(j) ==
    /\ At(j, "mark")
    /\ SetStatus(j, "SENDING")
    /\ Goto(j, "send")
    /\ UNCHANGED <<redis, world, api, chat, tally>>

\* What sendTextCore and sendMediaCore can return: the session is looked at,
\* then onWhatsApp unless the cache said yes, then sendMessage under a timeout.
SendOutcome(j) ==
    IF line[job[j].acct] \in {"closed", "missing"}
    THEN {ClassifySendError({"socketClosed"})}
    ELSE {"ok"} \cup {ClassifySendError(f) : f \in Failures}
         \cup (IF job[j].cached = "yes" THEN {}
               ELSE {ClassifySendError({"numberNotOnWhatsApp"})})

\* withTimeout abandons a sendMessage that may still go through: then the
\* message is accepted and its run does not know.
MayBeLate(j, r) ==
    /\ "late" \in Events
    /\ r = "SEND_TIMEOUT"
    /\ cuts[job[j].msg] < MaxCuts

Send(j) ==
    /\ At(j, "send")
    /\ \E r \in SendOutcome(j) :
         /\ job' = [job EXCEPT ![j] = [@ EXCEPT !.pc = "record", !.result = r]]
         /\ \/ /\ accepted' = [accepted EXCEPT ![job[j].msg] =
                                    IF r = "ok" THEN @ + 1 ELSE @]
               /\ UNCHANGED cuts
            \/ /\ MayBeLate(j, r)
               /\ accepted' = [accepted EXCEPT ![job[j].msg] = @ + 1]
               /\ cuts' = [cuts EXCEPT ![job[j].msg] = @ + 1]
    /\ attempts' = [attempts EXCEPT ![job[j].msg] =
                        IF @ > MaxAttempts THEN @ ELSE @ + 1]
    /\ UNCHANGED <<message, redis, world, api, chat, notified>>

\* The row of messageAttempt is written; the outcome decides what follows.
Record(j) ==
    /\ At(j, "record")
    /\ Goto(j, IF job[j].result = "ok" THEN "count" ELSE "failing")
    /\ UNCHANGED <<message, redis, world, api, chat, tally>>

\* setWaExistence, incrCounters, markLastSend and setCooldown.
Count(j) ==
    /\ At(j, "count")
    /\ existence' = [existence EXCEPT ![ToOf(j)] = "yes"]
    /\ sent' = [sent EXCEPT ![job[j].acct] = @ + 1]
    /\ cooldown' = cooldown \cup {job[j].acct}
    /\ Goto(j, "ack")
    /\ UNCHANGED <<message, lock, world, api, chat, tally>>

\* Fault: the ack is stored as Baileys names it.
AckVerbatim(j) ==
    /\ At(j, "ack")
    /\ \E s \in {"SENT", "DELIVERED", "READ", "PLAYED"} :
         /\ SetStatus(j, s)
         /\ job' = [job EXCEPT ![j] = [@ EXCEPT !.pc = "notify", !.result = s]]
    /\ UNCHANGED <<redis, world, api, chat, tally>>

\* waitForAck is over: the final status is whatever ack was seen in 20 s.
Ack(j) ==
    /\ At(j, "ack")
    /\ \E s \in SentStatus :
         /\ SetStatus(j, s)
         /\ job' = [job EXCEPT ![j] = [@ EXCEPT !.pc = "notify", !.result = s]]
    /\ UNCHANGED <<redis, world, api, chat, tally>>

\* Fault: every sent message is reported as sent, delivered or not.
NotifySent(j) ==
    /\ At(j, "notify")
    /\ notified' = [notified EXCEPT ![job[j].msg] = @ \cup {"SENT"}]
    /\ Goto(j, "exit")
    /\ UNCHANGED <<message, redis, world, api, chat, accepted, attempts, cuts>>

\* emitStatusWebhook of a sent message.
Notify(j) ==
    /\ At(j, "notify")
    /\ notified' = [notified EXCEPT ![job[j].msg] = @ \cup {job[j].result}]
    /\ Goto(j, "exit")
    /\ UNCHANGED <<message, redis, world, api, chat, accepted, attempts, cuts>>

-----------------------------------------------------------------------------
(* handleSendFailure and failMessage.  The failing run has left the try      *)
(* block: its lock is released concurrently (ReleaseAccountLock).            *)

Decision(j) == DecideAfterAttempt(job[j].result, AttemptOf(j))

\* Fault: an early rejection is stored and not reported.
RejectSilently(j) ==
    /\ At(j, "reject")
    /\ SetStatus(j, "FAILED")
    /\ Goto(j, "exit")
    /\ UNCHANGED <<redis, world, api, chat, tally>>

\* failMessage before any attempt: expired, cached "no", opted out, no account.
Reject(j) ==
    /\ At(j, "reject")
    /\ SetStatus(j, "FAILED")
    /\ Goto(j, "report")
    /\ UNCHANGED <<redis, world, api, chat, tally>>

\* Decision fail: a number without WhatsApp is remembered.
FailMessage(j) ==
    /\ At(j, "failing")
    /\ Decision(j) = "fail"
    /\ existence' = [existence EXCEPT ![ToOf(j)] =
                         IF job[j].result = "NUMBER_NOT_ON_WHATSAPP"
                         THEN "no" ELSE @]
    /\ SetStatus(j, "FAILED")
    /\ Goto(j, "report")
    /\ UNCHANGED <<lock, sent, cooldown, world, api, chat, tally>>

\* Decision retry_same_account: the job data is enqueued unchanged.
RetrySameAccount(j) ==
    /\ At(j, "failing")
    /\ Decision(j) = "retry_same_account"
    /\ EnqueueAndGoto(j, job[j].tried, "back")
    /\ UNCHANGED <<message, redis, world, api, chat, tally>>

\* Decision fallback_other_account: the account joins triedAccountIds.
FallbackOtherAccount(j) ==
    /\ At(j, "failing")
    /\ Decision(j) = "fallback_other_account"
    /\ EnqueueAndGoto(j, Append(job[j].tried, job[j].acct), "back")
    /\ UNCHANGED <<message, redis, world, api, chat, tally>>

\* backToQueued, after the successor is already in the queue.
BackToQueued(j) ==
    /\ At(j, "back")
    /\ SetStatus(j, IF message[job[j].msg] = "SENDING" THEN "QUEUED"
                    ELSE message[job[j].msg])
    /\ Goto(j, "exit")
    /\ UNCHANGED <<redis, world, api, chat, tally>>

\* emitStatusWebhook of a failed message.
Report(j) ==
    /\ At(j, "report")
    /\ notified' = [notified EXCEPT ![job[j].msg] = @ \cup {"FAILED"}]
    /\ Goto(j, "exit")
    /\ UNCHANGED <<message, redis, world, api, chat, accepted, attempts, cuts>>

\* Fault: the lock is deleted whosever it is.
ReleaseAnyLock(j) ==
    /\ job[j].pc \in Leaving
    /\ job[j].lease # "none"
    /\ lock' = [lock EXCEPT ![job[j].acct] = None]
    /\ job' = [job EXCEPT ![j].lease = "none"]
    /\ UNCHANGED <<message, sent, cooldown, existence, world, api, chat, tally>>

\* releaseAccountLock in the finally block: compare the token, then delete.
ReleaseAccountLock(j) ==
    /\ job[j].pc \in Leaving
    /\ job[j].lease # "none"
    /\ lock' = [lock EXCEPT ![job[j].acct] = IF @ = j THEN None ELSE @]
    /\ job' = [job EXCEPT ![j].lease = "none"]
    /\ UNCHANGED <<message, sent, cooldown, existence, world, api, chat, tally>>

\* The promise of the run resolves and the job is removed.
Complete(j) ==
    /\ At(j, "exit")
    /\ job[j].lease = "none"
    /\ job' = [job EXCEPT ![j] = FreeJob]
    /\ UNCHANGED <<message, redis, world, api, chat, tally>>

\* The promise rejects: with attempts 1 the job goes to the failed set, unless
\* it is no longer this run's.
Fail(j) ==
    /\ At(j, "abort")
    /\ job[j].lease = "none"
    /\ \/ /\ job[j].slot = "own"
          /\ job' = [job EXCEPT ![j] =
                         [NewJob(job[j].msg, job[j].tried) EXCEPT
                             !.pc = "failed", !.stalls = job[j].stalls]]
          /\ UNCHANGED abandoned
       \/ /\ job[j].slot = "lost"
          /\ job' = [job EXCEPT ![j] = FreeJob]
          /\ abandoned' = abandoned \cup {job[j].msg}
    /\ UNCHANGED <<message, redis, world, intake, cancelling, told, chat, tally>>

-----------------------------------------------------------------------------
(* Interrupted runs.  A run is cut when an await throws, when the worker     *)
(* process dies, or when BullMQ takes the job for stalled while it runs.     *)

\* A database or Redis call of processOutbound throws: finally still releases
\* the lock, and the job fails.  sendTextCore and the webhook catch theirs.
Throw(j) ==
    /\ "throw" \in Events
    /\ job[j].pc \in Running \ {"send", "exit", "abort"}
    /\ cuts[job[j].msg] < MaxCuts
    /\ cuts' = [cuts EXCEPT ![job[j].msg] = @ + 1]
    /\ Goto(j, "abort")
    /\ UNCHANGED <<message, redis, world, api, chat, accepted, attempts,
                   notified>>

\* What BullMQ does with a job whose lock was not renewed: the first time it
\* waits again, then it fails (maxStalledCount 1).
AfterStall(r) ==
    [NewJob(r.msg, r.tried) EXCEPT
        !.pc = IF r.stalls = 0 THEN "waiting" ELSE "failed",
        !.stalls = r.stalls + 1]

\* The worker process dies: every run in it is gone, their tokens stay in
\* Redis until they expire, and no session is left.
Owning(m) == {j \in Active : job[j].msg = m /\ job[j].slot = "own"}
AfterCrash(r) ==
    IF r.slot = "own"
    THEN [NewJob(r.msg, r.tried) EXCEPT !.pc = "stalled", !.stalls = r.stalls]
    ELSE FreeJob

Crash ==
    /\ "crash" \in Events
    /\ Active # {}
    /\ \A m \in Message : cuts[m] + Cardinality(Owning(m)) =< MaxCuts
    /\ cuts' = [m \in Message |-> cuts[m] + Cardinality(Owning(m))]
    /\ job' = [j \in JobId |-> IF j \in Active THEN AfterCrash(job[j])
                               ELSE job[j]]
    /\ abandoned' = abandoned \cup
                        {job[j].msg : j \in {i \in Active : job[i].slot = "lost"}}
    /\ lock' = [a \in Account |-> IF lock[a] = None THEN None ELSE Orphan]
    /\ line' = [a \in Account |-> "missing"]
    /\ chat' = [o \in Operator |-> [pc |-> "idle", acct |-> None]]
    /\ UNCHANGED <<message, sent, cooldown, existence, suppressed, queue, hour,
                   aged, intake, cancelling, told, accepted, attempts, notified>>

\* The stalled-job check of the restarted worker.
RecoverStalled(j) ==
    /\ At(j, "stalled")
    /\ job' = [job EXCEPT ![j] = AfterStall(@)]
    /\ UNCHANGED <<message, redis, world, api, chat, tally>>

\* The same check while the run goes on (the worker lost Redis for longer than
\* the job's lock): the job becomes k, the run j goes on without a job.
Stall(j) ==
    /\ "stall" \in Events
    /\ j \in Active
    /\ job[j].slot = "own"
    /\ cuts[job[j].msg] < MaxCuts
    /\ cuts' = [cuts EXCEPT ![job[j].msg] = @ + 1]
    /\ \E k \in JobId :
         /\ At(k, "free")
         /\ job' = [job EXCEPT ![j].slot = "lost", ![k] = AfterStall(job[j])]
    /\ UNCHANGED <<message, redis, world, api, chat, accepted, attempts,
                   notified>>

\* POST /queue/retry-failed, one job at a time.
RetryFailed(j) ==
    /\ At(j, "failed")
    /\ Goto(j, "waiting")
    /\ UNCHANGED <<message, redis, world, api, chat, tally>>

\* removeOnFail: a failed job is dropped after a day.
DropFailed(j) ==
    /\ "drop" \in Events
    /\ At(j, "failed")
    /\ abandoned' = abandoned \cup {job[j].msg}
    /\ job' = [job EXCEPT ![j] = FreeJob]
    /\ UNCHANGED <<message, redis, world, intake, cancelling, told, chat, tally>>

-----------------------------------------------------------------------------
(* POST /chat/send: the panel sends through a chosen account, with the       *)
(* limits checked but without lock, cooldown or opt-out.                     *)

ChatSendAnyway(o, a) ==   \* Fault: the limits do not apply to the panel.
    /\ chat[o].pc = "idle"
    /\ line[a] \in {"ready", "withheld"}
    /\ chat' = [chat EXCEPT ![o] = [pc |-> "send", acct |-> a]]
    /\ UNCHANGED <<message, job, redis, world, api, tally>>

ChatSend(o, a) ==
    /\ chat[o].pc = "idle"
    /\ sent[a] < Limit[a]
    /\ line[a] \in {"ready", "withheld"}
    /\ chat' = [chat EXCEPT ![o] = [pc |-> "send", acct |-> a]]
    /\ UNCHANGED <<message, job, redis, world, api, tally>>

ChatOutcome(o) ==
    /\ chat[o].pc = "send"
    /\ \/ chat' = [chat EXCEPT ![o].pc = "count"]
       \/ chat' = [chat EXCEPT ![o] = [pc |-> "idle", acct |-> None]]
    /\ UNCHANGED <<message, job, redis, world, api, tally>>

ChatCount(o) ==
    /\ chat[o].pc = "count"
    /\ sent' = [sent EXCEPT ![chat[o].acct] = @ + 1]
    /\ chat' = [chat EXCEPT ![o] = [pc |-> "idle", acct |-> None]]
    /\ UNCHANGED <<message, job, lock, cooldown, existence, world, api, tally>>

-----------------------------------------------------------------------------
(* The environment. *)

\* The 30 s TTL of a lock runs out; its holder, if any, does not notice.
ExpireLock(a) ==
    /\ lock[a] # None
    /\ lock[a] = Orphan \/ "lapse" \in Events
    /\ lock' = [lock EXCEPT ![a] = None]
    /\ job' = [j \in JobId |-> IF j = lock[a]
                               THEN [job[j] EXCEPT !.lease = "lapsed"]
                               ELSE job[j]]
    /\ UNCHANGED <<message, sent, cooldown, existence, world, api, chat, tally>>

EndCooldown(a) ==
    /\ a \in cooldown
    /\ cooldown' = cooldown \ {a}
    /\ UNCHANGED <<message, job, lock, sent, existence, world, api, chat, tally>>

\* The counting window of the account turns over.
NewWindow(a) ==
    /\ "window" \in Events
    /\ sent' = [sent EXCEPT ![a] = 0]
    /\ UNCHANGED <<message, job, lock, cooldown, existence, world, api, chat,
                   tally>>

\* An entry of the existence cache reaches its TTL of 7 days.
ForgetExistence(c) ==
    /\ "forget" \in Events
    /\ existence' = [existence EXCEPT ![c] = "unknown"]
    /\ UNCHANGED <<message, job, lock, sent, cooldown, world, api, chat, tally>>

\* suppressContact: the recipient asks to opt out.
OptOut(c) ==
    /\ "optout" \in Events
    /\ suppressed' = suppressed \cup {c}
    /\ UNCHANGED <<message, job, redis, line, queue, hour, aged, api, chat,
                   tally>>

\* unsuppressContact: the panel lets the recipient in again.
OptIn(c) ==
    /\ "optout" \in Events
    /\ suppressed' = suppressed \ {c}
    /\ UNCHANGED <<message, job, redis, line, queue, hour, aged, api, chat,
                   tally>>

\* A session comes up, goes down, or its account is taken out of the draw.
ChangeLine(a, l) ==
    /\ "line" \in Events \/ (line[a] = "missing" /\ l = "ready")
    /\ line' = [line EXCEPT ![a] = l]
    /\ UNCHANGED <<message, job, redis, suppressed, queue, hour, aged, api, chat,
                   tally>>

\* POST /queue/pause and /queue/resume.
PauseOrResume ==
    /\ "pause" \in Events
    /\ queue' = IF queue = "running" THEN "paused" ELSE "running"
    /\ UNCHANGED <<message, job, redis, suppressed, line, hour, aged, api, chat,
                   tally>>

\* The local clock enters or leaves the window of silence.
TurnHour ==
    /\ "hour" \in Events
    /\ hour' = IF hour = "day" THEN "silent" ELSE "day"
    /\ UNCHANGED <<message, job, redis, suppressed, line, queue, aged, api, chat,
                   tally>>

\* A message reaches the age of 24 h.
Age(m) ==
    /\ "age" \in Events
    /\ message[m] # "ABSENT"
    /\ aged' = aged \cup {m}
    /\ UNCHANGED <<message, job, redis, suppressed, line, queue, hour, api, chat,
                   tally>>

-----------------------------------------------------------------------------
Failing(j) == FailMessage(j) \/ RetrySameAccount(j) \/ FallbackOtherAccount(j)

Step(j) ==
    \/ Start(j) \/ ReadMessage(j) \/ Gate(j) \/ SelectAccount(j) \/ NoAccount(j)
    \/ SessionMissing(j) \/ AcquireAccountLock(j) \/ LockBusy(j) \/ Pace(j)
    \/ MarkSending(j) \/ Send(j) \/ Record(j) \/ Count(j) \/ Ack(j) \/ Notify(j)
    \/ Reject(j) \/ Failing(j) \/ BackToQueued(j) \/ Report(j)
    \/ ReleaseAccountLock(j) \/ Complete(j) \/ Fail(j)

Interruption ==
    \/ Crash
    \/ \E j \in JobId : \/ Throw(j) \/ Stall(j) \/ RecoverStalled(j)
                        \/ RetryFailed(j) \/ DropFailed(j)

Request ==
    \/ \E m \in Message : \/ Post(m) \/ Enqueue(m) \/ LoseIntake(m)
                          \/ CancelRead(m) \/ CancelWrite(m)
    \/ \E o \in Operator : \/ ChatOutcome(o) \/ ChatCount(o)
                           \/ \E a \in Account : ChatSend(o, a)

Environment ==
    \/ PauseOrResume \/ TurnHour
    \/ \E a \in Account : \/ ExpireLock(a) \/ EndCooldown(a) \/ NewWindow(a)
                          \/ \E l \in {"ready", "withheld", "closed", "missing"} :
                                ChangeLine(a, l)
    \/ \E c \in Contact : ForgetExistence(c) \/ OptOut(c) \/ OptIn(c)
    \/ \E m \in Message : Age(m)

Next == (\E j \in JobId : Step(j)) \/ Interruption \/ Request \/ Environment

Spec == Init /\ [][Next]_vars

=============================================================================
