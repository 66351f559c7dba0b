--------------------------- MODULE OutboundProofs ---------------------------
(***************************************************************************)
(* Theorems about the outbound queue, for any number of messages, accounts *)
(* and jobs.                                                               *)
(***************************************************************************)
EXTENDS OutboundProperties, FiniteSetTheorems, WellFoundedInduction, TLAPS

-----------------------------------------------------------------------------
(* SendPolicy. *)

\* A non-empty set of rule numbers has a least element.
LEMMA LeastRule ==
    ASSUME NEW S, S \subseteq 1..17, S # {}
    PROVE  \E i \in S : \A k \in S : i =< k
  <1>1. S \subseteq Nat
    OBVIOUS
  <1>2. PICK i \in S : \A k \in S : ~ (<<k, i>> \in OpToRel(<, Nat))
    BY <1>1, NatLessThanWellFounded, WFMin
  <1>3. \A k \in S : ~ (k < i)
    BY <1>1, <1>2 DEF OpToRel
  <1> QED
    BY <1>1, <1>3

\* Each rule answers with a code of the taxonomy.
LEMMA RuleCodes ==
    /\ DOMAIN Rules = 1..17
    /\ \A i \in 1..17 : Rules[i].code \in SendErrorCode
  <1>0. DOMAIN Rules = 1..17
    BY DEF Rules
  <1> USE DEF Rules, SendErrorCode, FAIL_PERMANENT, FALLBACK_OTHER_ACCOUNT,
              RETRY_SAME_ACCOUNT
  <1>1. Rules[1].code \in SendErrorCode
    OBVIOUS
  <1>2. Rules[2].code \in SendErrorCode
    OBVIOUS
  <1>3. Rules[3].code \in SendErrorCode
    OBVIOUS
  <1>4. Rules[4].code \in SendErrorCode
    OBVIOUS
  <1>5. Rules[5].code \in SendErrorCode
    OBVIOUS
  <1>6. Rules[6].code \in SendErrorCode
    OBVIOUS
  <1>7. Rules[7].code \in SendErrorCode
    OBVIOUS
  <1>8. Rules[8].code \in SendErrorCode
    OBVIOUS
  <1>9. Rules[9].code \in SendErrorCode
    OBVIOUS
  <1>10. Rules[10].code \in SendErrorCode
    OBVIOUS
  <1>11. Rules[11].code \in SendErrorCode
    OBVIOUS
  <1>12. Rules[12].code \in SendErrorCode
    OBVIOUS
  <1>13. Rules[13].code \in SendErrorCode
    OBVIOUS
  <1>14. Rules[14].code \in SendErrorCode
    OBVIOUS
  <1>15. Rules[15].code \in SendErrorCode
    OBVIOUS
  <1>16. Rules[16].code \in SendErrorCode
    OBVIOUS
  <1>17. Rules[17].code \in SendErrorCode
    OBVIOUS
  <1> HIDE DEF Rules, SendErrorCode
  <1> QED
    BY <1>0, <1>1, <1>2, <1>3, <1>4, <1>5, <1>6, <1>7, <1>8, <1>9, <1>10,
       <1>11, <1>12, <1>13, <1>14, <1>15, <1>16, <1>17

\* classifySendError always answers with a code of the taxonomy.
LEMMA ClassifiedInTaxonomy ==
    ASSUME NEW ctx
    PROVE  ClassifySendError(ctx) \in SendErrorCode
  <1> DEFINE fires == {i \in DOMAIN Rules : Rules[i].when \cap ctx # {}}
  <1>1. CASE fires = {}
    BY <1>1 DEF ClassifySendError, SendErrorCode, RETRY_SAME_ACCOUNT
  <1>2. CASE fires # {}
    <2>1. fires \subseteq 1..17
      BY RuleCodes
    <2>2. \E i \in fires : \A k \in fires : i =< k
      BY <1>2, <2>1, LeastRule
    <2> QED
      BY <1>2, <2>1, <2>2, RuleCodes DEF ClassifySendError
  <1> QED
    BY <1>1, <1>2

-----------------------------------------------------------------------------
(* The records of the jobs. *)

\* Steps that use job[j].acct.
WithAccount == {"lock", "failing"} \cup InTry

\* A list of tried accounts that a job may carry.
TriedOK(t) ==
    /\ t \in Seq(Account)
    /\ Len(t) < MaxAttempts
    /\ \A i, k \in DOMAIN t : t[i] = t[k] => i = k

\* What is true of the record of each job, between any two steps.
Fit(r) ==
    /\ r.pc # "free" => r.msg \in Message
    /\ r.pc \in WithAccount => r.acct \in Account
    /\ r.pc = "notify" => r.result \in SentStatus
    /\ r.lease # "none" => r.pc \in InTry \cup Leaving /\ r.acct \in Account
    /\ TriedOK(r.tried)
    /\ \A i \in DOMAIN r.tried : r.tried[i] # r.acct

GoodJob == {r \in Job : Fit(r)}
JobsFit == job \in [JobId -> GoodJob]

USE OutboundAssumption, MaxAttemptsAssumption DEF At

LEMMA EmptyTried == TriedOK(<<>>)
  BY DEF TriedOK

LEMMA LongerTried ==
    ASSUME NEW t, TriedOK(t), NEW a \in Account,
           \A i \in DOMAIN t : t[i] # a, Len(t) + 1 < MaxAttempts
    PROVE  TriedOK(Append(t, a))
  BY DEF TriedOK

\* No account that was tried is None.
LEMMA NoneUntried ==
    ASSUME NEW t, TriedOK(t)
    PROVE  \A i \in DOMAIN t : t[i] # None
  BY DEF TriedOK

\* The record of a job that is in the queue is fit.
LEMMA QueuedFits ==
    ASSUME NEW m \in Message, NEW t, TriedOK(t),
           NEW p \in {"waiting", "failed", "stalled"}, NEW n \in Nat
    PROVE  /\ NewJob(m, t) \in GoodJob
           /\ [NewJob(m, t) EXCEPT !.pc = p, !.stalls = n] \in GoodJob
  <1> DEFINE r == NewJob(m, t)
             q == [r EXCEPT !.pc = p, !.stalls = n]
  <1>1. t \in Seq(Account)
    BY DEF TriedOK
  <1>2. r \in Job /\ q \in Job
    BY <1>1 DEF Job, NewJob, PC, Existence
  <1>3. /\ r.pc = "waiting" /\ r.msg = m /\ r.tried = t /\ r.acct = None
        /\ r.lease = "none" /\ q.pc = p /\ q.msg = m /\ q.tried = t
        /\ q.acct = None /\ q.lease = "none"
    BY DEF NewJob
  <1>4. p \notin WithAccount /\ "waiting" \notin WithAccount /\ p # "notify"
    BY DEF WithAccount, InTry
  <1> HIDE DEF r, q
  <1>5. r \in GoodJob /\ q \in GoodJob
    BY <1>2, <1>3, <1>4, NoneUntried DEF GoodJob, Fit
  <1> QED
    BY <1>5 DEF r, q

LEMMA FreeFits == FreeJob \in GoodJob
  <1>0. <<>> \in Seq(Account)
    OBVIOUS
  <1>1. FreeJob \in Job
    BY <1>0 DEF FreeJob, Job, NewJob, PC, Existence
  <1>2. /\ FreeJob.pc = "free" /\ FreeJob.tried = <<>> /\ FreeJob.lease = "none"
        /\ "free" \notin WithAccount
    BY DEF FreeJob, NewJob, WithAccount, InTry
  <1> QED
    BY <1>1, <1>2, EmptyTried DEF GoodJob, Fit

\* A run moves on within the steps where it needs nothing new.
LEMMA MoveFits ==
    ASSUME NEW r \in GoodJob, r.pc # "free", NEW p \in PC, p # "notify",
           p \in WithAccount => r.acct \in Account,
           r.lease # "none" => p \in InTry \cup Leaving
    PROVE  [r EXCEPT !.pc = p] \in GoodJob
  BY DEF GoodJob, Fit, Job

\* So do one job, and one job that enqueues another.
LEMMA OneJobFits ==
    ASSUME JobsFit, NEW j \in JobId, NEW r \in GoodJob,
           job' = [job EXCEPT ![j] = r]
    PROVE  JobsFit'
  BY DEF JobsFit

LEMMA GotoFits ==
    ASSUME JobsFit, NEW j \in JobId, ~ At(j, "free"), NEW p \in PC, p # "notify",
           p \in WithAccount => job[j].acct \in Account,
           job[j].lease # "none" => p \in InTry \cup Leaving,
           Goto(j, p)
    PROVE  JobsFit'
  <1>1. job[j] \in GoodJob
    BY DEF JobsFit
  <1>2. [job[j] EXCEPT !.pc = p] \in GoodJob
    BY <1>1, MoveFits
  <1> QED
    BY <1>2, OneJobFits DEF Goto

LEMMA EnqueueFits ==
    ASSUME JobsFit, NEW j \in JobId, ~ At(j, "free"), NEW t, TriedOK(t),
           NEW p \in {"exit", "back"}, EnqueueAndGoto(j, t, p)
    PROVE  JobsFit'
  <1>1. PICK k \in JobId :
            /\ At(k, "free")
            /\ job' = [job EXCEPT ![j].pc = p, ![k] = NewJob(job[j].msg, t)]
    BY DEF EnqueueAndGoto
  <1>2. job[j] \in GoodJob /\ job[j].msg \in Message
    BY DEF JobsFit, GoodJob, Fit
  <1>3. NewJob(job[j].msg, t) \in GoodJob
    BY <1>2, QueuedFits
  <1>4. p \in PC /\ p # "notify" /\ p \notin WithAccount /\ p \in Leaving
    BY DEF PC, Running, Leaving, WithAccount, InTry
  <1>5. [job[j] EXCEPT !.pc = p] \in GoodJob
    BY <1>2, <1>4, MoveFits
  <1> QED
    BY <1>1, <1>3, <1>5 DEF JobsFit

\* A run that is turned down: it holds no lock yet, or is on its way out.
LEMMA ResultFits ==
    ASSUME JobsFit, NEW j \in JobId, ~ At(j, "free"), NEW p \in PC \ WithAccount,
           p # "notify", NEW x \in SendErrorCode,
           job[j].lease # "none" => p \in Leaving,
           job' = [job EXCEPT ![j] = [@ EXCEPT !.pc = p, !.result = x]]
    PROVE  JobsFit'
  <1>1. job[j] \in GoodJob
    BY DEF JobsFit
  <1>2. [job[j] EXCEPT !.pc = p, !.result = x] \in GoodJob
    BY <1>1 DEF GoodJob, Fit, Job
  <1> QED
    BY <1>2, OneJobFits

\* What a job in the queue, or a run without a lock, knows of itself.
LEMMA FitFacts ==
    ASSUME JobsFit, NEW j \in JobId
    PROVE  /\ job[j] \in Job
           /\ ~ At(j, "free") => job[j].msg \in Message
           /\ job[j].pc \in WithAccount => job[j].acct \in Account
           /\ job[j].pc \notin InTry \cup Leaving => job[j].lease = "none"
           /\ job[j].lease # "none" => job[j].acct \in Account
           /\ TriedOK(job[j].tried)
           /\ job[j].acct \notin Tried(j)
  BY DEF JobsFit, GoodJob, Fit, Tried, Job

\* A fallback is only decided while another account may still be tried.
LEMMA FallbackLeavesRoom ==
    ASSUME NEW code, NEW n \in Nat,
           DecideAfterAttempt(code, n) = "fallback_other_account"
    PROVE  n < MaxAttempts
  BY DEF DecideAfterAttempt

\* Every step of processOutbound keeps the records fit.
LEMMA StepFits ==
    ASSUME JobsFit, RedisOK, NEW j \in JobId, Step(j)
    PROVE  JobsFit'
  <1> USE DEF PC, Running, Leaving, WithAccount, InTry
  <1>0. job[j] \in GoodJob
    BY DEF JobsFit
  <1>1. CASE Start(j)
    BY <1>1, FitFacts, GotoFits DEF Start
  <1>2. CASE ReadMessage(j)
    <2>1. CASE Goto(j, "exit")
      BY <1>2, <2>1, FitFacts, GotoFits DEF ReadMessage
    <2>2. CASE Goto(j, "gate")
      BY <1>2, <2>2, FitFacts, GotoFits DEF ReadMessage
    <2>3. CASE TurnDown(j, "EXPIRED_IN_QUEUE")
      <3>1. "EXPIRED_IN_QUEUE" \in SendErrorCode
        BY DEF SendErrorCode, FAIL_PERMANENT
      <3> QED
        BY <1>2, <2>3, <3>1, FitFacts, ResultFits DEF ReadMessage, TurnDown
    <2> QED
      BY <1>2, <2>1, <2>2, <2>3 DEF ReadMessage
  <1>3. CASE Gate(j)
    <2>1. job[j].lease = "none" /\ ~ At(j, "free")
      BY <1>3, FitFacts DEF Gate
    <2>2. \A x \in {"NUMBER_NOT_ON_WHATSAPP", "RECIPIENT_OPTED_OUT"} :
             TurnDown(j, x) => JobsFit'
      <3>1. {"NUMBER_NOT_ON_WHATSAPP", "RECIPIENT_OPTED_OUT"} \subseteq SendErrorCode
        BY DEF SendErrorCode, FAIL_PERMANENT
      <3> QED
        BY <2>1, <3>1, ResultFits DEF TurnDown
    <2>3. ASSUME job' = [job EXCEPT ![j] = [@ EXCEPT
                              !.pc = "select", !.cached = existence[ToOf(j)]]]
          PROVE  JobsFit'
      <3>1. existence[ToOf(j)] \in Existence
        BY <2>1, FitFacts DEF ToOf, RedisOK
      <3>2. [job[j] EXCEPT !.pc = "select", !.cached = existence[ToOf(j)]]
              \in GoodJob
        BY <1>0, <2>1, <3>1 DEF GoodJob, Fit, Job
      <3> QED
        BY <2>3, <3>2, OneJobFits
    <2> QED
      BY <1>3, <2>2, <2>3 DEF Gate
  <1>4. CASE SelectAccount(j)
    <2>1. PICK a \in Eligible(j) :
             job' = [job EXCEPT ![j] = [@ EXCEPT !.pc = "lock", !.acct = a]]
      BY <1>4 DEF SelectAccount
    <2>2. a \in Account /\ \A i \in DOMAIN job[j].tried : job[j].tried[i] # a
      BY DEF Eligible, Tried
    <2>3. [job[j] EXCEPT !.pc = "lock", !.acct = a] \in GoodJob
      BY <1>0, <1>4, <2>2, FitFacts DEF GoodJob, Fit, Job, SelectAccount
    <2> QED
      BY <2>1, <2>3, OneJobFits
  <1>5. CASE NoAccount(j)
    <2>1. CASE EnqueueAndGoto(j, <<>>, "exit")
      BY <1>5, <2>1, EmptyTried, EnqueueFits DEF NoAccount
    <2>2. CASE TurnDown(j, "NO_ACCOUNTS_AVAILABLE")
      <3>1. "NO_ACCOUNTS_AVAILABLE" \in SendErrorCode
        BY DEF SendErrorCode, RETRY_SAME_ACCOUNT
      <3> QED
        BY <1>5, <2>2, <3>1, FitFacts, ResultFits DEF NoAccount, TurnDown
    <2> QED
      BY <1>5, <2>1, <2>2 DEF NoAccount
  <1>6. CASE SessionMissing(j)
    <2>1. job[j].acct \in Account /\ job[j].lease = "none"
      BY <1>6, FitFacts DEF SessionMissing
    <2>2. "ACCOUNT_DISCONNECTED" \in SendErrorCode
      BY DEF SendErrorCode, FALLBACK_OTHER_ACCOUNT
    <2>3. [job[j] EXCEPT !.pc = "failing", !.result = "ACCOUNT_DISCONNECTED"]
            \in GoodJob
      BY <1>0, <1>6, <2>1, <2>2 DEF GoodJob, Fit, Job, SessionMissing
    <2> QED
      BY <1>6, <2>3, OneJobFits DEF SessionMissing
  <1>7. CASE AcquireAccountLock(j)
    <2>1. job[j].acct \in Account
      BY <1>7, FitFacts DEF AcquireAccountLock
    <2>2. [job[j] EXCEPT !.pc = "pace", !.lease = "held"] \in GoodJob
      BY <1>0, <1>7, <2>1 DEF GoodJob, Fit, Job, AcquireAccountLock
    <2> QED
      BY <1>7, <2>2, OneJobFits DEF AcquireAccountLock
  <1>8. CASE LockBusy(j)
    BY <1>8, FitFacts, EnqueueFits DEF LockBusy
  <1>9. CASE Pace(j)
    <2>1. CASE EnqueueAndGoto(j, job[j].tried, "exit")
      BY <1>9, <2>1, FitFacts, EnqueueFits DEF Pace
    <2>2. CASE Goto(j, "mark")
      BY <1>9, <2>2, FitFacts, GotoFits DEF Pace
    <2> QED
      BY <1>9, <2>1, <2>2 DEF Pace
  <1>10. CASE MarkSending(j)
    BY <1>10, FitFacts, GotoFits DEF MarkSending
  <1>11. CASE Send(j)
    <2>1. PICK r \in SendOutcome(j) :
             job' = [job EXCEPT ![j] = [@ EXCEPT !.pc = "record", !.result = r]]
      BY <1>11 DEF Send
    <2>2. r \in {"ok"} \cup SendErrorCode
      BY ClassifiedInTaxonomy DEF SendOutcome
    <2>3. job[j].acct \in Account
      BY <1>11, FitFacts DEF Send
    <2>4. [job[j] EXCEPT !.pc = "record", !.result = r] \in GoodJob
      BY <1>0, <1>11, <2>2, <2>3 DEF GoodJob, Fit, Job, Send
    <2> QED
      BY <2>1, <2>4, OneJobFits
  <1>12. CASE Record(j)
    BY <1>12, FitFacts, GotoFits DEF Record
  <1>13. CASE Count(j)
    BY <1>13, FitFacts, GotoFits DEF Count
  <1>14. CASE Ack(j)
    <2>1. PICK s \in SentStatus :
             job' = [job EXCEPT ![j] = [@ EXCEPT !.pc = "notify", !.result = s]]
      BY <1>14 DEF Ack
    <2>2. job[j].acct \in Account
      BY <1>14, FitFacts DEF Ack
    <2>3. [job[j] EXCEPT !.pc = "notify", !.result = s] \in GoodJob
      BY <1>0, <1>14, <2>1, <2>2 DEF GoodJob, Fit, Job, Ack
    <2> QED
      BY <2>1, <2>3, OneJobFits
  <1>15. CASE Notify(j)
    BY <1>15, FitFacts, GotoFits DEF Notify
  <1>16. CASE Reject(j)
    BY <1>16, FitFacts, GotoFits DEF Reject
  <1>17. CASE FailMessage(j)
    BY <1>17, FitFacts, GotoFits DEF FailMessage
  <1>18. CASE RetrySameAccount(j)
    BY <1>18, FitFacts, EnqueueFits DEF RetrySameAccount
  <1>19. CASE FallbackOtherAccount(j)
    <2>1. /\ job[j].acct \in Account
          /\ \A i \in DOMAIN job[j].tried : job[j].tried[i] # job[j].acct
      BY <1>19, FitFacts DEF FallbackOtherAccount, Tried
    <2>2. Len(job[j].tried) + 1 < MaxAttempts
      BY <1>19, FitFacts, FallbackLeavesRoom DEF FallbackOtherAccount,
         Decision, AttemptOf, TriedOK
    <2>3. TriedOK(Append(job[j].tried, job[j].acct))
      BY <2>1, <2>2, FitFacts, LongerTried
    <2> QED
      BY <1>19, <2>3, EnqueueFits DEF FallbackOtherAccount
  <1>20. CASE BackToQueued(j)
    BY <1>20, FitFacts, GotoFits DEF BackToQueued
  <1>21. CASE Report(j)
    BY <1>21, FitFacts, GotoFits DEF Report
  <1>22. CASE ReleaseAccountLock(j)
    <2>1. [job[j] EXCEPT !.lease = "none"] \in GoodJob
      BY <1>0 DEF GoodJob, Fit, Job
    <2> QED
      BY <1>22, <2>1, OneJobFits DEF ReleaseAccountLock
  <1>23. CASE Complete(j)
    BY <1>23, FreeFits, OneJobFits DEF Complete
  <1>24. CASE Fail(j)
    <2>1. CASE job' = [job EXCEPT ![j] = FreeJob]
      BY <2>1, FreeFits, OneJobFits
    <2>2. CASE job' = [job EXCEPT ![j] = [NewJob(job[j].msg, job[j].tried) EXCEPT
                                            !.pc = "failed", !.stalls = job[j].stalls]]
      <3>1. job[j].msg \in Message /\ TriedOK(job[j].tried) /\ job[j].stalls \in Nat
        BY <1>24, FitFacts DEF Fail, Job
      <3> QED
        BY <2>2, <3>1, QueuedFits, OneJobFits
    <2> QED
      BY <1>24, <2>1, <2>2 DEF Fail
  <1> QED
    BY <1>1, <1>2, <1>3, <1>4, <1>5, <1>6, <1>7, <1>8, <1>9, <1>10, <1>11,
       <1>12, <1>13, <1>14, <1>15, <1>16, <1>17, <1>18, <1>19, <1>20, <1>21,
       <1>22, <1>23, <1>24
    DEF Step, Failing

-----------------------------------------------------------------------------
(* Interrupted runs, requests and the environment. *)

\* A run that died leaves a job that waits, or nothing.
LEMMA AfterFits ==
    ASSUME NEW r \in GoodJob, r.pc # "free"
    PROVE  AfterStall(r) \in GoodJob /\ AfterCrash(r) \in GoodJob
  <1>1. r.msg \in Message /\ TriedOK(r.tried) /\ r.stalls \in Nat
    BY DEF GoodJob, Fit, Job
  <1>2. AfterStall(r) \in GoodJob
    <2> DEFINE p == IF r.stalls = 0 THEN "waiting" ELSE "failed"
    <2>1. p \in {"waiting", "failed", "stalled"} /\ r.stalls + 1 \in Nat
      BY <1>1
    <2>2. [NewJob(r.msg, r.tried) EXCEPT !.pc = p, !.stalls = r.stalls + 1]
            \in GoodJob
      <3> HIDE DEF p
      <3> QED
        BY <1>1, <2>1, QueuedFits
    <2> QED
      BY <2>2 DEF AfterStall
  <1>3. AfterCrash(r) \in GoodJob
    BY <1>1, QueuedFits, FreeFits DEF AfterCrash
  <1> QED
    BY <1>2, <1>3

LEMMA InterruptionFits ==
    ASSUME JobsFit, Interruption
    PROVE  JobsFit'
  <1>1. CASE Crash
    <2>1. \A j \in Active : AfterCrash(job[j]) \in GoodJob
      BY AfterFits DEF Active, JobsFit, Running, InTry, Leaving
    <2> QED
      BY <1>1, <2>1 DEF Crash, JobsFit
  <1>2. ASSUME NEW j \in JobId, Throw(j)
        PROVE  JobsFit'
    <2>1. ~ At(j, "free")
      BY <1>2 DEF Throw, Running, InTry, Leaving
    <2>2. "abort" \in PC /\ "abort" \in Leaving /\ "abort" \notin WithAccount
      BY DEF PC, Running, Leaving, WithAccount, InTry
    <2> QED
      BY <1>2, <2>1, <2>2, GotoFits DEF Throw
  <1>3. ASSUME NEW j \in JobId, Stall(j)
        PROVE  JobsFit'
    <2>1. PICK k \in JobId :
            /\ At(k, "free")
            /\ job' = [job EXCEPT ![j].slot = "lost", ![k] = AfterStall(job[j])]
      BY <1>3 DEF Stall
    <2>2. job[j] \in GoodJob /\ ~ At(j, "free")
      BY <1>3 DEF Stall, Active, JobsFit, Running, InTry, Leaving
    <2>3. AfterStall(job[j]) \in GoodJob
      BY <2>2, AfterFits
    <2>4. [job[j] EXCEPT !.slot = "lost"] \in GoodJob
      BY <2>2 DEF GoodJob, Fit, Job
    <2> QED
      BY <2>1, <2>3, <2>4 DEF JobsFit
  <1>4. ASSUME NEW j \in JobId, RecoverStalled(j)
        PROVE  JobsFit'
    <2>1. AfterStall(job[j]) \in GoodJob
      BY <1>4, AfterFits DEF RecoverStalled, JobsFit
    <2> QED
      BY <1>4, <2>1, OneJobFits DEF RecoverStalled
  <1>5. ASSUME NEW j \in JobId, RetryFailed(j)
        PROVE  JobsFit'
    <2>1. job[j].lease = "none"
      BY <1>5, FitFacts DEF RetryFailed, InTry, Leaving
    <2> QED
      BY <1>5, <2>1, GotoFits DEF RetryFailed, PC, WithAccount, InTry
  <1>6. ASSUME NEW j \in JobId, DropFailed(j)
        PROVE  JobsFit'
    BY <1>6, FreeFits, OneJobFits DEF DropFailed
  <1> QED
    BY <1>1, <1>2, <1>3, <1>4, <1>5, <1>6 DEF Interruption

LEMMA RequestFits ==
    ASSUME JobsFit, Request
    PROVE  JobsFit'
  <1>1. ASSUME NEW m \in Message, Enqueue(m)
        PROVE  JobsFit'
    BY <1>1, EmptyTried, QueuedFits, OneJobFits DEF Enqueue
  <1>2. CASE UNCHANGED job
    BY <1>2 DEF JobsFit
  <1> QED
    BY <1>1, <1>2 DEF Request, Post, LoseIntake, CancelRead, CancelWrite,
       ChatOutcome,
                      ChatCount, ChatSend

-----------------------------------------------------------------------------
(* The account locks. *)

\* A run that believes it holds a lock holds it, and a lock that carries the
\* token of a run is held by that run.
LockInv ==
    /\ \A j \in JobId : job[j].lease = "held" => lock[job[j].acct] = j
    /\ \A a \in Account : lock[a] \in JobId =>
          job[lock[a]].lease = "held" /\ job[lock[a]].acct = a

LEMMA EnvironmentFits ==
    ASSUME JobsFit, LockInv, Environment
    PROVE  JobsFit'
  <1>1. ASSUME NEW a \in Account, ExpireLock(a)
        PROVE  JobsFit'
    <2>1. ASSUME NEW j \in JobId, j = lock[a]
          PROVE  [job[j] EXCEPT !.lease = "lapsed"] \in GoodJob
      <3>1. job[j] \in GoodJob /\ job[j].lease = "held"
        BY <1>1, <2>1 DEF LockInv, JobsFit, ExpireLock
      <3> QED
        BY <3>1 DEF GoodJob, Fit, Job
    <2> QED
      BY <1>1, <2>1 DEF ExpireLock, JobsFit
  <1>2. CASE UNCHANGED job
    BY <1>2 DEF JobsFit
  <1> QED
    BY <1>1, <1>2 DEF Environment, PauseOrResume, TurnHour, EndCooldown, NewWindow,
                      ChangeLine, ForgetExistence, OptOut, OptIn, Age

\* No run takes or loses a lock.
SameHolders ==
    \A i \in JobId : /\ job'[i].lease = job[i].lease
                     /\ job[i].lease = "held" => job'[i].acct = job[i].acct

LEMMA LocksKept ==
    ASSUME LockInv, JobsFit, SameHolders, lock' = lock
    PROVE  LockInv'
  BY DEF LockInv, SameHolders

LEMMA OneJobHolds ==
    ASSUME JobsFit, NEW j \in JobId, NEW r, job' = [job EXCEPT ![j] = r],
           r.lease = job[j].lease, r.acct = job[j].acct \/ r.lease = "none"
    PROVE  SameHolders
  BY DEF SameHolders, JobsFit

LEMMA GotoHolds ==
    ASSUME JobsFit, NEW j \in JobId, NEW p, Goto(j, p)
    PROVE  SameHolders
  <1> DEFINE r == [job[j] EXCEPT !.pc = p]
  <1>1. r.lease = job[j].lease /\ r.acct = job[j].acct
    BY DEF JobsFit, GoodJob, Job
  <1> QED
    BY <1>1, OneJobHolds DEF Goto

LEMMA EnqueueHolds ==
    ASSUME JobsFit, NEW j \in JobId, NEW t, NEW p, EnqueueAndGoto(j, t, p),
           ~ At(j, "free")
    PROVE  SameHolders
  <1>1. PICK k \in JobId :
            /\ At(k, "free")
            /\ job' = [job EXCEPT ![j].pc = p, ![k] = NewJob(job[j].msg, t)]
    BY DEF EnqueueAndGoto
  <1>2. job[k].lease = "none"
    BY <1>1, FitFacts DEF InTry, Leaving
  <1>3. NewJob(job[j].msg, t).lease = "none"
    BY DEF NewJob
  <1>4. /\ [job[j] EXCEPT !.pc = p].lease = job[j].lease
        /\ [job[j] EXCEPT !.pc = p].acct = job[j].acct
    BY DEF JobsFit, GoodJob, Job
  <1> QED
    BY <1>1, <1>2, <1>3, <1>4 DEF SameHolders, JobsFit

\* Turning a message down, and any other step that leaves lease and acct alone.
LEMMA FieldsHold ==
    ASSUME JobsFit, NEW j \in JobId, NEW p, NEW x
    PROVE  /\ job' = [job EXCEPT ![j] = [@ EXCEPT !.pc = p, !.result = x]]
              => SameHolders
           /\ job' = [job EXCEPT ![j] = [@ EXCEPT !.pc = p, !.cached = x]]
              => SameHolders
  <1> DEFINE r == [job[j] EXCEPT !.pc = p, !.result = x]
             q == [job[j] EXCEPT !.pc = p, !.cached = x]
  <1>1. /\ r.lease = job[j].lease /\ r.acct = job[j].acct
        /\ q.lease = job[j].lease /\ q.acct = job[j].acct
    BY DEF JobsFit, GoodJob, Job
  <1> QED
    BY <1>1, OneJobHolds

\* Every step of processOutbound keeps the locks in order.
LEMMA StepLocks ==
    ASSUME JobsFit, LockInv, lock \in [Account -> JobId \cup {None, Orphan}],
           NEW j \in JobId, Step(j)
    PROVE  LockInv'
  <1> USE DEF redis
  <1>1. CASE Start(j)
    BY <1>1, GotoHolds, LocksKept DEF Start
  <1>2. CASE ReadMessage(j)
    <2>1. SameHolders
      BY <1>2, GotoHolds, FieldsHold DEF ReadMessage, TurnDown
    <2> QED
      BY <1>2, <2>1, LocksKept DEF ReadMessage
  <1>3. CASE Gate(j)
    <2>1. SameHolders
      BY <1>3, FieldsHold DEF Gate, TurnDown
    <2> QED
      BY <1>3, <2>1, LocksKept DEF Gate
  <1>4. CASE SelectAccount(j)
    <2>1. PICK a \in Eligible(j) :
             job' = [job EXCEPT ![j] = [@ EXCEPT !.pc = "lock", !.acct = a]]
      BY <1>4 DEF SelectAccount
    <2>2. job[j].lease = "none"
      BY <1>4, FitFacts DEF SelectAccount, InTry, Leaving
    <2>3. [job[j] EXCEPT !.pc = "lock", !.acct = a].lease = "none"
      BY <2>2 DEF JobsFit, GoodJob, Job
    <2>4. SameHolders
      BY <2>1, <2>2, <2>3, OneJobHolds
    <2> QED
      BY <1>4, <2>4, LocksKept DEF SelectAccount
  <1>5. CASE NoAccount(j)
    <2>1. SameHolders
      BY <1>5, EnqueueHolds, FieldsHold DEF NoAccount, TurnDown
    <2> QED
      BY <1>5, <2>1, LocksKept DEF NoAccount
  <1>6. CASE SessionMissing(j)
    <2>1. SameHolders
      BY <1>6, FieldsHold DEF SessionMissing
    <2> QED
      BY <1>6, <2>1, LocksKept DEF SessionMissing
  <1>7. CASE AcquireAccountLock(j)
    <2>1. job[j].acct \in Account /\ job[j].lease = "none"
      BY <1>7, FitFacts DEF AcquireAccountLock, WithAccount, InTry, Leaving
    <2>2. job'[j].lease = "held" /\ job'[j].acct = job[j].acct
      BY <1>7 DEF AcquireAccountLock, JobsFit, GoodJob, Job
    <2>3. \A i \in JobId \ {j} : job'[i] = job[i]
      BY <1>7 DEF AcquireAccountLock, JobsFit
    <2>4. lock[job[j].acct] = None /\ lock' = [lock EXCEPT ![job[j].acct] = j]
      BY <1>7 DEF AcquireAccountLock
    <2> QED
      BY <2>1, <2>2, <2>3, <2>4 DEF LockInv
  <1>8. CASE LockBusy(j)
    <2>1. SameHolders
      BY <1>8, EnqueueHolds DEF LockBusy
    <2> QED
      BY <1>8, <2>1, LocksKept DEF LockBusy
  <1>9. CASE Pace(j)
    <2>1. SameHolders
      BY <1>9, EnqueueHolds, GotoHolds DEF Pace
    <2> QED
      BY <1>9, <2>1, LocksKept DEF Pace
  <1>10. CASE MarkSending(j)
    BY <1>10, GotoHolds, LocksKept DEF MarkSending
  <1>11. CASE Send(j)
    <2>1. PICK r \in SendOutcome(j) :
             job' = [job EXCEPT ![j] = [@ EXCEPT !.pc = "record", !.result = r]]
      BY <1>11 DEF Send
    <2>2. SameHolders
      BY <2>1, FieldsHold
    <2> QED
      BY <1>11, <2>2, LocksKept DEF Send
  <1>12. CASE Record(j)
    BY <1>12, GotoHolds, LocksKept DEF Record
  <1>13. CASE Count(j)
    BY <1>13, GotoHolds, LocksKept DEF Count
  <1>14. CASE Ack(j)
    <2>1. SameHolders
      BY <1>14, FieldsHold DEF Ack
    <2> QED
      BY <1>14, <2>1, LocksKept DEF Ack
  <1>15. CASE Notify(j)
    BY <1>15, GotoHolds, LocksKept DEF Notify
  <1>16. CASE Reject(j)
    BY <1>16, GotoHolds, LocksKept DEF Reject
  <1>17. CASE FailMessage(j)
    BY <1>17, GotoHolds, LocksKept DEF FailMessage
  <1>18. CASE RetrySameAccount(j)
    <2>1. SameHolders
      BY <1>18, EnqueueHolds DEF RetrySameAccount
    <2> QED
      BY <1>18, <2>1, LocksKept DEF RetrySameAccount
  <1>19. CASE FallbackOtherAccount(j)
    <2>1. SameHolders
      BY <1>19, EnqueueHolds DEF FallbackOtherAccount
    <2> QED
      BY <1>19, <2>1, LocksKept DEF FallbackOtherAccount
  <1>20. CASE BackToQueued(j)
    BY <1>20, GotoHolds, LocksKept DEF BackToQueued
  <1>21. CASE Report(j)
    BY <1>21, GotoHolds, LocksKept DEF Report
  <1>22. CASE ReleaseAccountLock(j)
    <2>1. job[j].acct \in Account
      BY <1>22, FitFacts DEF ReleaseAccountLock
    <2>2. job'[j].lease = "none" /\ \A i \in JobId \ {j} : job'[i] = job[i]
      BY <1>22 DEF ReleaseAccountLock, JobsFit, GoodJob, Job
    <2>3. lock' = [lock EXCEPT ![job[j].acct] = IF @ = j THEN None ELSE @]
      BY <1>22 DEF ReleaseAccountLock
    <2>4. \A a \in Account : lock'[a] = IF lock[a] = j THEN None ELSE lock[a]
      BY <2>1, <2>3 DEF LockInv
    <2>5. ASSUME NEW i \in JobId, job'[i].lease = "held"
          PROVE  lock'[job'[i].acct] = i
      <3>1. i # j /\ job'[i] = job[i]
        BY <2>2, <2>5
      <3>2. lock[job[i].acct] = i /\ job[i].acct \in Account
        BY <2>5, <3>1, FitFacts DEF LockInv
      <3> QED
        BY <2>4, <3>1, <3>2
    <2>6. ASSUME NEW a \in Account, lock'[a] \in JobId
          PROVE  job'[lock'[a]].lease = "held" /\ job'[lock'[a]].acct = a
      <3>1. lock'[a] = lock[a] /\ lock[a] # j
        BY <2>4, <2>6
      <3> QED
        BY <2>2, <2>6, <3>1 DEF LockInv
    <2> QED
      BY <2>5, <2>6 DEF LockInv
  <1>23. CASE Complete(j)
    <2>1. FreeJob.lease = "none"
      BY DEF FreeJob, NewJob
    <2>2. SameHolders
      BY <1>23, <2>1, OneJobHolds DEF Complete
    <2> QED
      BY <1>23, <2>2, LocksKept DEF Complete
  <1>24. CASE Fail(j)
    <2> DEFINE r == [NewJob(job[j].msg, job[j].tried) EXCEPT
                        !.pc = "failed", !.stalls = job[j].stalls]
    <2>1. FreeJob.lease = "none" /\ r.lease = "none"
      BY DEF FreeJob, NewJob
    <2> HIDE DEF r
    <2>2. job' = [job EXCEPT ![j] = r] \/ job' = [job EXCEPT ![j] = FreeJob]
      BY <1>24 DEF Fail, r
    <2>3. SameHolders
      BY <1>24, <2>1, <2>2, OneJobHolds DEF Fail
    <2> QED
      BY <1>24, <2>3, LocksKept DEF Fail
  <1> QED
    BY <1>1, <1>2, <1>3, <1>4, <1>5, <1>6, <1>7, <1>8, <1>9, <1>10, <1>11,
       <1>12, <1>13, <1>14, <1>15, <1>16, <1>17, <1>18, <1>19, <1>20, <1>21,
       <1>22, <1>23, <1>24
    DEF Step, Failing

\* An interrupted run leaves its lock to nobody or to Orphan.
LEMMA InterruptionLocks ==
    ASSUME JobsFit, LockInv, lock \in [Account -> JobId \cup {None, Orphan}],
           Interruption
    PROVE  LockInv'
  <1> USE DEF redis
  <1>1. CASE Crash
    <2>1. \A a \in Account : lock'[a] \notin JobId
      BY <1>1 DEF Crash
    <2>2. \A i \in JobId : job'[i].lease # "held"
      <3>1. \A r : AfterCrash(r).lease # "held"
        BY DEF AfterCrash, NewJob, FreeJob
      <3>2. \A i \in JobId \ Active : job[i].lease # "held"
        BY FitFacts DEF Active, Running
      <3>3. \A i \in JobId : job'[i] =
                IF i \in Active THEN AfterCrash(job[i]) ELSE job[i]
        BY <1>1 DEF Crash
      <3> QED
        BY <3>1, <3>2, <3>3
    <2> QED
      BY <2>1, <2>2 DEF LockInv
  <1>2. ASSUME NEW j \in JobId, Throw(j)
        PROVE  LockInv'
    BY <1>2, GotoHolds, LocksKept DEF Throw
  <1>3. ASSUME NEW j \in JobId, Stall(j)
        PROVE  LockInv'
    <2>1. PICK k \in JobId :
            /\ At(k, "free")
            /\ job' = [job EXCEPT ![j].slot = "lost", ![k] = AfterStall(job[j])]
      BY <1>3 DEF Stall
    <2>2. job[k].lease = "none" /\ AfterStall(job[j]).lease = "none"
      BY <2>1, FitFacts DEF InTry, Leaving, AfterStall, NewJob
    <2>3. /\ [job[j] EXCEPT !.slot = "lost"].lease = job[j].lease
          /\ [job[j] EXCEPT !.slot = "lost"].acct = job[j].acct
      BY DEF JobsFit, GoodJob, Job
    <2>4. SameHolders
      BY <2>1, <2>2, <2>3 DEF SameHolders, JobsFit
    <2> QED
      BY <1>3, <2>4, LocksKept DEF Stall
  <1>4. ASSUME NEW j \in JobId, RecoverStalled(j)
        PROVE  LockInv'
    <2>1. job[j].lease = "none" /\ AfterStall(job[j]).lease = "none"
      BY <1>4, FitFacts DEF RecoverStalled, InTry, Leaving, AfterStall, NewJob
    <2>2. SameHolders
      BY <1>4, <2>1, OneJobHolds DEF RecoverStalled
    <2> QED
      BY <1>4, <2>2, LocksKept DEF RecoverStalled
  <1>5. ASSUME NEW j \in JobId, RetryFailed(j)
        PROVE  LockInv'
    BY <1>5, GotoHolds, LocksKept DEF RetryFailed
  <1>6. ASSUME NEW j \in JobId, DropFailed(j)
        PROVE  LockInv'
    <2>1. job[j].lease = "none" /\ FreeJob.lease = "none"
      BY <1>6, FitFacts DEF DropFailed, InTry, Leaving, FreeJob, NewJob
    <2>2. SameHolders
      BY <1>6, <2>1, OneJobHolds DEF DropFailed
    <2> QED
      BY <1>6, <2>2, LocksKept DEF DropFailed
  <1> QED
    BY <1>1, <1>2, <1>3, <1>4, <1>5, <1>6 DEF Interruption

LEMMA RequestLocks ==
    ASSUME JobsFit, LockInv, Request
    PROVE  LockInv'
  <1> USE DEF redis
  <1>1. ASSUME NEW m \in Message, Enqueue(m)
        PROVE  LockInv'
    <2>1. PICK k \in JobId : At(k, "free")
                   /\ job' = [job EXCEPT ![k] = NewJob(m, <<>>)]
      BY <1>1 DEF Enqueue
    <2>2. job[k].lease = "none" /\ NewJob(m, <<>>).lease = "none"
      BY <2>1, FitFacts DEF InTry, Leaving, NewJob
    <2>3. SameHolders
      BY <2>1, <2>2, OneJobHolds
    <2> QED
      BY <1>1, <2>3, LocksKept DEF Enqueue
  <1>2. CASE UNCHANGED <<job, lock>>
    BY <1>2 DEF LockInv
  <1> QED
    BY <1>1, <1>2 DEF Request, Post, LoseIntake, CancelRead, CancelWrite,
       ChatOutcome,
                      ChatCount, ChatSend

LEMMA EnvironmentLocks ==
    ASSUME JobsFit, LockInv, lock \in [Account -> JobId \cup {None, Orphan}],
           Environment
    PROVE  LockInv'
  <1> USE DEF redis
  <1>1. ASSUME NEW a \in Account, ExpireLock(a)
        PROVE  LockInv'
    <2>1. \A j \in JobId : job'[j] =
              IF j = lock[a] THEN [job[j] EXCEPT !.lease = "lapsed"]
                                                   ELSE job[j]
      BY <1>1 DEF ExpireLock
    <2>2. \A j \in JobId : /\ [job[j] EXCEPT !.lease = "lapsed"].lease = "lapsed"
                           /\ [job[j] EXCEPT !.lease = "lapsed"].acct = job[j].acct
      BY DEF JobsFit, GoodJob, Job
    <2>3. \A b \in Account : lock'[b] = IF b = a THEN None ELSE lock[b]
      BY <1>1 DEF ExpireLock
    <2>4. \A j \in JobId : job[j].lease = "held" => job[j].acct \in Account
      BY DEF JobsFit, GoodJob, Fit
    <2>5. ASSUME NEW i \in JobId, job'[i].lease = "held"
          PROVE  lock'[job'[i].acct] = i
      <3>1. i # lock[a] /\ job'[i] = job[i]
        BY <2>1, <2>2, <2>5
      <3>2. lock[job[i].acct] = i /\ job[i].acct \in Account
        BY <2>4, <2>5, <3>1 DEF LockInv
      <3> QED
        BY <2>3, <3>1, <3>2
    <2>6. ASSUME NEW b \in Account, lock'[b] \in JobId
          PROVE  job'[lock'[b]].lease = "held" /\ job'[lock'[b]].acct = b
      <3>1. b # a /\ lock'[b] = lock[b]
        BY <2>3, <2>6
      <3>2. job[lock[b]].lease = "held" /\ job[lock[b]].acct = b
        BY <2>6, <3>1 DEF LockInv
      <3>3. lock[b] # lock[a]
        BY <2>6, <3>1, <3>2 DEF LockInv
      <3> QED
        BY <2>1, <2>6, <3>1, <3>2, <3>3
    <2> QED
      BY <2>5, <2>6 DEF LockInv
  <1>2. CASE UNCHANGED <<job, lock>>
    BY <1>2 DEF LockInv
  <1> QED
    BY <1>1, <1>2 DEF Environment, PauseOrResume, TurnHour, EndCooldown, NewWindow,
                      ChangeLine, ForgetExistence, OptOut, OptIn, Age

-----------------------------------------------------------------------------
(* Types of everything else. *)

OthersOK == RowsOK /\ RedisOK /\ WorldOK /\ RequestsOK /\ TallyOK

\* A tally that is counted up, or saturates.
LEMMA CountedUp ==
    ASSUME NEW S, NEW f \in [S -> Nat], NEW x
    PROVE  /\ [f EXCEPT ![x] = @ + 1] \in [S -> Nat]
           /\ [f EXCEPT ![x] = IF @ > MaxAttempts THEN @ ELSE @ + 1] \in [S -> Nat]
  <1>1. \A n \in Nat : /\ n + 1 \in Nat
                      /\ (IF n > MaxAttempts THEN n ELSE n + 1) \in Nat
    OBVIOUS
  <1> QED
    BY <1>1

LEMMA StepTypes ==
    ASSUME OthersOK, JobsFit, NEW j \in JobId, Step(j)
    PROVE  OthersOK'
  <1> USE DEF OthersOK, RowsOK, RedisOK, WorldOK, RequestsOK, TallyOK, redis,
             world, api, tally
  <1>0. /\ job[j].msg \in Message \cup {None}
        /\ At(j, "notify") => job[j].result \in SentStatus
    BY DEF JobsFit, GoodJob, Fit, Job
  <1>1. CASE Start(j)
    BY <1>0, <1>1 DEF Start
  <1>2. CASE ReadMessage(j)
    BY <1>0, <1>2 DEF ReadMessage
  <1>3. CASE Gate(j)
    BY <1>0, <1>3 DEF Gate
  <1>4. CASE SelectAccount(j)
    BY <1>0, <1>4 DEF SelectAccount
  <1>5. CASE NoAccount(j)
    BY <1>0, <1>5 DEF NoAccount
  <1>6. CASE SessionMissing(j)
    BY <1>0, <1>6 DEF SessionMissing
  <1>7. CASE AcquireAccountLock(j)
    BY <1>0, <1>7 DEF AcquireAccountLock
  <1>8. CASE LockBusy(j)
    BY <1>0, <1>8 DEF LockBusy
  <1>9. CASE Pace(j)
    BY <1>0, <1>9 DEF Pace
  <1>10. CASE MarkSending(j)
    BY <1>0, <1>10 DEF MarkSending, SetStatus, Status
  <1>11. CASE Send(j)
    <2>1. RowsOK' /\ RedisOK' /\ WorldOK' /\ RequestsOK'
      BY <1>11 DEF Send
    <2>2. PICK r \in SendOutcome(j) :
             \/ /\ accepted' = [accepted EXCEPT ![job[j].msg] =
                                      IF r = "ok" THEN @ + 1 ELSE @]
                /\ UNCHANGED cuts
             \/ /\ accepted' = [accepted EXCEPT ![job[j].msg] = @ + 1]
                /\ cuts' = [cuts EXCEPT ![job[j].msg] = @ + 1]
      BY <1>11 DEF Send
    <2>3. accepted' \in [Message -> Nat] /\ cuts' \in [Message -> Nat]
      BY <2>2
    <2>4. attempts' = [attempts EXCEPT ![job[j].msg] =
                           IF @ > MaxAttempts THEN @ ELSE @ + 1]
                     /\ UNCHANGED notified
      BY <1>11 DEF Send
    <2>5. attempts' \in [Message -> Nat]
              /\ notified' \in [Message -> SUBSET FinalStatus]
      BY <2>4, CountedUp
    <2> QED
      BY <2>1, <2>3, <2>5
  <1>12. CASE Record(j)
    BY <1>0, <1>12 DEF Record
  <1>13. CASE Count(j)
    <2>1. job[j].acct \in Account
      BY <1>13, FitFacts DEF Count, WithAccount, InTry
    <2>2. sent' \in [Account -> Nat]
      BY <1>13, CountedUp DEF Count
    <2>3. existence' \in [Contact -> Existence]
      BY <1>13 DEF Count, Existence
    <2> QED
      BY <1>13, <2>1, <2>2, <2>3 DEF Count
  <1>14. CASE Ack(j)
    <2>1. PICK s \in SentStatus : SetStatus(j, s)
      BY <1>14 DEF Ack
    <2>2. message' \in [Message -> Status \cup {"ABSENT"}]
      BY <2>1 DEF SetStatus, Status, SentStatus
    <2> QED
      BY <1>14, <2>2 DEF Ack
  <1>15. CASE Notify(j)
    BY <1>0, <1>15 DEF Notify, FinalStatus
  <1>16. CASE Reject(j)
    BY <1>0, <1>16 DEF Reject, SetStatus, Status
  <1>17. CASE FailMessage(j)
    BY <1>0, <1>17 DEF FailMessage, SetStatus, Status, Existence
  <1>18. CASE RetrySameAccount(j)
    BY <1>0, <1>18 DEF RetrySameAccount
  <1>19. CASE FallbackOtherAccount(j)
    BY <1>0, <1>19 DEF FallbackOtherAccount
  <1>20. CASE BackToQueued(j)
    BY <1>0, <1>20 DEF BackToQueued, SetStatus, Status
  <1>21. CASE Report(j)
    BY <1>0, <1>21 DEF Report, FinalStatus
  <1>22. CASE ReleaseAccountLock(j)
    BY <1>0, <1>22 DEF ReleaseAccountLock
  <1>23. CASE Complete(j)
    BY <1>0, <1>23 DEF Complete
  <1>24. CASE Fail(j)
    <2>1. job[j].msg \in Message
      BY <1>24, FitFacts DEF Fail
    <2> QED
      BY <1>24, <2>1 DEF Fail
  <1> QED
    BY <1>1, <1>2, <1>3, <1>4, <1>5, <1>6, <1>7, <1>8, <1>9, <1>10, <1>11,
       <1>12, <1>13, <1>14, <1>15, <1>16, <1>17, <1>18, <1>19, <1>20, <1>21,
       <1>22, <1>23, <1>24
    DEF Step, Failing

LEMMA InterruptionTypes ==
    ASSUME OthersOK, JobsFit, Interruption
    PROVE  OthersOK'
  <1> USE DEF OthersOK, RowsOK, RedisOK, WorldOK, RequestsOK, TallyOK, redis,
             world, api, tally
  <1>1. CASE Crash
    <2>1. \A m \in Message : Cardinality(Owning(m)) \in Nat
      BY FS_Subset, FS_CardinalityType DEF Owning, Active
    <2>2. \A j \in Active : job[j].msg \in Message
      BY FitFacts DEF Active, Running, InTry, Leaving
    <2> QED
      BY <1>1, <2>1, <2>2 DEF Crash
  <1>2. ASSUME NEW j \in JobId, Throw(j) \/ Stall(j) \/ RecoverStalled(j)
                 \/ RetryFailed(j)
        PROVE  OthersOK'
    BY <1>2 DEF Throw, Stall, RecoverStalled, RetryFailed
  <1>3. ASSUME NEW j \in JobId, DropFailed(j)
        PROVE  OthersOK'
    BY <1>3, FitFacts DEF DropFailed
  <1> QED
    BY <1>1, <1>2, <1>3 DEF Interruption

LEMMA RequestTypes ==
    ASSUME OthersOK, Request
    PROVE  OthersOK'
  <1> USE DEF OthersOK, RowsOK, RedisOK, WorldOK, RequestsOK, TallyOK, redis,
             world, api, tally
  <1>1. ASSUME NEW m \in Message, Post(m)
        PROVE  OthersOK'
    BY <1>1 DEF Post, Status
  <1>2. ASSUME NEW m \in Message, Enqueue(m)
        PROVE  OthersOK'
    BY <1>2 DEF Enqueue
  <1>3. ASSUME NEW m \in Message, LoseIntake(m)
        PROVE  OthersOK'
    BY <1>3 DEF LoseIntake
  <1>4. ASSUME NEW m \in Message, CancelRead(m)
        PROVE  OthersOK'
    BY <1>4 DEF CancelRead
  <1>5. ASSUME NEW m \in Message, CancelWrite(m)
        PROVE  OthersOK'
    BY <1>5 DEF CancelWrite, Status
  <1>6. ASSUME NEW o \in Operator, ChatOutcome(o)
        PROVE  OthersOK'
    <2>1. RowsOK' /\ RedisOK' /\ WorldOK' /\ TallyOK' /\ UNCHANGED api
      BY <1>6 DEF ChatOutcome
    <2>2. chat' \in [Operator ->
              [pc : {"idle", "send", "count"}, acct : Account \cup {None}]]
      <3>1. CASE chat' = [chat EXCEPT ![o].pc = "count"]
        BY <3>1
      <3>2. CASE chat' = [chat EXCEPT ![o] = [pc |-> "idle", acct |-> None]]
        BY <3>2
      <3> QED
        BY <1>6, <3>1, <3>2 DEF ChatOutcome
    <2> QED
      BY <2>1, <2>2
  <1>7. ASSUME NEW o \in Operator, ChatCount(o)
        PROVE  OthersOK'
    <2>1. RowsOK' /\ WorldOK' /\ TallyOK' /\ UNCHANGED api
      BY <1>7 DEF ChatCount
    <2>2. sent' \in [Account -> Nat] /\ UNCHANGED <<lock, cooldown, existence>>
      BY <1>7, CountedUp DEF ChatCount
    <2>3. chat' \in [Operator ->
              [pc : {"idle", "send", "count"}, acct : Account \cup {None}]]
      BY <1>7 DEF ChatCount
    <2> QED
      BY <2>1, <2>2, <2>3
  <1>8. ASSUME NEW o \in Operator, NEW a \in Account, ChatSend(o, a)
        PROVE  OthersOK'
    BY <1>8 DEF ChatSend
  <1> QED
    BY <1>1, <1>2, <1>3, <1>4, <1>5, <1>6, <1>7, <1>8 DEF Request

LEMMA EnvironmentTypes ==
    ASSUME OthersOK, Environment
    PROVE  OthersOK'
  <1> USE DEF OthersOK, RowsOK, RedisOK, WorldOK, RequestsOK, TallyOK, redis,
             world, api, tally
  <1>1. CASE PauseOrResume \/ TurnHour
    BY <1>1 DEF PauseOrResume, TurnHour
  <1>2. ASSUME NEW a \in Account, ExpireLock(a) \/ EndCooldown(a) \/ NewWindow(a)
        PROVE  OthersOK'
    BY <1>2 DEF ExpireLock, EndCooldown, NewWindow
  <1>3. ASSUME NEW a \in Account, NEW l \in
            {"ready", "withheld", "closed", "missing"},
               ChangeLine(a, l)
        PROVE  OthersOK'
    BY <1>3 DEF ChangeLine
  <1>4. ASSUME NEW c \in Contact, ForgetExistence(c) \/ OptOut(c) \/ OptIn(c)
        PROVE  OthersOK'
    BY <1>4 DEF ForgetExistence, OptOut, OptIn, Existence
  <1>5. ASSUME NEW m \in Message, Age(m)
        PROVE  OthersOK'
    BY <1>5 DEF Age
  <1> QED
    BY <1>1, <1>2, <1>3, <1>4, <1>5 DEF Environment

-----------------------------------------------------------------------------
(* Theorems. *)

\* The inductive invariant: types, what is true of each job by itself, and the
\* agreement of the jobs with the locks.
IInv == OthersOK /\ JobsFit /\ LockInv

LEMMA InitIInv == Init => IInv
  <1> SUFFICES ASSUME Init PROVE IInv
    OBVIOUS
  <1> USE DEF Init
  <1>1. OthersOK
    BY DEF OthersOK, RowsOK, RedisOK, WorldOK, RequestsOK, TallyOK, Existence
  <1>2. JobsFit
    BY FreeFits DEF JobsFit
  <1>3. LockInv
    <2>1. FreeJob.lease = "none"
      BY DEF FreeJob, NewJob
    <2> QED
      BY <2>1 DEF LockInv
  <1> QED
    BY <1>1, <1>2, <1>3 DEF IInv

LEMMA NextIInv == IInv /\ [Next]_vars => IInv'
  <1> SUFFICES ASSUME IInv, [Next]_vars PROVE IInv'
    OBVIOUS
  <1> USE DEF IInv
  <1>0. RedisOK /\ lock \in [Account -> JobId \cup {None, Orphan}]
    BY DEF OthersOK, RedisOK
  <1>1. ASSUME NEW j \in JobId, Step(j)
        PROVE  IInv'
    BY <1>0, <1>1, StepFits, StepLocks, StepTypes
  <1>2. CASE Interruption
    BY <1>0, <1>2, InterruptionFits, InterruptionLocks, InterruptionTypes
  <1>3. CASE Request
    BY <1>3, RequestFits, RequestLocks, RequestTypes
  <1>4. CASE Environment
    BY <1>0, <1>4, EnvironmentFits, EnvironmentLocks, EnvironmentTypes
  <1>5. CASE UNCHANGED vars
    BY <1>5 DEF vars, redis, world, api, tally, OthersOK, RowsOK, RedisOK, WorldOK,
                RequestsOK, TallyOK, JobsFit, LockInv
  <1> QED
    BY <1>1, <1>2, <1>3, <1>4, <1>5 DEF Next

LEMMA Invariance == Spec => []IInv
  BY InitIInv, NextIInv, PTL DEF Spec

\* Every variable keeps its type, whatever the order of awaits, crashes and
\* expiring keys (processOutbound and the queue around it).
THEOREM TypeCorrect == Spec => []TypeOK
  <1>1. IInv => TypeOK
    BY DEF IInv, OthersOK, TypeOK, JobsOK, JobsFit, GoodJob
  <1> QED
    BY <1>1, Invariance, PTL

\* No number of fallbacks, retries and requeues brings a message back to an
\* account that failed it, or a job over MAX_ATTEMPTS (send-errors.ts:78).
THEOREM AccountsDistinct == Spec => []DistinctAccounts
  <1>1. IInv => DistinctAccounts
    BY FitFacts DEF IInv, DistinctAccounts, TriedOK
  <1> QED
    BY <1>1, Invariance, PTL

\* Two runs never hold the lock of one account, for any number of jobs and for
\* any order of expiry, crash and late release (lock.ts:11-19, 33-40).
THEOREM LocksExclusive == Spec => []OneHolderPerAccount
  <1>1. IInv => OneHolderPerAccount
    BY DEF IInv, LockInv, OneHolderPerAccount
  <1> QED
    BY <1>1, Invariance, PTL

=============================================================================
