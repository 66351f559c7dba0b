------------------------ MODULE OutboundSafetyProofs ------------------------
(***************************************************************************)
(* What the outbound queue promises of a message, for any number of        *)
(* messages, accounts, jobs and interruptions: how often it is accepted,   *)
(* that it is not lost, what its project is told, and that its status      *)
(* follows MessageLifecycle.                                               *)
(*                                                                         *)
(* Every proof goes through the same few kinds of step.  The first part    *)
(* shows that each action of processOutbound is of one of these kinds.     *)
(***************************************************************************)
EXTENDS OutboundProofs

-----------------------------------------------------------------------------
(* Kinds of step. *)

\* No other job is touched.
Alone(j) == \A i \in JobId \ {j} : job'[i] = job[i]

\* The run goes on with its message.
GoesTo(j, p) ==
    /\ job'[j].pc = p
    /\ job'[j].msg = job[j].msg
    /\ job'[j].slot = job[j].slot
    /\ p \notin {"lock", "failed"} => job'[j].acct = job[j].acct

\* A free job becomes one that waits with the message of j.
Successor(j, k) ==
    /\ k \in JobId \ {j}
    /\ At(k, "free")
    /\ job'[k].pc = "waiting"
    /\ job'[k].msg = job[j].msg
    /\ job'[k].slot = "own"
    /\ \A i \in JobId \ {j, k} : job'[i] = job[i]

rows  == <<message, intake, abandoned>>
tolds == <<accepted, cuts, notified>>

Moves(j) ==
    /\ Alone(j)
    /\ \/ /\ At(j, "waiting") /\ GoesTo(j, "read")
          /\ Cardinality(Active) < Concurrency
       \/ At(j, "read") /\ message[job[j].msg] \in AlreadyDone /\ GoesTo(j, "exit")
       \/ /\ At(j, "read")
          /\ message[job[j].msg] \notin AlreadyDone
          /\ GoesTo(j, "gate") \/ GoesTo(j, "reject")
       \/ At(j, "gate") /\ GoesTo(j, "reject")
       \/ At(j, "gate") /\ ToOf(j) \notin suppressed /\ GoesTo(j, "select")
       \/ At(j, "select") /\ GoesTo(j, "reject")
       \/ At(j, "select") /\ GoesTo(j, "lock") /\ job'[j].acct \in Eligible(j)
       \/ At(j, "lock") /\ (GoesTo(j, "failing") \/ GoesTo(j, "pace"))
       \/ At(j, "pace") /\ GoesTo(j, "mark")
       \/ At(j, "record") /\ job[j].result = "ok" /\ GoesTo(j, "count")
       \/ At(j, "record") /\ job[j].result # "ok" /\ GoesTo(j, "failing")
       \/ /\ At(j, "count") /\ GoesTo(j, "ack")
          /\ sent' = [sent EXCEPT ![job[j].acct] = @ + 1]
       \/ job[j].pc \in Leaving /\ GoesTo(j, job[j].pc)
    /\ UNCHANGED <<rows, tolds>>

HandsOver(j) ==
    /\ \E k \in JobId : Successor(j, k)
    /\ \/ job[j].pc \in {"select", "lock", "pace"} /\ GoesTo(j, "exit")
       \/ At(j, "failing") /\ GoesTo(j, "back")
    /\ UNCHANGED <<rows, tolds>>

Sends(j) ==
    /\ Alone(j) /\ At(j, "send") /\ GoesTo(j, "record")
    /\ \/ job'[j].result # "ok" /\ UNCHANGED <<accepted, cuts>>
       \/ /\ job'[j].result = "ok"
          /\ accepted' = [accepted EXCEPT ![job[j].msg] = @ + 1]
          /\ UNCHANGED cuts
       \/ /\ accepted' = [accepted EXCEPT ![job[j].msg] = @ + 1]
          /\ cuts' = [cuts EXCEPT ![job[j].msg] = @ + 1]
    /\ UNCHANGED <<rows, notified>>

\* The run writes the row.
Writes(j) ==
    /\ Alone(j)
    /\ \/ At(j, "mark") /\ GoesTo(j, "send") /\ SetStatus(j, "SENDING")
       \/ /\ At(j, "ack") /\ GoesTo(j, "notify")
          /\ job'[j].result \in SentStatus
          /\ SetStatus(j, job'[j].result)
       \/ /\ At(j, "reject") \/ At(j, "failing")
          /\ GoesTo(j, "report") /\ SetStatus(j, "FAILED")
       \/ /\ At(j, "back") /\ GoesTo(j, "exit")
          /\ SetStatus(j, IF message[job[j].msg] = "SENDING" THEN "QUEUED"
                          ELSE message[job[j].msg])
    /\ UNCHANGED <<intake, abandoned, tolds>>

\* The run tells the project.
Tells(j) ==
    /\ Alone(j) /\ GoesTo(j, "exit")
    /\ \/ /\ At(j, "notify")
          /\ notified' = [notified EXCEPT ![job[j].msg] = @ \cup {job[j].result}]
       \/ /\ At(j, "report")
          /\ notified' = [notified EXCEPT ![job[j].msg] = @ \cup {"FAILED"}]
    /\ UNCHANGED <<rows, accepted, cuts>>

\* The run is over.
Ends(j) ==
    /\ Alone(j)
    /\ \/ At(j, "exit") /\ job'[j].pc = "free" /\ UNCHANGED abandoned
       \/ /\ At(j, "abort") /\ job[j].slot = "own" /\ GoesTo(j, "failed")
          /\ UNCHANGED abandoned
       \/ /\ At(j, "abort") /\ job[j].slot = "lost" /\ job'[j].pc = "free"
          /\ abandoned' = abandoned \cup {job[j].msg}
    /\ UNCHANGED <<message, intake, tolds>>

-----------------------------------------------------------------------------
(* Each action is of one of these kinds. *)

USE DEF At

LEMMA OneChanges ==
    ASSUME JobsFit, NEW j \in JobId, NEW r, job' = [job EXCEPT ![j] = r]
    PROVE  Alone(j) /\ job'[j] = r
  BY DEF Alone, JobsFit

LEMMA GotoMoves ==
    ASSUME JobsFit, NEW j \in JobId, NEW p, Goto(j, p)
    PROVE  Alone(j) /\ GoesTo(j, p)
  <1>1. job[j] \in Job
    BY FitFacts
  <1>2. Alone(j) /\ job'[j] = [job[j] EXCEPT !.pc = p]
    BY OneChanges DEF Goto
  <1> QED
    BY <1>1, <1>2 DEF GoesTo, Job

LEMMA TurnDownMoves ==
    ASSUME JobsFit, NEW j \in JobId, NEW p, NEW x,
           job' = [job EXCEPT ![j] = [@ EXCEPT !.pc = p, !.result = x]]
    PROVE  Alone(j) /\ GoesTo(j, p) /\ job'[j].result = x
  <1>1. job[j] \in Job
    BY FitFacts
  <1> DEFINE r == [job[j] EXCEPT !.pc = p, !.result = x]
  <1>2. /\ r.pc = p /\ r.result = x /\ r.msg = job[j].msg
        /\ r.slot = job[j].slot /\ r.acct = job[j].acct
    BY <1>1 DEF Job
  <1>3. Alone(j) /\ job'[j] = r
    BY OneChanges
  <1> HIDE DEF r
  <1> QED
    BY <1>2, <1>3 DEF GoesTo

LEMMA EnqueueMoves ==
    ASSUME JobsFit, NEW j \in JobId, ~ At(j, "free"), NEW t, NEW p,
           EnqueueAndGoto(j, t, p)
    PROVE  GoesTo(j, p) /\ \E k \in JobId : Successor(j, k)
  <1>1. PICK k \in JobId :
            /\ At(k, "free")
            /\ job' = [job EXCEPT ![j].pc = p, ![k] = NewJob(job[j].msg, t)]
    BY DEF EnqueueAndGoto
  <1>2. job[j] \in Job /\ DOMAIN job = JobId /\ j # k
    BY <1>1, FitFacts DEF JobsFit
  <1>3. /\ job'[j] = [job[j] EXCEPT !.pc = p]
        /\ job'[k] = NewJob(job[j].msg, t)
        /\ \A i \in JobId \ {j, k} : job'[i] = job[i]
    BY <1>1, <1>2
  <1>4. GoesTo(j, p)
    BY <1>2, <1>3 DEF GoesTo, Job
  <1>5. /\ job'[k].pc = "waiting"
        /\ job'[k].msg = job[j].msg
        /\ job'[k].slot = "own"
    BY <1>3 DEF NewJob
  <1>6. Successor(j, k)
    BY <1>1, <1>2, <1>3, <1>5 DEF Successor
  <1> QED
    BY <1>4, <1>6

StepOfAKind(j) ==
    Moves(j) \/ HandsOver(j) \/ Sends(j) \/ Writes(j) \/ Tells(j) \/ Ends(j)

\* The steps up to the hand-over.
LEMMA EarlyKinds ==
    ASSUME JobsFit, NEW j \in JobId,
           \/ Start(j) \/ ReadMessage(j) \/ Gate(j) \/ SelectAccount(j)
           \/ NoAccount(j) \/ SessionMissing(j) \/ AcquireAccountLock(j)
           \/ LockBusy(j) \/ Pace(j)
    PROVE  Moves(j) \/ HandsOver(j)
  <1> USE DEF redis, world, api, tally, rows, tolds
  <1>1. CASE Start(j)
    BY <1>1, GotoMoves DEF Start, Moves
  <1>2. CASE ReadMessage(j)
    BY <1>2, GotoMoves, TurnDownMoves DEF ReadMessage, Moves, TurnDown
  <1>3. CASE Gate(j)
    <2>1. ASSUME job' = [job EXCEPT ![j] = [@ EXCEPT
                              !.pc = "select", !.cached = existence[ToOf(j)]]]
          PROVE  Alone(j) /\ GoesTo(j, "select")
      <3>1. Alone(j) /\ job'[j] = [job[j] EXCEPT !.pc = "select",
                                        !.cached = existence[ToOf(j)]]
        BY <2>1, OneChanges
      <3> QED
        BY <3>1, FitFacts DEF GoesTo, Job
    <2>2. ASSUME NEW x, TurnDown(j, x)
          PROVE  Alone(j) /\ GoesTo(j, "reject")
      BY <2>2, TurnDownMoves DEF TurnDown
    <2> QED
      BY <1>3, <2>1, <2>2 DEF Gate, Moves
  <1>4. CASE SelectAccount(j)
    <2>1. PICK a \in Eligible(j) :
             job' = [job EXCEPT ![j] = [@ EXCEPT !.pc = "lock", !.acct = a]]
      BY <1>4 DEF SelectAccount
    <2>2. Alone(j) /\ job'[j] = [job[j] EXCEPT !.pc = "lock", !.acct = a]
      BY <2>1, OneChanges
    <2>3. GoesTo(j, "lock") /\ job'[j].acct = a
      BY <2>2, FitFacts DEF GoesTo, Job
    <2> QED
      BY <1>4, <2>2, <2>3 DEF SelectAccount, Moves
  <1>5. CASE NoAccount(j)
    <2>1. CASE EnqueueAndGoto(j, <<>>, "exit")
      BY <1>5, <2>1, EnqueueMoves DEF NoAccount, HandsOver
    <2>2. CASE TurnDown(j, "NO_ACCOUNTS_AVAILABLE")
      BY <1>5, <2>2, TurnDownMoves DEF NoAccount, Moves, TurnDown
    <2> QED
      BY <1>5, <2>1, <2>2 DEF NoAccount
  <1>6. CASE SessionMissing(j)
    BY <1>6, TurnDownMoves DEF SessionMissing, Moves
  <1>7. CASE AcquireAccountLock(j)
    <2>1. Alone(j) /\ job'[j] = [job[j] EXCEPT !.pc = "pace", !.lease = "held"]
      BY <1>7, OneChanges DEF AcquireAccountLock
    <2>2. GoesTo(j, "pace")
      BY <2>1, FitFacts DEF GoesTo, Job
    <2> QED
      BY <1>7, <2>1, <2>2 DEF AcquireAccountLock, Moves
  <1>8. CASE LockBusy(j)
    BY <1>8, EnqueueMoves DEF LockBusy, HandsOver
  <1>9. CASE Pace(j)
    <2>1. CASE EnqueueAndGoto(j, job[j].tried, "exit")
      BY <1>9, <2>1, EnqueueMoves DEF Pace, HandsOver
    <2>2. CASE Goto(j, "mark")
      BY <1>9, <2>2, GotoMoves DEF Pace, Moves
    <2> QED
      BY <1>9, <2>1, <2>2 DEF Pace
  <1> QED
    BY <1>1, <1>2, <1>3, <1>4, <1>5, <1>6, <1>7, <1>8, <1>9

\* The hand-over and the steps after it.
LEMMA SendKind ==
    ASSUME JobsFit, TallyOK, NEW j \in JobId, Send(j)
    PROVE  Sends(j)
  <1>1. PICK r \in SendOutcome(j) :
           /\ job' = [job EXCEPT ![j] = [@ EXCEPT !.pc = "record", !.result = r]]
           /\ \/ /\ accepted' = [accepted EXCEPT ![job[j].msg] =
                                      IF r = "ok" THEN @ + 1 ELSE @]
                 /\ UNCHANGED cuts
              \/ /\ accepted' = [accepted EXCEPT ![job[j].msg] = @ + 1]
                 /\ cuts' = [cuts EXCEPT ![job[j].msg] = @ + 1]
    BY DEF Send
  <1>2. /\ At(j, "send")
        /\ UNCHANGED <<rows, notified>>
    BY DEF Send, rows, api
  <1>3. Alone(j) /\ GoesTo(j, "record") /\ job'[j].result = r
    BY <1>1, TurnDownMoves
  <1>4. r # "ok" => [accepted EXCEPT ![job[j].msg] =
                        IF r = "ok" THEN @ + 1 ELSE @] = accepted
    BY DEF TallyOK
  <1> QED
    BY <1>1, <1>2, <1>3, <1>4 DEF Sends

LEMMA FreePc == FreeJob.pc = "free"
  BY DEF FreeJob, NewJob

LEMMA LateKinds ==
    ASSUME JobsFit, NEW j \in JobId,
           \/ MarkSending(j) \/ Record(j) \/ Count(j) \/ Ack(j) \/ Notify(j)
           \/ Reject(j) \/ Failing(j) \/ BackToQueued(j) \/ Report(j)
           \/ ReleaseAccountLock(j) \/ Complete(j) \/ Fail(j)
    PROVE  StepOfAKind(j)
  <1> USE DEF redis, world, api, tally, rows, tolds, StepOfAKind
  <1>1. CASE MarkSending(j)
    BY <1>1, GotoMoves DEF MarkSending, Writes
  <1>2. CASE Record(j)
    BY <1>2, GotoMoves DEF Record, Moves
  <1>3. CASE Count(j)
    BY <1>3, GotoMoves DEF Count, Moves
  <1>4. CASE Ack(j)
    <2>1. PICK s \in SentStatus :
            /\ SetStatus(j, s)
            /\ job' = [job EXCEPT ![j] = [@ EXCEPT !.pc = "notify", !.result = s]]
      BY <1>4 DEF Ack
    <2>2. Alone(j) /\ GoesTo(j, "notify") /\ job'[j].result = s
      BY <2>1, TurnDownMoves
    <2> QED
      BY <1>4, <2>1, <2>2 DEF Ack, Writes
  <1>5. CASE Notify(j)
    BY <1>5, GotoMoves DEF Notify, Tells
  <1>6. CASE Reject(j)
    BY <1>6, GotoMoves DEF Reject, Writes
  <1>7. CASE FailMessage(j)
    BY <1>7, GotoMoves DEF FailMessage, Writes
  <1>8. CASE RetrySameAccount(j)
    BY <1>8, EnqueueMoves DEF RetrySameAccount, HandsOver
  <1>9. CASE FallbackOtherAccount(j)
    BY <1>9, EnqueueMoves DEF FallbackOtherAccount, HandsOver
  <1>10. CASE BackToQueued(j)
    BY <1>10, GotoMoves DEF BackToQueued, Writes
  <1>11. CASE Report(j)
    BY <1>11, GotoMoves DEF Report, Tells
  <1>12. CASE ReleaseAccountLock(j)
    <2>1. Alone(j) /\ job'[j] = [job[j] EXCEPT !.lease = "none"]
      BY <1>12, OneChanges DEF ReleaseAccountLock
    <2>2. GoesTo(j, job[j].pc)
      BY <2>1, FitFacts DEF GoesTo, Job
    <2> QED
      BY <1>12, <2>1, <2>2 DEF ReleaseAccountLock, Moves
  <1>13. CASE Complete(j)
    <2>1. Alone(j) /\ job'[j] = FreeJob
      BY <1>13, OneChanges DEF Complete
    <2> QED
      BY <1>13, <2>1, FreePc DEF Complete, Ends
  <1>14. CASE Fail(j)
    <2>1. CASE job[j].slot = "own"
      <3> DEFINE r == [NewJob(job[j].msg, job[j].tried) EXCEPT
                          !.pc = "failed", !.stalls = job[j].stalls]
      <3>1. job' = [job EXCEPT ![j] = r] /\ UNCHANGED abandoned
        BY <1>14, <2>1 DEF Fail
      <3>2. r.pc = "failed" /\ r.msg = job[j].msg /\ r.slot = "own"
        BY DEF NewJob
      <3> HIDE DEF r
      <3> QED
        BY <1>14, <2>1, <3>1, <3>2, OneChanges DEF Fail, Ends, GoesTo
    <2>2. CASE job[j].slot = "lost"
      <3>1. Alone(j) /\ job'[j] = FreeJob
        BY <1>14, <2>2, OneChanges DEF Fail
      <3> QED
        BY <1>14, <2>2, <3>1, FreePc DEF Fail, Ends
    <2> QED
      BY <1>14, <2>1, <2>2 DEF Fail
  <1> QED
    BY <1>1, <1>2, <1>3, <1>4, <1>5, <1>6, <1>7, <1>8, <1>9, <1>10, <1>11,
       <1>12, <1>13, <1>14 DEF Failing

LEMMA Kinds ==
    ASSUME JobsFit, TallyOK, NEW j \in JobId, Step(j)
    PROVE  StepOfAKind(j)
  BY EarlyKinds, SendKind, LateKinds DEF Step, StepOfAKind

-----------------------------------------------------------------------------
(* Interrupted runs, requests and the environment, in the same terms. *)

Throws(j) ==
    /\ Alone(j) /\ GoesTo(j, "abort")
    /\ job[j].pc \in Running \ {"send", "exit", "abort"}
    /\ cuts' = [cuts EXCEPT ![job[j].msg] = @ + 1]
    /\ UNCHANGED <<rows, accepted, notified>>

\* Job k takes the place of run j, which goes on without a job.
Replaces(j, k) ==
    /\ k \in JobId \ {j}
    /\ At(k, "free")
    /\ job'[k].pc \in {"waiting", "failed"}
    /\ job'[k].msg = job[j].msg
    /\ job'[k].slot = "own"
    /\ \A i \in JobId \ {j, k} : job'[i] = job[i]

Stalls(j) ==
    /\ job[j].pc \in Running /\ job[j].slot = "own"
    /\ job'[j].pc = job[j].pc /\ job'[j].msg = job[j].msg
    /\ job'[j].slot = "lost" /\ job'[j].result = job[j].result
    /\ job'[j].acct = job[j].acct
    /\ \E k \in JobId : Replaces(j, k)
    /\ cuts' = [cuts EXCEPT ![job[j].msg] = @ + 1]
    /\ UNCHANGED <<rows, accepted, notified>>

Requeues(j) ==
    /\ Alone(j)
    /\ job[j].pc \in {"stalled", "failed"}
    /\ job'[j].pc \in {"waiting", "failed"}
    /\ job'[j].msg = job[j].msg
    /\ job'[j].slot \in {"own", job[j].slot}
    /\ UNCHANGED <<rows, tolds>>

Drops(j) ==
    /\ Alone(j) /\ At(j, "failed") /\ job'[j].pc = "free"
    /\ abandoned' = abandoned \cup {job[j].msg}
    /\ UNCHANGED <<message, intake, tolds>>

Enqueues(m) ==
    /\ m \in intake /\ intake' = intake \ {m}
    /\ \E k \in JobId :
         /\ At(k, "free")
         /\ job'[k].pc = "waiting" /\ job'[k].msg = m /\ job'[k].slot = "own"
         /\ Alone(k)
    /\ UNCHANGED <<message, abandoned, tolds>>

\* What POST /cancel and the death of a request do to the row.
Posts(m) ==
    /\ message[m] = "ABSENT"
    /\ message' = [message EXCEPT ![m] = "QUEUED"]
    /\ intake' = intake \cup {m}
    /\ UNCHANGED <<job, abandoned, tolds>>

Loses(m) ==
    /\ intake' = intake \ {m}
    /\ abandoned' = abandoned \cup {m}
    /\ UNCHANGED <<message, job, tolds>>

Cancels(m) ==
    /\ message' = [message EXCEPT ![m] = IF @ = "QUEUED" THEN "CANCELED" ELSE @]
    /\ UNCHANGED <<job, intake, abandoned, tolds>>

\* No run moves.
Rests ==
    /\ \A i \in JobId : /\ job'[i].pc = job[i].pc
                        /\ job'[i].msg = job[i].msg
                        /\ job'[i].slot = job[i].slot
                        /\ job'[i].result = job[i].result
                        /\ job'[i].acct = job[i].acct
    /\ UNCHANGED <<rows, tolds>>

LEMMA InterruptionKinds ==
    ASSUME JobsFit, Interruption
    PROVE  \/ Crash
           \/ \E j \in JobId : Throws(j) \/ Stalls(j) \/ Requeues(j) \/ Drops(j)
  <1> USE DEF redis, world, api, tally, rows, tolds
  <1>1. ASSUME NEW j \in JobId, Throw(j)
        PROVE  Throws(j)
    BY <1>1, GotoMoves DEF Throw, Throws
  <1>2. ASSUME NEW j \in JobId, Stall(j)
        PROVE  Stalls(j)
    <2>1. PICK k \in JobId :
            /\ At(k, "free")
            /\ job' = [job EXCEPT ![j].slot = "lost", ![k] = AfterStall(job[j])]
      BY <1>2 DEF Stall
    <2>2. job[j] \in Job /\ DOMAIN job = JobId /\ j # k
      BY <1>2, <2>1, FitFacts DEF JobsFit, Stall, Active, Running, InTry, Leaving
    <2>3. /\ job'[j] = [job[j] EXCEPT !.slot = "lost"]
          /\ job'[k] = AfterStall(job[j])
          /\ \A i \in JobId \ {j, k} : job'[i] = job[i]
      BY <2>1, <2>2
    <2>4. /\ job'[j].pc = job[j].pc /\ job'[j].msg = job[j].msg
          /\ job'[j].slot = "lost" /\ job'[j].result = job[j].result
          /\ job'[j].acct = job[j].acct
      BY <2>2, <2>3 DEF Job
    <2>5. /\ job'[k].pc \in {"waiting", "failed"}
          /\ job'[k].msg = job[j].msg
          /\ job'[k].slot = "own"
      BY <2>3 DEF AfterStall, NewJob
    <2>6. Replaces(j, k)
      BY <2>1, <2>2, <2>3, <2>5 DEF Replaces
    <2> QED
      BY <1>2, <2>4, <2>6 DEF Stall, Stalls, Active
  <1>3. ASSUME NEW j \in JobId, RecoverStalled(j)
        PROVE  Requeues(j)
    <2>1. Alone(j) /\ job'[j] = AfterStall(job[j])
      BY <1>3, OneChanges DEF RecoverStalled
    <2>2. /\ job'[j].pc \in {"waiting", "failed"}
          /\ job'[j].msg = job[j].msg /\ job'[j].slot = "own"
      BY <2>1 DEF AfterStall, NewJob
    <2> QED
      BY <1>3, <2>1, <2>2 DEF RecoverStalled, Requeues
  <1>4. ASSUME NEW j \in JobId, RetryFailed(j)
        PROVE  Requeues(j)
    BY <1>4, GotoMoves DEF RetryFailed, Requeues, GoesTo
  <1>5. ASSUME NEW j \in JobId, DropFailed(j)
        PROVE  Drops(j)
    <2>1. Alone(j) /\ job'[j] = FreeJob
      BY <1>5, OneChanges DEF DropFailed
    <2> QED
      BY <1>5, <2>1, FreePc DEF DropFailed, Drops
  <1> QED
    BY <1>1, <1>2, <1>3, <1>4, <1>5 DEF Interruption

LEMMA RequestKinds ==
    ASSUME JobsFit, Request
    PROVE  \/ Rests
           \/ \E m \in Message : Posts(m) \/ Enqueues(m) \/ Loses(m) \/ Cancels(m)
  <1> USE DEF redis, world, api, tally, rows, tolds
  <1>1. ASSUME NEW m \in Message, Enqueue(m)
        PROVE  Enqueues(m)
    <2>1. PICK k \in JobId :
              At(k, "free") /\ job' = [job EXCEPT ![k] = NewJob(m, <<>>)]
      BY <1>1 DEF Enqueue
    <2>2. Alone(k) /\ job'[k] = NewJob(m, <<>>)
      BY <2>1, OneChanges
    <2>3. job'[k].pc = "waiting" /\ job'[k].msg = m /\ job'[k].slot = "own"
      BY <2>2 DEF NewJob
    <2> QED
      BY <1>1, <2>1, <2>2, <2>3 DEF Enqueue, Enqueues
  <1>2. ASSUME NEW m \in Message,
               Post(m) \/ LoseIntake(m) \/ CancelRead(m) \/ CancelWrite(m)
        PROVE  Posts(m) \/ Loses(m) \/ Cancels(m) \/ Rests
    BY <1>2 DEF Post, LoseIntake, CancelRead, CancelWrite, Posts, Loses, Cancels,
       Rests
  <1>3. ASSUME NEW o \in Operator,
               \/ ChatOutcome(o) \/ ChatCount(o)
               \/ \E a \in Account : ChatSend(o, a)
        PROVE  Rests
    BY <1>3 DEF ChatOutcome, ChatCount, ChatSend, Rests
  <1> QED
    BY <1>1, <1>2, <1>3 DEF Request

LEMMA EnvironmentKinds ==
    ASSUME JobsFit, Environment \/ UNCHANGED vars
    PROVE  Rests
  <1> USE DEF redis, world, api, tally, rows, tolds
  <1>1. ASSUME NEW a \in Account, ExpireLock(a)
        PROVE  Rests
    <2>1. \A i \in JobId : job[i] \in Job
      BY FitFacts
    <2>2. \A i \in JobId : job'[i] \in {job[i], [job[i] EXCEPT !.lease = "lapsed"]}
      BY <1>1 DEF ExpireLock
    <2>3. \A i \in JobId : /\ job'[i].pc = job[i].pc
                          /\ job'[i].msg = job[i].msg
                          /\ job'[i].slot = job[i].slot
                          /\ job'[i].result = job[i].result
                          /\ job'[i].acct = job[i].acct
      BY <2>1, <2>2 DEF Job
    <2> QED
      BY <1>1, <2>3 DEF ExpireLock, Rests
  <1>2. CASE UNCHANGED <<job, message, api, tally>>
    BY <1>2 DEF Rests
  <1> QED
    BY <1>1, <1>2 DEF Environment, PauseOrResume, TurnHour, EndCooldown, NewWindow,
       ChangeLine, ForgetExistence, OptOut, OptIn, Age, vars

AnyKind ==
    \/ \E j \in JobId : \/ StepOfAKind(j) \/ Throws(j) \/ Stalls(j)
                        \/ Requeues(j) \/ Drops(j)
    \/ \E m \in Message : Posts(m) \/ Enqueues(m) \/ Loses(m) \/ Cancels(m)
    \/ Crash
    \/ Rests

\* Every step of the specification is of one of the kinds.
LEMMA NextKinds ==
    ASSUME IInv, [Next]_vars
    PROVE  AnyKind
  <1>1. JobsFit /\ TallyOK
    BY DEF IInv, OthersOK
  <1> QED
    BY <1>1, Kinds, InterruptionKinds, RequestKinds, EnvironmentKinds
    DEF Next, AnyKind

-----------------------------------------------------------------------------
(* Sizes of finite sets. *)

LEMMA SizeOfPart ==
    ASSUME NEW B, IsFiniteSet(B), NEW A \in SUBSET B
    PROVE  /\ IsFiniteSet(A)
           /\ Cardinality(A) \in Nat /\ Cardinality(B) \in Nat
           /\ Cardinality(A) =< Cardinality(B)
  BY FS_Subset, FS_CardinalityType

LEMMA SizeWithOne ==
    ASSUME NEW B, IsFiniteSet(B), NEW x, NEW A \in SUBSET (B \cup {x})
    PROVE  /\ Cardinality(A) \in Nat /\ Cardinality(B) \in Nat
           /\ Cardinality(A) =< Cardinality(B) + 1
  <1>1. /\ IsFiniteSet(B \cup {x})
        /\ Cardinality(B \cup {x}) \in {Cardinality(B), Cardinality(B) + 1}
    BY FS_AddElement
  <1> QED
    BY <1>1, SizeOfPart, FS_CardinalityType

LEMMA SizeLessOne ==
    ASSUME NEW B, IsFiniteSet(B), NEW x \in B, NEW A \in SUBSET (B \ {x})
    PROVE  /\ Cardinality(A) \in Nat /\ Cardinality(B) \in Nat
           /\ Cardinality(A) + 1 =< Cardinality(B)
  <1>1. /\ IsFiniteSet(B \ {x})
        /\ Cardinality(B \ {x}) = Cardinality(B) - 1
    BY FS_RemoveElement
  <1> QED
    BY <1>1, SizeOfPart, FS_CardinalityType

LEMMA SizeSwapped ==
    ASSUME NEW B, IsFiniteSet(B), NEW x \in B, NEW y,
           NEW A \in SUBSET ((B \ {x}) \cup {y})
    PROVE  /\ Cardinality(A) \in Nat /\ Cardinality(B) \in Nat
           /\ Cardinality(A) =< Cardinality(B)
  <1>1. /\ IsFiniteSet(B \ {x})
        /\ Cardinality(B \ {x}) = Cardinality(B) - 1
    BY FS_RemoveElement
  <1>2. /\ Cardinality(A) \in Nat
        /\ Cardinality(A) =< Cardinality(B \ {x}) + 1
    BY <1>1, SizeWithOne
  <1> QED
    BY <1>1, <1>2, FS_CardinalityType

LEMMA SizeOfBoth ==
    ASSUME NEW B, IsFiniteSet(B), NEW C, IsFiniteSet(C), NEW A \in SUBSET (B \cup C)
    PROVE  /\ Cardinality(A) \in Nat
           /\ Cardinality(B) \in Nat /\ Cardinality(C) \in Nat
           /\ Cardinality(A) =< Cardinality(B) + Cardinality(C)
  <1>1. /\ IsFiniteSet(B \cup C)
        /\ Cardinality(B \cup C)
             = Cardinality(B) + Cardinality(C) - Cardinality(B \cap C)
    BY FS_Union
  <1>2. Cardinality(B \cap C) \in Nat
    BY SizeOfPart
  <1> QED
    BY <1>1, <1>2, SizeOfPart, FS_CardinalityType

-----------------------------------------------------------------------------
(* AcceptedOncePerRun.  Each message has a budget of sends: those accepted,  *)
(* those a job may still make, and the one a request or an absent row stands *)
(* for.  Only an interrupted run or a late send may raise it.                *)

One(b) == IF b THEN 1 ELSE 0

Budget(m) ==
    accepted[m] + Cardinality(Lineage(m))
        + One(m \in intake) + One(message[m] = "ABSENT")

InBudget(m) ==
    /\ Budget(m) =< 1 + cuts[m]
    /\ m \in intake => message[m] # "ABSENT"

BudgetInv == \A m \in Message : InBudget(m)

LEMMA LineageFinite ==
    \A m : /\ IsFiniteSet(Lineage(m))
           /\ Cardinality(Lineage(m)) \in Nat
  BY SizeOfPart, OutboundAssumption DEF Lineage

LEMMA LineageFiniteNext ==
    \A m : /\ IsFiniteSet(Lineage(m)')
           /\ Cardinality(Lineage(m)') \in Nat
  BY SizeOfPart, OutboundAssumption DEF Lineage

\* A step that raises neither the request nor the row, and pays for every send
\* it adds.
LEMMA PaidFor ==
    ASSUME TallyOK, TallyOK', NEW m \in Message, InBudget(m),
           m \in intake' => m \in intake,
           message'[m] = "ABSENT" => message[m] = "ABSENT",
           accepted'[m] + Cardinality(Lineage(m)') + cuts[m]
               =< accepted[m] + Cardinality(Lineage(m)) + cuts'[m]
    PROVE  InBudget(m)'
  <1>1. /\ accepted[m] \in Nat /\ accepted'[m] \in Nat
        /\ cuts[m] \in Nat /\ cuts'[m] \in Nat
    BY DEF TallyOK
  <1>2. Cardinality(Lineage(m)) \in Nat /\ Cardinality(Lineage(m)') \in Nat
    BY LineageFinite, LineageFiniteNext
  <1> QED
    BY <1>1, <1>2 DEF InBudget, Budget, One

\* The same with nothing accepted or cut.
LEMMA NothingPaid ==
    ASSUME TallyOK, TallyOK', NEW m \in Message, InBudget(m),
           m \in intake' => m \in intake,
           message'[m] = "ABSENT" => message[m] = "ABSENT",
           UNCHANGED <<accepted, cuts>>,
           Cardinality(Lineage(m)') =< Cardinality(Lineage(m))
    PROVE  InBudget(m)'
  <1>1. accepted[m] \in Nat /\ cuts[m] \in Nat
    BY DEF TallyOK
  <1>2. Cardinality(Lineage(m)) \in Nat /\ Cardinality(Lineage(m)') \in Nat
    BY LineageFinite, LineageFiniteNext
  <1> QED
    BY <1>1, <1>2, PaidFor

\* No run gains what it had lost.
LEMMA LineageShrinks ==
    ASSUME JobsFit, NEW j \in JobId,
           Moves(j) \/ Writes(j) \/ Tells(j) \/ Ends(j) \/ Requeues(j) \/ Drops(j),
           NEW m \in Message
    PROVE  Cardinality(Lineage(m)') =< Cardinality(Lineage(m))
  <1>1. Lineage(m)' \subseteq Lineage(m)
    <2>1. \A i \in JobId \ {j} : i \in Lineage(m)' => i \in Lineage(m)
      BY DEF Lineage, Potent, Moves, Writes, Tells, Ends, Requeues, Drops, Alone
    <2>2. j \in Lineage(m)' => j \in Lineage(m)
      BY DEF Lineage, Potent, Moves, Writes, Tells, Ends, Requeues, Drops, GoesTo,
         Leaving
    <2> QED
      BY <2>1, <2>2 DEF Lineage
  <1> QED
    BY <1>1, LineageFinite, SizeOfPart

\* A run that hands its message over loses what its successor gains.
LEMMA LineageHandedOver ==
    ASSUME NEW j \in JobId, HandsOver(j), NEW m \in Message
    PROVE  Cardinality(Lineage(m)') =< Cardinality(Lineage(m))
  <1>1. PICK k \in JobId : Successor(j, k)
    BY DEF HandsOver
  <1>2. \A i \in JobId \ {j, k} : i \in Lineage(m)' => i \in Lineage(m)
    BY <1>1 DEF Successor, Lineage, Potent
  <1>3. j \notin Lineage(m)'
    BY DEF HandsOver, GoesTo, Lineage, Potent
  <1>4. CASE m = job[j].msg
    <2>1. j \in Lineage(m)
      BY <1>4 DEF HandsOver, Lineage, Potent
    <2>2. Lineage(m)' \in SUBSET ((Lineage(m) \ {j}) \cup {k})
      BY <1>2, <1>3 DEF Lineage
    <2> QED
      BY <2>1, <2>2, LineageFinite, SizeSwapped
  <1>5. CASE m # job[j].msg
    <2>1. k \notin Lineage(m)'
      BY <1>1, <1>5 DEF Successor, Lineage
    <2>2. Lineage(m)' \in SUBSET Lineage(m)
      BY <1>2, <1>3, <2>1 DEF Lineage
    <2> QED
      BY <2>2, LineageFinite, SizeOfPart
  <1> QED
    BY <1>4, <1>5

\* A send is paid for by the run that makes it, or by the cut of a late one.
LEMMA SendPaid ==
    ASSUME TallyOK, TallyOK', NEW j \in JobId, Sends(j), NEW m \in Message,
           InBudget(m)
    PROVE  InBudget(m)'
  <1>1. /\ accepted[m] \in Nat /\ accepted'[m] \in Nat
        /\ cuts[m] \in Nat /\ cuts'[m] \in Nat
    BY DEF TallyOK
  <1>2. Lineage(m)' \in SUBSET Lineage(m)
    <2>1. \A i \in JobId \ {j} : i \in Lineage(m)' => i \in Lineage(m)
      BY DEF Lineage, Potent, Sends, Alone
    <2>2. j \in Lineage(m)' => j \in Lineage(m)
      BY DEF Lineage, Potent, Sends, GoesTo
    <2> QED
      BY <2>1, <2>2 DEF Lineage
  <1>3. Cardinality(Lineage(m)') =< Cardinality(Lineage(m))
    BY <1>2, LineageFinite, SizeOfPart
  <1>4. Cardinality(Lineage(m)) \in Nat /\ Cardinality(Lineage(m)') \in Nat
    BY LineageFinite, LineageFiniteNext
  <1>5. UNCHANGED <<message, intake>>
    BY DEF Sends, rows
  <1>6. CASE UNCHANGED <<accepted, cuts>>
    BY <1>3, <1>5, <1>6, NothingPaid
  <1>7. CASE m # job[j].msg
    <2>1. accepted'[m] = accepted[m] /\ cuts'[m] = cuts[m]
      BY <1>7 DEF Sends, TallyOK
    <2> QED
      BY <1>1, <1>3, <1>4, <1>5, <2>1, PaidFor
  <1>8. CASE /\ m = job[j].msg
             /\ job'[j].result = "ok"
             /\ accepted' = [accepted EXCEPT ![job[j].msg] = @ + 1]
             /\ UNCHANGED cuts
    <2>1. accepted'[m] = accepted[m] + 1 /\ cuts'[m] = cuts[m]
      BY <1>8 DEF TallyOK
    <2>2. j \in Lineage(m) /\ j \notin Lineage(m)'
      BY <1>8 DEF Sends, GoesTo, Lineage, Potent
    <2>3. Lineage(m)' \in SUBSET (Lineage(m) \ {j})
      BY <1>2, <2>2
    <2>4. Cardinality(Lineage(m)') + 1 =< Cardinality(Lineage(m))
      BY <2>2, <2>3, LineageFinite, SizeLessOne
    <2> QED
      BY <1>1, <1>4, <1>5, <2>1, <2>4, PaidFor
  <1>9. CASE /\ m = job[j].msg
             /\ accepted' = [accepted EXCEPT ![job[j].msg] = @ + 1]
             /\ cuts' = [cuts EXCEPT ![job[j].msg] = @ + 1]
    <2>1. accepted'[m] = accepted[m] + 1 /\ cuts'[m] = cuts[m] + 1
      BY <1>9 DEF TallyOK
    <2> QED
      BY <1>1, <1>3, <1>4, <1>5, <2>1, PaidFor
  <1> QED
    BY <1>6, <1>7, <1>8, <1>9 DEF Sends

\* An interruption of one run adds one job that may send, and one cut.
LEMMA CutPaid ==
    ASSUME TallyOK, TallyOK', NEW j \in JobId, NEW m \in Message, InBudget(m),
           NEW k, \A i \in JobId \ {k} : i \in Lineage(m)' => i \in Lineage(m),
           m # job[j].msg => k \notin Lineage(m)' \/ k \in Lineage(m),
           UNCHANGED <<rows, accepted>>,
           cuts' = [cuts EXCEPT ![job[j].msg] = @ + 1]
    PROVE  InBudget(m)'
  <1>1. /\ accepted[m] \in Nat /\ accepted'[m] \in Nat
        /\ cuts[m] \in Nat /\ cuts'[m] \in Nat
    BY DEF TallyOK
  <1>2. Cardinality(Lineage(m)) \in Nat /\ Cardinality(Lineage(m)') \in Nat
    BY LineageFinite, LineageFiniteNext
  <1>3. UNCHANGED <<message, intake, accepted>>
    BY DEF rows
  <1>4. CASE m = job[j].msg
    <2>1. cuts'[m] = cuts[m] + 1
      BY <1>4 DEF TallyOK
    <2>2. Lineage(m)' \in SUBSET (Lineage(m) \cup {k})
      BY DEF Lineage
    <2>3. Cardinality(Lineage(m)') =< Cardinality(Lineage(m)) + 1
      BY <2>2, LineageFinite, SizeWithOne
    <2> QED
      BY <1>1, <1>2, <1>3, <2>1, <2>3, PaidFor
  <1>5. CASE m # job[j].msg
    <2>1. cuts'[m] = cuts[m]
      BY <1>5 DEF TallyOK
    <2>2. Lineage(m)' \in SUBSET Lineage(m)
      BY <1>5 DEF Lineage
    <2>3. Cardinality(Lineage(m)') =< Cardinality(Lineage(m))
      BY <2>2, LineageFinite, SizeOfPart
    <2> QED
      BY <1>1, <1>2, <1>3, <2>1, <2>3, PaidFor
  <1> QED
    BY <1>4, <1>5

\* What a crash leaves of the runs.
LEMMA CrashedRuns ==
    ASSUME JobsFit, Crash, NEW i \in JobId
    PROVE  /\ i \notin Active => job'[i] = job[i]
           /\ i \in Active /\ job[i].slot = "lost" => job'[i].pc = "free"
           /\ i \in Active /\ job[i].slot = "own" =>
                /\ job'[i].pc = "stalled" /\ job'[i].msg = job[i].msg
                /\ job'[i].slot = "own"
           /\ job[i].slot \in {"own", "lost"}
  <1>1. job'[i] = IF i \in Active THEN AfterCrash(job[i]) ELSE job[i]
    BY DEF Crash
  <1>2. job[i].slot \in {"own", "lost"}
    BY FitFacts DEF Job
  <1>3. ASSUME job[i].slot = "own"
        PROVE  /\ AfterCrash(job[i]).pc = "stalled"
               /\ AfterCrash(job[i]).msg = job[i].msg
               /\ AfterCrash(job[i]).slot = "own"
    BY <1>3 DEF AfterCrash, NewJob
  <1>4. ASSUME job[i].slot = "lost"
        PROVE  AfterCrash(job[i]).pc = "free"
    BY <1>4, FreePc DEF AfterCrash
  <1> QED
    BY <1>1, <1>2, <1>3, <1>4

\* A crash adds at most the runs that owned a job of the message.
LEMMA CrashPaid ==
    ASSUME JobsFit, TallyOK, TallyOK', Crash, NEW m \in Message, InBudget(m)
    PROVE  InBudget(m)'
  <1>1. /\ accepted[m] \in Nat /\ accepted'[m] \in Nat
        /\ cuts[m] \in Nat /\ cuts'[m] \in Nat
    BY DEF TallyOK
  <1>2. /\ UNCHANGED <<message, intake, accepted>>
        /\ cuts'[m] = cuts[m] + Cardinality(Owning(m))
    BY DEF Crash
  <1>3. IsFiniteSet(Owning(m)) /\ IsFiniteSet(Lineage(m))
    BY LineageFinite, SizeOfPart, OutboundAssumption DEF Owning, Active
  <1>4. Lineage(m)' \in SUBSET (Lineage(m) \cup Owning(m))
    <2>1. \A i \in JobId : i \in Lineage(m)' => i \in Lineage(m) \cup Owning(m)
      <3> SUFFICES ASSUME NEW i \in JobId, i \in Lineage(m)'
                   PROVE  i \in Lineage(m) \cup Owning(m)
        OBVIOUS
      <3>1. job'[i].msg = m /\ job'[i].pc # "free"
        BY DEF Lineage, Potent
      <3>2. CASE i \notin Active
        <4>1. job'[i] = job[i]
          BY <3>2, CrashedRuns
        <4> QED
          BY <4>1 DEF Lineage, Potent
      <3>3. CASE i \in Active
        BY <3>1, <3>3, CrashedRuns DEF Owning
      <3> QED
        BY <3>2, <3>3
    <2> QED
      BY <2>1 DEF Lineage
  <1>5. /\ Cardinality(Lineage(m)') \in Nat
        /\ Cardinality(Lineage(m)) \in Nat /\ Cardinality(Owning(m)) \in Nat
        /\ Cardinality(Lineage(m)') =< Cardinality(Lineage(m))
                                         + Cardinality(Owning(m))
    BY <1>3, <1>4, SizeOfBoth
  <1>6. accepted'[m] + Cardinality(Lineage(m)') + cuts[m]
            =< accepted[m] + Cardinality(Lineage(m)) + cuts'[m]
    BY <1>1, <1>2, <1>5
  <1> QED
    BY <1>2, <1>6, PaidFor

\* The request stands for the first job, the absent row for the request.
LEMMA RequestPaid ==
    ASSUME JobsFit, RowsOK, TallyOK, TallyOK', NEW x \in Message,
           Posts(x) \/ Enqueues(x) \/ Loses(x) \/ Cancels(x),
           NEW m \in Message, InBudget(m)
    PROVE  InBudget(m)'
  <1>1. accepted[m] \in Nat /\ cuts[m] \in Nat /\ UNCHANGED <<accepted, cuts>>
    BY DEF TallyOK, Posts, Enqueues, Loses, Cancels, tolds
  <1>2. Cardinality(Lineage(m)) \in Nat /\ Cardinality(Lineage(m)') \in Nat
    BY LineageFinite, LineageFiniteNext
  <1>3. UNCHANGED job => Lineage(m)' = Lineage(m)
    BY DEF Lineage, Potent
  <1>4. CASE Posts(x)
    <2>1. Lineage(m)' = Lineage(m)
      BY <1>3, <1>4 DEF Posts
    <2>2. One(m \in intake') + One(message'[m] = "ABSENT")
             =< One(m \in intake) + One(message[m] = "ABSENT")
      BY <1>4 DEF Posts, One, RowsOK, InBudget
    <2>3. m \in intake' => message'[m] # "ABSENT"
      BY <1>4 DEF Posts, RowsOK, InBudget
    <2>4. \A b : One(b) \in Nat
      BY DEF One
    <2> QED
      BY <1>1, <1>2, <2>1, <2>2, <2>3, <2>4 DEF InBudget, Budget
  <1>5. CASE Enqueues(x)
    <2>1. PICK k \in JobId :
             /\ At(k, "free")
             /\ job'[k].pc = "waiting" /\ job'[k].msg = x /\ Alone(k)
      BY <1>5 DEF Enqueues
    <2>2. \A i \in JobId \ {k} : i \in Lineage(m)' => i \in Lineage(m)
      BY <2>1 DEF Lineage, Potent, Alone
    <2>3. UNCHANGED message /\ x \in intake /\ intake' = intake \ {x}
      BY <1>5 DEF Enqueues
    <2>4. CASE m = x
      <3>1. Lineage(m)' \in SUBSET (Lineage(m) \cup {k})
        BY <2>2 DEF Lineage
      <3>2. Cardinality(Lineage(m)') =< Cardinality(Lineage(m)) + 1
        BY <3>1, LineageFinite, SizeWithOne
      <3> QED
        BY <1>1, <1>2, <2>3, <2>4, <3>2 DEF InBudget, Budget, One
    <2>5. CASE m # x
      <3>1. Lineage(m)' \in SUBSET Lineage(m)
        BY <2>1, <2>2, <2>5 DEF Lineage
      <3>2. Cardinality(Lineage(m)') =< Cardinality(Lineage(m))
        BY <3>1, LineageFinite, SizeOfPart
      <3> QED
        BY <1>1, <2>3, <3>2, NothingPaid
    <2> QED
      BY <2>4, <2>5
  <1>6. CASE Loses(x) \/ Cancels(x)
    <2>1. Lineage(m)' = Lineage(m)
      BY <1>3, <1>6 DEF Loses, Cancels
    <2>2. /\ m \in intake' => m \in intake
          /\ message'[m] = "ABSENT" => message[m] = "ABSENT"
      BY <1>6 DEF Loses, Cancels, RowsOK
    <2> QED
      BY <1>1, <1>2, <2>1, <2>2, NothingPaid
  <1> QED
    BY <1>4, <1>5, <1>6

LEMMA InitBudget == Init => BudgetInv
  <1> SUFFICES ASSUME Init, NEW m \in Message PROVE InBudget(m)
    BY DEF BudgetInv
  <1>1. Lineage(m) = {}
    BY FreePc DEF Init, Lineage, Potent
  <1>2. Cardinality(Lineage(m)) = 0
    BY <1>1, FS_EmptySet
  <1> QED
    BY <1>2 DEF Init, InBudget, Budget, One

LEMMA NextBudget == IInv /\ IInv' /\ BudgetInv /\ [Next]_vars => BudgetInv'
  <1> SUFFICES ASSUME IInv, IInv', BudgetInv, [Next]_vars, NEW m \in Message
               PROVE  InBudget(m)'
    BY DEF BudgetInv
  <1>0. /\ JobsFit /\ RowsOK /\ TallyOK /\ TallyOK' /\ InBudget(m)
        /\ message \in [Message -> Status \cup {"ABSENT"}]
    BY DEF IInv, OthersOK, BudgetInv, RowsOK
  <1>1. ASSUME NEW j \in JobId,
               Moves(j) \/ Tells(j) \/ Ends(j) \/ Requeues(j) \/ Drops(j)
        PROVE  InBudget(m)'
    <2>1. UNCHANGED <<message, intake, accepted, cuts>>
      BY <1>1 DEF Moves, Tells, Ends, Requeues, Drops, rows, tolds
    <2> QED
      BY <1>0, <1>1, <2>1, LineageShrinks, NothingPaid
  <1>2. ASSUME NEW j \in JobId, Writes(j)
        PROVE  InBudget(m)'
    <2>1. UNCHANGED <<intake, accepted, cuts>>
      BY <1>2 DEF Writes, tolds
    <2>2. message'[m] = "ABSENT" => message[m] = "ABSENT"
      BY <1>0, <1>2 DEF Writes, SetStatus, SentStatus
    <2> QED
      BY <1>0, <1>2, <2>1, <2>2, LineageShrinks, NothingPaid
  <1>3. ASSUME NEW j \in JobId, HandsOver(j)
        PROVE  InBudget(m)'
    <2>1. UNCHANGED <<message, intake, accepted, cuts>>
      BY <1>3 DEF HandsOver, rows, tolds
    <2> QED
      BY <1>0, <1>3, <2>1, LineageHandedOver, NothingPaid
  <1>4. ASSUME NEW j \in JobId, Sends(j)
        PROVE  InBudget(m)'
    BY <1>0, <1>4, SendPaid
  <1>5. ASSUME NEW j \in JobId, Throws(j)
        PROVE  InBudget(m)'
    <2>1. \A i \in JobId \ {j} : i \in Lineage(m)' => i \in Lineage(m)
      BY <1>5 DEF Throws, Alone, Lineage, Potent
    <2>2. m # job[j].msg => j \notin Lineage(m)'
      BY <1>5 DEF Throws, GoesTo, Lineage
    <2> QED
      BY <1>0, <1>5, <2>1, <2>2, CutPaid DEF Throws
  <1>6. ASSUME NEW j \in JobId, Stalls(j)
        PROVE  InBudget(m)'
    <2>1. PICK k \in JobId : Replaces(j, k)
      BY <1>6 DEF Stalls
    <2>2. \A i \in JobId \ {k} : i \in Lineage(m)' => i \in Lineage(m)
      BY <1>6, <2>1 DEF Stalls, Replaces, Lineage, Potent
    <2>3. m # job[j].msg => k \notin Lineage(m)'
      BY <2>1 DEF Replaces, Lineage
    <2> QED
      BY <1>0, <1>6, <2>2, <2>3, CutPaid DEF Stalls
  <1>7. ASSUME NEW x \in Message, Posts(x) \/ Enqueues(x) \/ Loses(x) \/ Cancels(x)
        PROVE  InBudget(m)'
    BY <1>0, <1>7, RequestPaid
  <1>8. CASE Crash
    BY <1>0, <1>8, CrashPaid
  <1>9. CASE Rests
    <2>1. UNCHANGED <<message, intake, accepted, cuts>>
      BY <1>9 DEF Rests, rows, tolds
    <2>2. Lineage(m)' = Lineage(m)
      BY <1>9 DEF Rests, Lineage, Potent
    <2> QED
      BY <1>0, <2>1, <2>2, LineageFinite, NothingPaid
  <1> QED
    BY <1>1, <1>2, <1>3, <1>4, <1>5, <1>6, <1>7, <1>8, <1>9, NextKinds
    DEF AnyKind, StepOfAKind

\* However many fallbacks, retries, requeues and lost jobs a message goes
\* through, each accepted send beyond the first is one interruption's or one
\* late send's (attempts: 1 in queues.ts).
THEOREM AcceptedOnce == Spec => []AcceptedOncePerRun
  <1>1. IInv /\ BudgetInv => AcceptedOncePerRun
    <2> SUFFICES ASSUME IInv, BudgetInv, NEW m \in Message
                 PROVE  accepted[m] =< 1 + cuts[m]
      BY DEF AcceptedOncePerRun
    <2>1. accepted[m] \in Nat /\ cuts[m] \in Nat
      BY DEF IInv, OthersOK, TallyOK
    <2>2. InBudget(m)
      BY DEF BudgetInv
    <2>3. One(m \in intake) \in Nat /\ One(message[m] = "ABSENT") \in Nat
      BY DEF One
    <2> QED
      BY <2>1, <2>2, <2>3, LineageFinite DEF InBudget, Budget
  <1>2. Init => IInv /\ BudgetInv
    BY InitIInv, InitBudget
  <1>3. (IInv /\ BudgetInv) /\ [Next]_vars => (IInv /\ BudgetInv)'
    BY NextIInv, NextBudget
  <1> QED
    BY <1>1, <1>2, <1>3, PTL DEF Spec

-----------------------------------------------------------------------------
(* NoStrandedMessage.                                                        *)

\* The promise for one message.
InGoodHands(m) ==
    message[m] \in {"QUEUED", "SENDING"} =>
        \/ m \in intake \cup abandoned
        \/ \E j \in JobId : job[j].msg = m /\ Responsible(j)

LEMMA StepKeepsHands ==
    ASSUME IInv, NEW j \in JobId, StepOfAKind(j), NEW m \in Message, InGoodHands(m)
    PROVE  InGoodHands(m)'
  <1>0. JobsFit /\ message \in [Message -> Status \cup {"ABSENT"}]
    BY DEF IInv, OthersOK, RowsOK
  <1> USE DEF InGoodHands, Responsible
  <1>1. CASE Moves(j)
    <2>1. UNCHANGED <<message, intake, abandoned>>
      BY <1>1 DEF Moves, rows
    <2>2. ASSUME job[j].msg = m, Responsible(j),
                 message[m] \in {"QUEUED", "SENDING"}
          PROVE  job'[j].msg = m /\ Responsible(j)'
      BY <1>1, <2>2 DEF Moves, GoesTo, AlreadyDone
    <2> QED
      BY <1>1, <2>1, <2>2 DEF Moves, Alone
  <1>2. CASE HandsOver(j)
    <2>1. UNCHANGED <<message, intake, abandoned>>
      BY <1>2 DEF HandsOver, rows
    <2>2. PICK k \in JobId : Successor(j, k)
      BY <1>2 DEF HandsOver
    <2>3. job[j].msg = m => job'[k].msg = m /\ Responsible(k)'
      BY <2>2 DEF Successor
    <2>4. \A i \in JobId \ {j} : job[i].msg = m /\ Responsible(i)
             => job'[i].msg = m /\ Responsible(i)'
      BY <2>2 DEF Successor
    <2> QED
      BY <2>1, <2>3, <2>4
  <1>3. CASE Sends(j)
    <2>1. UNCHANGED <<message, intake, abandoned>>
      BY <1>3 DEF Sends, rows
    <2>2. \A i \in JobId : job[i].msg = m /\ Responsible(i)
             => job'[i].msg = m /\ Responsible(i)'
      BY <1>3 DEF Sends, GoesTo, Alone
    <2> QED
      BY <2>1, <2>2
  <1>4. CASE Writes(j)
    <2>1. UNCHANGED <<intake, abandoned>>
      BY <1>4 DEF Writes
    <2>2. \A i \in JobId \ {j} : job[i].msg = m /\ Responsible(i)
             => job'[i].msg = m /\ Responsible(i)'
      BY <1>4 DEF Writes, Alone
    <2>3. ASSUME message'[m] \in {"QUEUED", "SENDING"}
          PROVE  \/ /\ message[m] \in {"QUEUED", "SENDING"}
                    /\ job[j].msg = m => ~ Responsible(j)
                 \/ job'[j].msg = m /\ Responsible(j)'
      BY <1>0, <1>4, <2>3 DEF Writes, GoesTo, SetStatus, SentStatus
    <2> QED
      BY <2>1, <2>2, <2>3
  <1>5. CASE Tells(j)
    <2>1. UNCHANGED <<message, intake, abandoned>>
      BY <1>5 DEF Tells, rows
    <2> QED
      BY <1>5, <2>1 DEF Tells, Alone
  <1>6. CASE Ends(j)
    <2>1. UNCHANGED <<message, intake>>
      BY <1>6 DEF Ends
    <2> QED
      BY <1>6, <2>1 DEF Ends, Alone, GoesTo
  <1> QED
    BY <1>1, <1>2, <1>3, <1>4, <1>5, <1>6 DEF StepOfAKind

LEMMA CutKeepsHands ==
    ASSUME IInv, NEW m \in Message, InGoodHands(m),
           NEW j \in JobId, Throws(j) \/ Stalls(j) \/ Requeues(j) \/ Drops(j)
    PROVE  InGoodHands(m)'
  <1>1. UNCHANGED <<message, intake>> /\ abandoned \subseteq abandoned'
    BY DEF Throws, Stalls, Requeues, Drops, rows
  <1>2. \A i \in JobId : job[i].msg = m /\ Responsible(i)
           => \/ job'[i].msg = m /\ Responsible(i)'
              \/ m \in abandoned'
    <2>1. ASSUME NEW i \in JobId, i # j, job[i].msg = m, Responsible(i)
          PROVE  job'[i].msg = m /\ Responsible(i)'
      BY <2>1 DEF Throws, Stalls, Replaces, Requeues, Drops, Alone, Responsible
    <2>2. job[j].msg = m /\ Responsible(j)
             => \/ job'[j].msg = m /\ Responsible(j)'
                \/ m \in abandoned'
      BY DEF Throws, Stalls, Requeues, Drops, GoesTo, Responsible
    <2> QED
      BY <2>1, <2>2
  <1> QED
    BY <1>1, <1>2 DEF InGoodHands

LEMMA CrashKeepsHands ==
    ASSUME IInv, NEW m \in Message, InGoodHands(m), Crash
    PROVE  InGoodHands(m)'
  <1>0. JobsFit
    BY DEF IInv
  <1>1. /\ UNCHANGED <<message, intake>>
        /\ abandoned' = abandoned \cup
              {job[i].msg : i \in {l \in Active : job[l].slot = "lost"}}
    BY DEF Crash
  <1>2. ASSUME NEW i \in JobId, job[i].msg = m, Responsible(i)
        PROVE  \/ job'[i].msg = m /\ Responsible(i)'
               \/ m \in abandoned'
    <2>1. CASE i \notin Active
      BY <1>0, <1>2, <2>1, CrashedRuns DEF Responsible
    <2>2. CASE i \in Active /\ job[i].slot = "own"
      BY <1>0, <1>2, <2>2, CrashedRuns DEF Responsible
    <2>3. CASE i \in Active /\ job[i].slot = "lost"
      BY <1>1, <1>2, <2>3
    <2> QED
      BY <1>0, <2>1, <2>2, <2>3, CrashedRuns
  <1> QED
    BY <1>1, <1>2 DEF InGoodHands

LEMMA RequestKeepsHands ==
    ASSUME IInv, NEW m \in Message, InGoodHands(m), NEW x \in Message,
           Posts(x) \/ Enqueues(x) \/ Loses(x) \/ Cancels(x)
    PROVE  InGoodHands(m)'
  <1>0. message \in [Message -> Status \cup {"ABSENT"}]
    BY DEF IInv, OthersOK, RowsOK
  <1> USE DEF InGoodHands, Responsible
  <1>1. CASE Posts(x)
    BY <1>0, <1>1 DEF Posts
  <1>2. CASE Enqueues(x)
    <2>1. PICK k \in JobId :
             /\ At(k, "free")
             /\ job'[k].pc = "waiting" /\ job'[k].msg = x /\ Alone(k)
      BY <1>2 DEF Enqueues
    <2>2. m # x => (m \in intake => m \in intake')
      BY <1>2 DEF Enqueues
    <2>3. UNCHANGED <<message, abandoned>>
      BY <1>2 DEF Enqueues
    <2>4. CASE m = x
      BY <2>1, <2>4
    <2>5. CASE m # x
      BY <2>1, <2>2, <2>3, <2>5 DEF Alone
    <2> QED
      BY <2>4, <2>5
  <1>3. CASE Loses(x)
    BY <1>3 DEF Loses
  <1>4. CASE Cancels(x)
    <2>1. UNCHANGED <<job, intake, abandoned>>
      BY <1>4 DEF Cancels
    <2>2. message'[m] \in {message[m], "CANCELED"}
      BY <1>0, <1>4 DEF Cancels
    <2> QED
      BY <2>1, <2>2
  <1> QED
    BY <1>1, <1>2, <1>3, <1>4

LEMMA NextHands ==
    ASSUME IInv, [Next]_vars, NEW m \in Message, InGoodHands(m)
    PROVE  InGoodHands(m)'
  <1>1. CASE Rests
    <2>1. UNCHANGED <<message, intake, abandoned>>
      BY <1>1 DEF Rests, rows
    <2> QED
      BY <1>1, <2>1 DEF Rests, InGoodHands, Responsible
  <1> QED
    BY <1>1, NextKinds, StepKeepsHands, CutKeepsHands, CrashKeepsHands,
       RequestKeepsHands DEF AnyKind

\* A message whose row says QUEUED or SENDING has a request or a job that will
\* settle it, or it was given up on in one of the ways the code knows
\* (enqueue after the insert, removeOnFail, maxStalledCount).
THEOREM NothingStranded == Spec => []NoStrandedMessage
  <1>1. NoStrandedMessage <=> \A m \in Message : InGoodHands(m)
    BY DEF NoStrandedMessage, InGoodHands
  <1>2. Init => NoStrandedMessage
    BY DEF Init, NoStrandedMessage
  <1>3. IInv /\ NoStrandedMessage /\ [Next]_vars => NoStrandedMessage'
    <2> SUFFICES ASSUME IInv, [Next]_vars, NoStrandedMessage,
                        NEW m \in Message
                 PROVE  InGoodHands(m)'
      BY DEF NoStrandedMessage, InGoodHands
    <2>1. InGoodHands(m)
      BY <1>1
    <2> QED
      BY <2>1, NextHands
  <1> QED
    BY <1>2, <1>3, Invariance, PTL DEF Spec

-----------------------------------------------------------------------------
(* OneVerdict.  While no run of a message was interrupted, one job at most   *)
(* carries it, and what the project was told is what that job, or the last   *)
(* one, has written.                                                         *)

Carries(j, m) == job[j].msg = m /\ job[j].pc \notin {"free", "back", "exit"}

\* No job was ever enqueued for the message.
Unqueued(m) == message[m] = "ABSENT" \/ m \in intake

\* What the job that carries the message has done to it so far.
Reached(j, m) ==
    /\ notified[m] = {}
    /\ At(j, "notify") => message[m] = job[j].result
    /\ At(j, "report") => message[m] = "FAILED"
    /\ job[j].pc \notin {"notify", "report"} => message[m] \notin FinalStatus

Untouched(m) ==
    /\ \A j \in JobId : ~ Carries(j, m)
    /\ notified[m] = {} /\ message[m] \notin FinalStatus

Told(m) ==
    \/ message[m] \in FinalStatus /\ notified[m] = {message[m]}
    \/ message[m] \notin FinalStatus /\ notified[m] = {}

Course(m) ==
    /\ \A j, k \in JobId : Carries(j, m) /\ Carries(k, m) => j = k
    /\ \A j \in JobId : Carries(j, m) => Reached(j, m)
    /\ Unqueued(m) => Untouched(m)
    /\ (\A j \in JobId : ~ Carries(j, m)) => Told(m)
    /\ m \in intake => message[m] # "ABSENT"

CourseInv == \A m \in Message : cuts[m] = 0 => Course(m)

\* A run that lost its job has cost its message a cut.
LostCut ==
    \A j \in JobId :
        job[j].slot = "lost" /\ ~ At(j, "free") => cuts[job[j].msg] # 0

\* Cuts are never taken back.
LEMMA CutsGrow ==
    ASSUME IInv, IInv', [Next]_vars, NEW m \in Message, cuts'[m] = 0
    PROVE  cuts[m] = 0
  <1>1. TallyOK /\ JobsFit
    BY DEF IInv, OthersOK
  <1>2. cuts[m] \in Nat
    BY <1>1 DEF TallyOK
  <1>3. CASE UNCHANGED cuts
    BY <1>3
  <1>4. CASE \E j \in JobId : cuts' = [cuts EXCEPT ![job[j].msg] = @ + 1]
    BY <1>1, <1>2, <1>4 DEF TallyOK
  <1>5. CASE Crash
    <2>1. Cardinality(Owning(m)) \in Nat
      BY SizeOfPart, OutboundAssumption DEF Owning, Active
    <2>2. cuts'[m] = cuts[m] + Cardinality(Owning(m))
      BY <1>5 DEF Crash
    <2> QED
      BY <1>2, <2>1, <2>2
  <1> QED
    BY <1>3, <1>4, <1>5, NextKinds
    DEF AnyKind, StepOfAKind, Moves, HandsOver, Sends, Writes, Tells, Ends, Throws,
        Stalls, Requeues, Drops, Posts, Enqueues, Loses, Cancels, Rests, tolds

\* A crash that costs a message nothing found no run of it that owned its job.
LEMMA CrashElsewhere ==
    ASSUME IInv, Crash, NEW m \in Message, cuts'[m] = 0
    PROVE  Owning(m) = {}
  <1>1. cuts[m] \in Nat /\ cuts'[m] = cuts[m] + Cardinality(Owning(m))
    BY DEF Crash, IInv, OthersOK, TallyOK
  <1>2. IsFiniteSet(Owning(m)) /\ Cardinality(Owning(m)) \in Nat
    BY SizeOfPart, OutboundAssumption DEF Owning, Active
  <1>3. Cardinality(Owning(m)) = 0
    BY <1>1, <1>2
  <1> QED
    BY <1>2, <1>3, FS_EmptySet

LEMMA NextLostCut == IInv /\ IInv' /\ LostCut /\ [Next]_vars => LostCut'
  <1> SUFFICES ASSUME IInv, IInv', LostCut, [Next]_vars, NEW i \in JobId,
                      job'[i].slot = "lost", job'[i].pc # "free",
                      cuts'[job'[i].msg] = 0
               PROVE  FALSE
    BY DEF LostCut
  <1>0. JobsFit /\ TallyOK /\ job'[i].msg \in Message
    BY DEF IInv, OthersOK, JobsFit, GoodJob, Fit
  <1>1. cuts[job'[i].msg] = 0
    BY <1>0, CutsGrow
  <1>2. ~ (job[i].slot = "lost" /\ job[i].pc # "free" /\ job[i].msg = job'[i].msg)
    BY <1>1 DEF LostCut
  <1>3. ASSUME NEW j \in JobId, StepOfAKind(j)
        PROVE  FALSE
    BY <1>2, <1>3 DEF StepOfAKind, Moves, HandsOver, Sends, Writes, Tells, Ends,
       Alone, GoesTo, Successor, Leaving
  <1>4. ASSUME NEW j \in JobId, Throws(j) \/ Requeues(j) \/ Drops(j)
        PROVE  FALSE
    BY <1>2, <1>4 DEF Throws, Requeues, Drops, Alone, GoesTo, Running, InTry,
       Leaving
  <1>5. ASSUME NEW j \in JobId, Stalls(j)
        PROVE  FALSE
    <2>1. i = j
      BY <1>2, <1>5 DEF Stalls, Replaces
    <2>2. cuts'[job[j].msg] = cuts[job[j].msg] + 1 /\ job'[j].msg = job[j].msg
      BY <1>0, <1>5, <2>1 DEF Stalls, TallyOK
    <2> QED
      BY <1>0, <1>1, <2>1, <2>2
  <1>6. ASSUME NEW m \in Message, Posts(m) \/ Enqueues(m) \/ Loses(m) \/ Cancels(m)
        PROVE  FALSE
    BY <1>2, <1>6 DEF Posts, Enqueues, Loses, Cancels, Alone
  <1>7. CASE Crash
    BY <1>0, <1>2, <1>7, CrashedRuns
  <1>8. CASE Rests
    BY <1>2, <1>8 DEF Rests
  <1> QED
    BY <1>3, <1>4, <1>5, <1>6, <1>7, <1>8, NextKinds DEF AnyKind

\* A message whose jobs, row and reports stay as they are keeps its course.
SameFor(m) ==
    /\ message'[m] = message[m]
    /\ notified'[m] = notified[m]
    /\ m \in intake' <=> m \in intake
    /\ \A i \in JobId :
          /\ Carries(i, m)' <=> Carries(i, m)
          /\ Carries(i, m) => /\ job'[i].pc = job[i].pc
                              /\ job'[i].result = job[i].result

LEMMA SameCourse ==
    ASSUME NEW m, Course(m), SameFor(m)
    PROVE  Course(m)'
  <1>1. Unqueued(m)' <=> Unqueued(m)
    BY DEF Unqueued, SameFor
  <1>2. Untouched(m)' <=> Untouched(m)
    BY DEF Untouched, SameFor
  <1>3. Told(m)' <=> Told(m)
    BY DEF Told, SameFor
  <1>4. \A i \in JobId : Carries(i, m)' => (Reached(i, m)' <=> Reached(i, m))
    BY DEF Reached, SameFor
  <1>5. \A i \in JobId : Carries(i, m)' <=> Carries(i, m)
    BY DEF SameFor
  <1> HIDE DEF Carries
  <1> QED
    BY <1>1, <1>2, <1>3, <1>4, <1>5 DEF Course, SameFor

\* A step of a run concerns its own message only.
LEMMA OtherMessages ==
    ASSUME IInv, NEW j \in JobId, StepOfAKind(j), NEW m \in Message,
           m # job[j].msg, ~ At(j, "free")
    PROVE  SameFor(m)
  <1>0. /\ message \in [Message -> Status \cup {"ABSENT"}]
        /\ notified \in [Message -> SUBSET FinalStatus]
        /\ JobsFit
    BY DEF IInv, OthersOK, RowsOK, TallyOK
  <1>1. message'[m] = message[m] /\ notified'[m] = notified[m] /\ intake' = intake
    BY <1>0 DEF StepOfAKind, Moves, HandsOver, Sends, Writes, Tells, Ends,
       SetStatus, rows, tolds
  <1>2. ~ Carries(j, m)
    BY DEF Carries
  <1>3. ~ Carries(j, m)'
    BY DEF StepOfAKind, Moves, HandsOver, Sends, Writes, Tells, Ends, GoesTo,
       Carries
  <1>4. ASSUME NEW i \in JobId, i # j, job'[i] # job[i]
        PROVE  ~ Carries(i, m) /\ ~ Carries(i, m)'
    BY <1>4 DEF StepOfAKind, Moves, HandsOver, Sends, Writes, Tells, Ends,
       Alone, Successor, Carries
  <1>5. ASSUME NEW i \in JobId, job'[i] = job[i]
        PROVE  /\ Carries(i, m)' <=> Carries(i, m)
               /\ job'[i].pc = job[i].pc /\ job'[i].result = job[i].result
    BY <1>5 DEF Carries
  <1> QED
    BY <1>1, <1>2, <1>3, <1>4, <1>5 DEF SameFor

\* The steps of the run that carries the message.
LEMMA OwnMessage ==
    ASSUME IInv, NEW j \in JobId, StepOfAKind(j), NEW m \in Message,
           m = job[j].msg, Course(m)
    PROVE  Course(m)'
  <1>0. /\ message \in [Message -> Status \cup {"ABSENT"}]
        /\ notified \in [Message -> SUBSET FinalStatus]
        /\ JobsFit
    BY DEF IInv, OthersOK, RowsOK, TallyOK
  <1>1. \A i \in JobId : At(i, "notify") => job[i].result \in SentStatus
    BY <1>0 DEF JobsFit, GoodJob, Fit
  <1>2. /\ \A i, k \in JobId : Carries(i, m) /\ Carries(k, m) => i = k
        /\ \A i \in JobId : Carries(i, m) => Reached(i, m) /\ ~ Unqueued(m)
        /\ (\A i \in JobId : ~ Carries(i, m)) => Told(m)
        /\ m \in intake => message[m] # "ABSENT"
    BY DEF Course, Untouched
  <1>3. CASE Moves(j)
    <2>1. UNCHANGED <<message, notified, intake>>
      BY <1>3 DEF Moves, rows, tolds
    <2>2. CASE Carries(j, m)' <=> Carries(j, m)
      <3>1. \A i \in JobId \ {j} : job'[i] = job[i]
        BY <1>3 DEF Moves, Alone
      <3>2. \A i \in JobId : Carries(i, m)' <=> Carries(i, m)
        BY <2>2, <3>1 DEF Carries
      <3>3. Reached(j, m) => Reached(j, m)'
        BY <1>3, <2>1 DEF Moves, GoesTo, Reached, Leaving
      <3>4. \A i \in JobId : Reached(i, m) => Reached(i, m)'
        BY <2>1, <3>1, <3>3 DEF Reached
      <3>5. /\ Unqueued(m)' <=> Unqueued(m)
            /\ Told(m)' <=> Told(m)
            /\ Untouched(m)' <=> Untouched(m)
        BY <2>1, <3>2 DEF Unqueued, Told, Untouched
      <3> HIDE DEF Carries
      <3> QED
        BY <2>1, <3>2, <3>4, <3>5 DEF Course
    <2>3. CASE At(j, "read") /\ GoesTo(j, "exit")
      <3>1. Carries(j, m) /\ Reached(j, m) /\ ~ Unqueued(m)
        BY <1>2, <2>3 DEF Carries
      <3>2. \A i \in JobId : ~ Carries(i, m)'
        BY <1>2, <1>3, <2>3, <3>1 DEF Moves, Alone, GoesTo, Carries
      <3>3. Told(m)' /\ ~ Unqueued(m)' /\ (m \in intake' => message'[m] # "ABSENT")
        BY <1>2, <2>1, <2>3, <3>1 DEF Told, Reached, Unqueued
      <3> HIDE DEF Carries
      <3> QED
        BY <3>2, <3>3 DEF Course
    <2> QED
      BY <1>3, <2>2, <2>3 DEF Moves, GoesTo, Carries, Leaving
  <1>4. CASE HandsOver(j)
    <2>1. UNCHANGED <<message, notified, intake>>
      BY <1>4 DEF HandsOver, rows, tolds
    <2>2. PICK k \in JobId : Successor(j, k)
      BY <1>4 DEF HandsOver
    <2>3. Carries(j, m) /\ job[j].pc \notin {"notify", "report"} /\ ~ Carries(j, m)'
      BY <1>4 DEF HandsOver, GoesTo, Carries
    <2>4. notified[m] = {} /\ message[m] \notin FinalStatus /\ ~ Unqueued(m)
      BY <1>2, <2>3 DEF Reached
    <2>5. \A i \in JobId : Carries(i, m)' <=> i = k
      BY <1>2, <2>2, <2>3 DEF Successor, Carries
    <2>6. Reached(k, m)'
      BY <2>1, <2>2, <2>4 DEF Reached, Successor
    <2>7. ~ Unqueued(m)'
      BY <2>1, <2>4 DEF Unqueued
    <2> HIDE DEF Carries
    <2> QED
      BY <1>2, <2>1, <2>5, <2>6, <2>7 DEF Course
  <1>5. CASE Sends(j)
    <2>1. UNCHANGED <<message, notified, intake>>
      BY <1>5 DEF Sends, rows
    <2>2. Carries(j, m) /\ job[j].pc \notin {"notify", "report"}
      BY <1>5 DEF Sends, Carries
    <2>3. notified[m] = {} /\ message[m] \notin FinalStatus /\ ~ Unqueued(m)
      BY <1>2, <2>2 DEF Reached
    <2>4. \A i \in JobId : Carries(i, m)' <=> i = j
      BY <1>2, <1>5, <2>2 DEF Sends, Alone, GoesTo, Carries
    <2>5. Reached(j, m)' /\ ~ Unqueued(m)'
      BY <1>5, <2>1, <2>3 DEF Reached, Sends, GoesTo, Unqueued
    <2> HIDE DEF Carries
    <2> QED
      BY <1>2, <2>1, <2>4, <2>5 DEF Course
  <1>6. CASE Writes(j) /\ ~ At(j, "back")
    <2>1. UNCHANGED <<notified, intake>>
      BY <1>6 DEF Writes, tolds
    <2>2. Carries(j, m) /\ job[j].pc \notin {"notify", "report"}
      BY <1>6 DEF Writes, Carries
    <2>3. notified[m] = {} /\ ~ Unqueued(m)
      BY <1>2, <2>2 DEF Reached
    <2>4. \A i \in JobId : Carries(i, m)' <=> i = j
      BY <1>2, <1>6, <2>2 DEF Writes, Alone, GoesTo, Carries
    <2>5. /\ At(j, "mark") => job'[j].pc = "send" /\ message'[m] = "SENDING"
          /\ At(j, "ack") => /\ job'[j].pc = "notify"
                             /\ message'[m] = job'[j].result
                             /\ job'[j].result \in SentStatus
          /\ ~ At(j, "mark") /\ ~ At(j, "ack") => /\ job'[j].pc = "report"
                                                  /\ message'[m] = "FAILED"
      BY <1>0, <1>6 DEF Writes, GoesTo, SetStatus
    <2>6. Reached(j, m)' /\ message'[m] # "ABSENT"
      BY <2>1, <2>3, <2>5 DEF Reached, FinalStatus, SentStatus
    <2>7. ~ Unqueued(m)'
      BY <2>1, <2>3, <2>6 DEF Unqueued
    <2> HIDE DEF Carries
    <2> QED
      BY <2>1, <2>4, <2>6, <2>7 DEF Course
  <1>7. CASE Writes(j) /\ At(j, "back")
    <2>1. UNCHANGED <<notified, intake>>
      BY <1>7 DEF Writes, tolds
    <2>2. message'[m] = IF message[m] = "SENDING" THEN "QUEUED" ELSE message[m]
      BY <1>0, <1>7 DEF Writes, SetStatus
    <2>3. \A i \in JobId : Carries(i, m)' <=> Carries(i, m)
      BY <1>7 DEF Writes, Alone, GoesTo, Carries
    <2>4. ASSUME NEW i \in JobId, Carries(i, m), Reached(i, m)
          PROVE  Reached(i, m)'
      <3>1. i # j /\ job'[i] = job[i]
        BY <1>7, <2>4 DEF Writes, Alone, Carries
      <3> QED
        BY <1>1, <2>1, <2>2, <2>4, <3>1 DEF Reached, FinalStatus, SentStatus
    <2>5. Told(m) => Told(m)'
      BY <2>1, <2>2 DEF Told, FinalStatus, SentStatus
    <2>6. /\ Unqueued(m)' => Unqueued(m)
          /\ m \in intake' => message'[m] # "ABSENT"
      BY <1>2, <2>1, <2>2 DEF Unqueued
    <2>7. Untouched(m) => Untouched(m)'
      BY <2>1, <2>2, <2>3 DEF Untouched, FinalStatus, SentStatus
    <2> HIDE DEF Carries
    <2> QED
      BY <2>3, <2>4, <2>5, <2>6, <2>7 DEF Course
  <1>8. CASE Tells(j)
    <2>1. UNCHANGED <<message, intake>>
      BY <1>8 DEF Tells, rows
    <2>2. Carries(j, m) /\ Reached(j, m) /\ ~ Unqueued(m)
      BY <1>2, <1>8 DEF Tells, Carries
    <2>3. \A i \in JobId : ~ Carries(i, m)'
      BY <1>2, <1>8, <2>2 DEF Tells, Alone, GoesTo, Carries
    <2>4. message[m] \in FinalStatus /\ notified'[m] = {message[m]}
      BY <1>0, <1>1, <1>8, <2>2 DEF Tells, Reached, FinalStatus
    <2>5. Told(m)' /\ ~ Unqueued(m)'
      BY <2>1, <2>2, <2>4 DEF Told, Unqueued
    <2> HIDE DEF Carries
    <2> QED
      BY <1>2, <2>1, <2>3, <2>5 DEF Course
  <1>9. CASE Ends(j)
    <2>1. UNCHANGED <<message, notified, intake>>
      BY <1>9 DEF Ends, tolds
    <2>2. \A i \in JobId \ {j} : Carries(i, m)' <=> Carries(i, m)
      BY <1>9 DEF Ends, Alone, Carries
    <2>3. \A i \in JobId : Carries(i, m)' => Carries(i, m)
      BY <1>9, <2>2 DEF Ends, GoesTo, Carries
    <2>4. \A i \in JobId : Carries(i, m)' /\ Reached(i, m) => Reached(i, m)'
      BY <1>9, <2>1 DEF Ends, Alone, GoesTo, Reached, Carries
    <2>5. Carries(j, m) => At(j, "abort")
      BY <1>9 DEF Ends, Carries
    <2>6. Carries(j, m) => Told(m)
      BY <1>2, <2>5 DEF Reached, Told
    <2>7. (\A i \in JobId : ~ Carries(i, m)') => Told(m)
      BY <1>2, <2>2, <2>6
    <2>8. Told(m)' <=> Told(m)
      BY <2>1 DEF Told
    <2>9. Unqueued(m)' <=> Unqueued(m)
      BY <2>1 DEF Unqueued
    <2>10. Untouched(m) => Untouched(m)'
      BY <2>1, <2>3 DEF Untouched
    <2>11. Unqueued(m) => Untouched(m)
      BY DEF Course
    <2> HIDE DEF Carries
    <2> QED
      BY <1>2, <2>1, <2>3, <2>4, <2>7, <2>8, <2>9, <2>10, <2>11 DEF Course
  <1> QED
    BY <1>3, <1>4, <1>5, <1>6, <1>7, <1>8, <1>9 DEF StepOfAKind

\* An interruption of a run ends what is promised of its message, and concerns
\* no other.
LEMMA CutCourse ==
    ASSUME IInv, NEW j \in JobId, Throws(j) \/ Stalls(j), NEW m \in Message,
           Course(m), cuts'[m] = 0
    PROVE  Course(m)'
  <1>0. TallyOK /\ JobsFit
    BY DEF IInv, OthersOK
  <1>1. m # job[j].msg
    BY <1>0 DEF Throws, Stalls, TallyOK
  <1>2. UNCHANGED <<message, notified, intake>>
    BY DEF Throws, Stalls, rows
  <1>3. ASSUME NEW i \in JobId
        PROVE  /\ Carries(i, m)' <=> Carries(i, m)
               /\ Carries(i, m) => /\ job'[i].pc = job[i].pc
                                   /\ job'[i].result = job[i].result
    BY <1>1 DEF Throws, Stalls, Replaces, Alone, GoesTo, Carries
  <1>4. SameFor(m)
    BY <1>2, <1>3 DEF SameFor
  <1> QED
    BY <1>4, SameCourse

\* A job that goes back to the queue still carries its message; one that is
\* dropped had told nothing.
LEMMA FailedJobCourse ==
    ASSUME IInv, NEW j \in JobId, Requeues(j) \/ Drops(j), NEW m \in Message,
           Course(m)
    PROVE  Course(m)'
  <1>1. UNCHANGED <<message, notified, intake>>
    BY DEF Requeues, Drops, rows, tolds
  <1>2. \A i \in JobId : Carries(i, m)' => Carries(i, m)
    BY DEF Requeues, Drops, Alone, Carries
  <1>3. \A i \in JobId : Carries(i, m) /\ ~ Carries(i, m)'
           => i = j /\ At(j, "failed")
    BY DEF Requeues, Drops, Alone, Carries
  <1>4. \A i \in JobId : Reached(i, m) /\ Carries(i, m) => Reached(i, m)'
    BY <1>1 DEF Requeues, Drops, Alone, Reached
  <1>5. Carries(j, m) /\ At(j, "failed") => Told(m)
    BY DEF Course, Reached, Told
  <1>6. (\A i \in JobId : ~ Carries(i, m)') => Told(m)
    BY <1>3, <1>5 DEF Course
  <1>7. /\ Told(m)' <=> Told(m)
        /\ Unqueued(m)' <=> Unqueued(m)
        /\ Untouched(m) => Untouched(m)'
    BY <1>1, <1>2 DEF Told, Unqueued, Untouched
  <1> HIDE DEF Carries
  <1> QED
    BY <1>1, <1>2, <1>4, <1>6, <1>7 DEF Course

LEMMA CrashCourse ==
    ASSUME IInv, LostCut, Crash, NEW m \in Message, Course(m), cuts[m] = 0,
           cuts'[m] = 0
    PROVE  Course(m)'
  <1>0. JobsFit
    BY DEF IInv
  <1>1. \A i \in Active : job[i].msg # m
    <2> SUFFICES ASSUME NEW i \in Active, job[i].msg = m PROVE FALSE
      OBVIOUS
    <2>1. i \in JobId /\ job[i].pc # "free"
      BY DEF Active, Running, InTry, Leaving
    <2>2. job[i].slot = "own"
      BY <1>0, <2>1, CrashedRuns DEF LostCut
    <2>3. i \in Owning(m)
      BY <2>2 DEF Owning
    <2> QED
      BY <2>3, CrashElsewhere
  <1>2. UNCHANGED <<message, notified, intake>>
    BY DEF Crash
  <1>3. ASSUME NEW i \in JobId
        PROVE  /\ Carries(i, m)' <=> Carries(i, m)
               /\ Carries(i, m) => /\ job'[i].pc = job[i].pc
                                   /\ job'[i].result = job[i].result
    <2>1. CASE i \in Active
      <3>1. job'[i].pc = "free" \/ job'[i].msg = job[i].msg
        BY <1>0, <2>1, CrashedRuns
      <3> QED
        BY <1>1, <2>1, <3>1 DEF Carries
    <2>2. CASE i \notin Active
      BY <1>0, <2>2, CrashedRuns DEF Carries
    <2> QED
      BY <2>1, <2>2
  <1>4. SameFor(m)
    BY <1>2, <1>3 DEF SameFor
  <1> QED
    BY <1>4, SameCourse

LEMMA RequestCourse ==
    ASSUME IInv, NEW x \in Message,
           Posts(x) \/ Enqueues(x) \/ Loses(x) \/ Cancels(x),
           NEW m \in Message, Course(m)
    PROVE  Course(m)'
  <1>0. /\ message \in [Message -> Status \cup {"ABSENT"}]
        /\ \A i \in JobId : At(i, "notify") => job[i].result \in SentStatus
    BY DEF IInv, OthersOK, RowsOK, JobsFit, GoodJob, Fit
  <1>1. UNCHANGED notified
    BY DEF Posts, Enqueues, Loses, Cancels, tolds
  <1>2. UNCHANGED job => \A i \in JobId : Carries(i, m)' <=> Carries(i, m)
    BY DEF Carries
  <1>3. CASE Posts(x)
    <2>1. m # x => SameFor(m)
      BY <1>0, <1>1, <1>2, <1>3 DEF Posts, SameFor
    <2>2. CASE m = x
      <3>1. Unqueued(m) /\ Untouched(m)
        BY <1>3, <2>2 DEF Posts, Unqueued, Course
      <3>2. message'[m] = "QUEUED"
        BY <1>0, <1>3, <2>2 DEF Posts
      <3>3. Untouched(m)'
        BY <1>1, <1>2, <1>3, <3>1, <3>2 DEF Untouched, FinalStatus, SentStatus,
           Posts
      <3>4. Told(m)' /\ message'[m] # "ABSENT"
        BY <3>2, <3>3 DEF Told, Untouched
      <3> HIDE DEF Carries
      <3> QED
        BY <3>3, <3>4 DEF Course, Untouched
    <2> QED
      BY <2>1, <2>2, SameCourse
  <1>4. CASE Enqueues(x)
    <2>1. PICK k \in JobId :
             /\ At(k, "free")
             /\ job'[k].pc = "waiting" /\ job'[k].msg = x /\ Alone(k)
      BY <1>4 DEF Enqueues
    <2>2. UNCHANGED message /\ x \in intake /\ intake' = intake \ {x}
      BY <1>4 DEF Enqueues
    <2>3. m # x => SameFor(m)
      BY <1>1, <2>1, <2>2 DEF SameFor, Alone, Carries
    <2>4. CASE m = x
      <3>1. Untouched(m) /\ message[m] # "ABSENT"
        BY <2>2, <2>4 DEF Unqueued, Course
      <3>2. \A i \in JobId : Carries(i, m)' <=> i = k
        BY <2>1, <2>4, <3>1 DEF Untouched, Alone, Carries
      <3>3. Reached(k, m)'
        BY <1>1, <2>1, <2>2, <3>1 DEF Reached, Untouched
      <3>4. ~ Unqueued(m)' /\ m \notin intake'
        BY <2>2, <2>4, <3>1 DEF Unqueued
      <3> HIDE DEF Carries
      <3> QED
        BY <3>2, <3>3, <3>4 DEF Course
    <2> QED
      BY <2>3, <2>4, SameCourse
  <1>5. CASE Loses(x)
    <2>1. UNCHANGED <<message, job>> /\ intake' = intake \ {x}
      BY <1>5 DEF Loses
    <2>2. /\ \A i \in JobId : Carries(i, m)' <=> Carries(i, m)
          /\ \A i \in JobId : Reached(i, m)' <=> Reached(i, m)
          /\ Told(m)' <=> Told(m)
          /\ Untouched(m)' <=> Untouched(m)
          /\ Unqueued(m)' => Unqueued(m)
      BY <1>1, <2>1 DEF Carries, Reached, Told, Untouched, Unqueued
    <2> HIDE DEF Carries
    <2> QED
      BY <2>1, <2>2 DEF Course
  <1>6. CASE Cancels(x)
    <2>1. UNCHANGED <<job, intake>>
      BY <1>6 DEF Cancels
    <2>2. \/ message'[m] = message[m]
          \/ message[m] = "QUEUED" /\ message'[m] = "CANCELED"
      BY <1>0, <1>6 DEF Cancels
    <2>3. \A i \in JobId : Carries(i, m)' <=> Carries(i, m)
      BY <2>1 DEF Carries
    <2>4. \A i \in JobId : Reached(i, m) => Reached(i, m)'
      BY <1>0, <1>1, <2>1, <2>2 DEF Reached, FinalStatus, SentStatus
    <2>5. /\ Told(m) => Told(m)'
          /\ Untouched(m) => Untouched(m)'
          /\ Unqueued(m)' => Unqueued(m)
          /\ message[m] # "ABSENT" => message'[m] # "ABSENT"
      BY <1>1, <2>1, <2>2, <2>3
      DEF Told, Untouched, Unqueued, FinalStatus, SentStatus
    <2> HIDE DEF Carries
    <2> QED
      BY <2>1, <2>3, <2>4, <2>5 DEF Course
  <1> QED
    BY <1>3, <1>4, <1>5, <1>6

LEMMA InitCourse == Init => LostCut /\ CourseInv
  <1> SUFFICES ASSUME Init PROVE LostCut /\ CourseInv
    OBVIOUS
  <1>1. \A i \in JobId : At(i, "free")
    BY FreePc DEF Init
  <1>2. \A m \in Message : /\ message[m] = "ABSENT" /\ notified[m] = {}
                          /\ m \notin intake
    BY DEF Init
  <1>3. \A m : \A i \in JobId : ~ Carries(i, m)
    BY <1>1 DEF Carries
  <1>4. \A m \in Message : Untouched(m) /\ Told(m)
    BY <1>2, <1>3 DEF Untouched, Told, FinalStatus, SentStatus
  <1> HIDE DEF Carries
  <1> QED
    BY <1>1, <1>2, <1>3, <1>4 DEF LostCut, CourseInv, Course

LEMMA NextCourse ==
    IInv /\ IInv' /\ LostCut /\ CourseInv /\ [Next]_vars => CourseInv'
  <1> SUFFICES ASSUME IInv, IInv', LostCut, CourseInv, [Next]_vars,
                      NEW m \in Message, cuts'[m] = 0
               PROVE  Course(m)'
    BY DEF CourseInv
  <1>1. cuts[m] = 0 /\ Course(m)
    BY CutsGrow DEF CourseInv
  <1>2. ASSUME NEW j \in JobId, StepOfAKind(j)
        PROVE  Course(m)'
    <2>1. CASE m = job[j].msg
      BY <1>1, <1>2, <2>1, OwnMessage
    <2>2. CASE m # job[j].msg
      <3>1. ~ At(j, "free")
        BY <1>2 DEF StepOfAKind, Moves, HandsOver, Sends, Writes, Tells, Ends,
           Leaving
      <3> QED
        BY <1>1, <1>2, <2>2, <3>1, OtherMessages, SameCourse
    <2> QED
      BY <2>1, <2>2
  <1>3. CASE Rests
    <2>1. SameFor(m)
      BY <1>3 DEF Rests, SameFor, Carries, rows, tolds
    <2> QED
      BY <1>1, <2>1, SameCourse
  <1> QED
    BY <1>1, <1>2, <1>3, NextKinds, CutCourse, FailedJobCourse, CrashCourse,
       RequestCourse DEF AnyKind

\* The invariant of the course of a message.
CInv == IInv /\ LostCut /\ CourseInv

LEMMA CourseInvariance == Spec => []CInv
  <1>1. Init => CInv
    BY InitIInv, InitCourse DEF CInv
  <1>2. CInv /\ [Next]_vars => CInv'
    BY NextIInv, NextLostCut, NextCourse DEF CInv
  <1> QED
    BY <1>1, <1>2, PTL DEF Spec

\* A project hears one final status of a message at most, and that of the row
\* once every run has returned, unless a run of it was interrupted
\* (emitStatusWebhook in processOutbound and failMessage).
THEOREM VerdictUnique == Spec => []OneVerdict
  <1>1. CInv => OneVerdict
    <2> SUFFICES ASSUME CInv, NEW m \in Message, cuts[m] = 0
                 PROVE  /\ \A s, t \in notified[m] : s = t
                        /\ /\ message[m] \in FinalStatus
                           /\ \A j \in JobId : job[j].msg # m
                           => notified[m] = {message[m]}
      BY DEF OneVerdict
    <2>1. Course(m)
      BY DEF CInv, CourseInv
    <2>2. CASE \E j \in JobId : Carries(j, m)
      BY <2>1, <2>2 DEF Course, Reached, Carries
    <2>3. CASE \A j \in JobId : ~ Carries(j, m)
      BY <2>1, <2>3 DEF Course, Told
    <2> QED
      BY <2>2, <2>3
  <1> QED
    BY <1>1, CourseInvariance, PTL

-----------------------------------------------------------------------------
(* ImplementsLifecycle.                                                      *)

\* A row says SENDING only while a run that marked it is on its way, or is
\* about to set it back.
MidSend(j, m) ==
    job[j].msg = m
        /\ job[j].pc \in {"send", "record", "count", "ack", "failing", "back"}

SendingInv ==
    \A m \in Message : cuts[m] = 0 /\ message[m] = "SENDING" =>
        \E j \in JobId : MidSend(j, m)

\* A message that a crash costs nothing has no run.
LEMMA NoRunCrashed ==
    ASSUME IInv, LostCut, Crash, NEW m \in Message, cuts[m] = 0, cuts'[m] = 0,
           NEW i \in JobId, job[i].pc \in Running
    PROVE  job[i].msg # m
  <1> SUFFICES ASSUME job[i].msg = m PROVE FALSE
    OBVIOUS
  <1>1. i \in Active /\ job[i].pc # "free"
    BY DEF Active, Running, InTry, Leaving
  <1>2. job[i].slot = "own"
    BY <1>1, CrashedRuns DEF LostCut, IInv
  <1>3. i \in Owning(m)
    BY <1>1, <1>2 DEF Owning
  <1> QED
    BY <1>3, CrashElsewhere

LEMMA NextSending ==
    IInv /\ IInv' /\ LostCut /\ SendingInv /\ [Next]_vars => SendingInv'
  <1> SUFFICES ASSUME IInv, IInv', LostCut, SendingInv, [Next]_vars,
                      NEW m \in Message, cuts'[m] = 0, message'[m] = "SENDING"
               PROVE  \E i \in JobId : MidSend(i, m)'
    BY DEF SendingInv
  <1>0. /\ JobsFit /\ TallyOK
        /\ message \in [Message -> Status \cup {"ABSENT"}]
        /\ cuts[m] = 0
    BY CutsGrow DEF IInv, OthersOK, RowsOK
  <1>1. CASE \E j \in JobId : /\ Writes(j) /\ At(j, "mark") /\ job[j].msg = m
    BY <1>1 DEF Writes, GoesTo, MidSend
  <1>2. CASE ~ \E j \in JobId : /\ Writes(j) /\ At(j, "mark") /\ job[j].msg = m
    <2>1. message[m] = "SENDING"
      <3>1. ASSUME NEW j \in JobId, Writes(j)
            PROVE  message[m] = "SENDING"
        BY <1>0, <1>2, <3>1 DEF Writes, SetStatus, SentStatus
      <3>2. CASE ~ \E j \in JobId : Writes(j)
        <4>1. CASE UNCHANGED message
          BY <4>1
        <4>2. CASE \E x \in Message : Posts(x) \/ Cancels(x)
          BY <1>0, <4>2 DEF Posts, Cancels
        <4> QED
          BY <3>2, <4>1, <4>2, NextKinds
          DEF AnyKind, StepOfAKind, Moves, HandsOver, Sends, Tells, Ends, Throws,
              Stalls, Requeues, Drops, Enqueues, Loses, Rests, Crash, rows
      <3> QED
        BY <3>1, <3>2
    <2>2. PICK i \in JobId : MidSend(i, m)
      BY <1>0, <2>1 DEF SendingInv
    <2>3. i \in JobId /\ job[i].pc \in Running /\ job[i].pc # "free"
      BY <2>2 DEF MidSend, Running, InTry, Leaving
    <2>4. ASSUME NEW j \in JobId, StepOfAKind(j)
          PROVE  MidSend(i, m)'
      <3>1. CASE i # j
        BY <2>2, <2>4, <3>1 DEF StepOfAKind, Moves, HandsOver, Sends, Writes, Tells,
           Ends, Alone, Successor, MidSend
      <3>2. CASE i = j /\ ~ Writes(j)
        BY <2>2, <2>4, <3>2 DEF StepOfAKind, Moves, HandsOver, Sends, Tells,
           Ends, GoesTo, MidSend, Leaving
      <3>3. CASE i = j /\ Writes(j)
        BY <1>0, <2>2, <3>3 DEF Writes, SetStatus, MidSend, SentStatus
      <3> QED
        BY <3>1, <3>2, <3>3
    <2>5. ASSUME NEW j \in JobId, Throws(j) \/ Stalls(j)
          PROVE  MidSend(i, m)'
      <3>1. m # job[j].msg
        BY <1>0, <2>5 DEF Throws, Stalls, TallyOK
      <3> QED
        BY <2>2, <2>5, <3>1 DEF Throws, Stalls, Replaces, Alone, MidSend
    <2>6. ASSUME NEW j \in JobId, Requeues(j) \/ Drops(j)
          PROVE  MidSend(i, m)'
      BY <2>2, <2>6 DEF Requeues, Drops, Alone, MidSend
    <2>7. ASSUME NEW x \in Message,
                 Posts(x) \/ Enqueues(x) \/ Loses(x) \/ Cancels(x)
          PROVE  MidSend(i, m)'
      BY <2>2, <2>7 DEF Posts, Enqueues, Loses, Cancels, Alone, MidSend
    <2>8. CASE Crash
      BY <1>0, <2>2, <2>3, <2>8, NoRunCrashed DEF MidSend
    <2>9. CASE Rests
      BY <2>2, <2>9 DEF Rests, MidSend
    <2> QED
      BY <2>4, <2>5, <2>6, <2>7, <2>8, <2>9, NextKinds DEF AnyKind
  <1> QED
    BY <1>1, <1>2

\* The steps of the abstract specification.
LStep == [Lifecycle!LNext]_<<message, Busy, Disturbed>>

SameBusy(m) == m \in Busy' <=> m \in Busy

LEMMA LStutter ==
    ASSUME UNCHANGED <<message, cuts>>, \A m \in Message : SameBusy(m)
    PROVE  LStep
  <1>1. Busy' = Busy
    BY DEF Busy, SameBusy
  <1>2. Disturbed' = Disturbed
    BY DEF Disturbed
  <1> QED
    BY <1>1, <1>2 DEF LStep

\* A step that changes only what was, or is now, disturbed.
LEMMA LDisturb ==
    ASSUME IInv, IInv', [Next]_vars,
           \A m \in Message : cuts'[m] = 0 =>
                message'[m] = message[m] /\ SameBusy(m)
    PROVE  LStep
  <1>1. /\ \A m \in Message : cuts'[m] \in Nat
        /\ \A m \in Message : cuts[m] \in Nat
    BY DEF IInv, OthersOK, TallyOK
  <1>2. Disturbed' \in SUBSET Message /\ Disturbed \subseteq Disturbed'
    BY <1>1, CutsGrow DEF Disturbed
  <1>3. Disturbed' = Disturbed \cup Disturbed'
    BY <1>2
  <1>4. \A m \in Message \ Disturbed' : cuts'[m] = 0
    BY <1>1 DEF Disturbed
  <1>5. \E D \in SUBSET Message : Disturbed' = Disturbed \cup D
    BY <1>2, <1>3
  <1>6. \A m \in Message \ Disturbed' :
            /\ message'[m] = message[m]
            /\ m \in Busy' <=> m \in Busy
    BY <1>4 DEF SameBusy
  <1>7. Lifecycle!Disturb
    BY <1>5, <1>6 DEF Lifecycle!Disturb
  <1> QED
    BY <1>7 DEF LStep, Lifecycle!LNext

\* A step that concerns one undisturbed message.
LEMMA LOneMessage ==
    ASSUME NEW m \in Message, cuts[m] = 0, UNCHANGED cuts,
           Lifecycle!Undisturbed(m)
    PROVE  LStep
  <1>1. m \in Message \ Disturbed
    BY DEF Disturbed
  <1> QED
    BY <1>1 DEF LStep, Lifecycle!LNext

\* What a step does to the set of busy messages.
LEMMA BusyElsewhere ==
    ASSUME NEW m \in Message, \A x \in Message \ {m} : SameBusy(x)
    PROVE  /\ m \in Busy' /\ m \notin Busy => Busy' = Busy \cup {m}
           /\ m \notin Busy' => Busy' = Busy \ {m}
           /\ SameBusy(m) => Busy' = Busy
  BY DEF Busy, SameBusy

LEMMA BusyOfOthers ==
    ASSUME NEW j \in JobId, StepOfAKind(j), ~ At(j, "free"), NEW m \in Message,
           m # job[j].msg
    PROVE  SameBusy(m)
  <1>1. ASSUME NEW i \in JobId
        PROVE  (job'[i].msg = m /\ UnderWay(i)') <=> (job[i].msg = m /\ UnderWay(i))
    <2>1. CASE i = j
      BY <2>1 DEF StepOfAKind, Moves, HandsOver, Sends, Writes, Tells, Ends, GoesTo,
         UnderWay, Running, InTry, Leaving
    <2>2. CASE i # j /\ job'[i] = job[i]
      BY <2>2 DEF UnderWay
    <2>3. CASE i # j /\ job'[i] # job[i]
      BY <2>3 DEF StepOfAKind, Moves, HandsOver, Sends, Writes, Tells, Ends, Alone,
         Successor, UnderWay, Running, InTry, Leaving
    <2> QED
      BY <2>1, <2>2, <2>3
  <1> QED
    BY <1>1 DEF SameBusy, Busy

\* The message of a run that stays under way stays busy; it becomes or ceases to
\* be busy by no other run.
LEMMA BusyByRun ==
    ASSUME NEW j \in JobId, StepOfAKind(j), NEW m \in Message, m = job[j].msg,
           ~ Ends(j)
    PROVE  /\ UnderWay(j) => m \in Busy
           /\ UnderWay(j)' => m \in Busy'
           /\ (UnderWay(j)' <=> UnderWay(j)) => SameBusy(m)
  <1>1. job'[j].msg = m
    BY DEF StepOfAKind, Moves, HandsOver, Sends, Writes, Tells, GoesTo
  <1>2. ASSUME NEW i \in JobId, i # j
        PROVE  (job'[i].msg = m /\ UnderWay(i)') <=> (job[i].msg = m /\ UnderWay(i))
    <2>1. CASE job'[i] = job[i]
      BY <2>1 DEF UnderWay
    <2>2. CASE job'[i] # job[i]
      BY <1>2, <2>2 DEF StepOfAKind, Moves, HandsOver, Sends, Writes, Tells, Alone,
         Successor, UnderWay, Running, InTry, Leaving
    <2> QED
      BY <2>1, <2>2
  <1> HIDE DEF UnderWay
  <1> QED
    BY <1>1, <1>2 DEF SameBusy, Busy

\* Every step of an undisturbed run is a step of the lifecycle.
LEMMA RunFollows ==
    ASSUME CInv, CInv', SendingInv, SendingInv', [Next]_vars,
           NEW j \in JobId, StepOfAKind(j), NEW m \in Message, m = job[j].msg,
           cuts'[m] = 0
    PROVE  LStep
  <1>0. /\ JobsFit /\ TallyOK
        /\ message \in [Message -> Status \cup {"ABSENT"}]
        /\ IInv /\ IInv' /\ cuts[m] = 0
    BY CutsGrow DEF CInv, IInv, OthersOK, RowsOK
  <1>1. Course(m) /\ ~ At(j, "free")
    BY <1>0 DEF CInv, CourseInv, StepOfAKind, Moves, HandsOver, Sends, Writes,
       Tells, Ends, Leaving
  <1>2. \A x \in Message \ {m} : SameBusy(x)
    BY <1>1, BusyOfOthers
  <1>3. UNCHANGED cuts
    BY <1>0 DEF StepOfAKind, Moves, HandsOver, Sends, Writes, Tells, Ends,
       tolds, TallyOK
  <1>4. Carries(j, m) => ~ Unqueued(m) /\ Reached(j, m)
    BY <1>1 DEF Course, Untouched
  <1>5. m \notin Busy' => message'[m] # "SENDING"
    <2> SUFFICES ASSUME message'[m] = "SENDING" PROVE m \in Busy'
      OBVIOUS
    <2>1. PICK i \in JobId : MidSend(i, m)'
      BY DEF SendingInv
    <2>2. job'[i].msg = m /\ UnderWay(i)'
      BY <2>1 DEF MidSend, UnderWay, Running, InTry, Leaving
    <2> QED
      BY <2>2 DEF Busy
  <1>6. message[m] = "SENDING" => m \in Busy
    <2> SUFFICES ASSUME message[m] = "SENDING" PROVE m \in Busy
      OBVIOUS
    <2>1. PICK i \in JobId : MidSend(i, m)
      BY <1>0 DEF SendingInv
    <2>2. job[i].msg = m /\ UnderWay(i)
      BY <2>1 DEF MidSend, UnderWay, Running, InTry, Leaving
    <2> QED
      BY <2>2 DEF Busy
  <1>7. ASSUME UNCHANGED message, SameBusy(m)
        PROVE  LStep
    BY <1>2, <1>3, <1>7, LStutter
  <1>8. ASSUME UNCHANGED message, UnderWay(j), ~ Ends(j)
        PROVE  LStep
    <2>1. m \in Busy
      BY <1>8, BusyByRun
    <2>2. CASE m \in Busy'
      BY <1>7, <1>8, <2>1, <2>2 DEF SameBusy
    <2>3. CASE m \notin Busy'
      <3>1. Busy' = Busy \ {m} /\ message[m] # "SENDING"
        BY <1>2, <1>5, <1>8, <2>3, BusyElsewhere
      <3>2. UNCHANGED Disturbed
        BY <1>3 DEF Disturbed
      <3>3. Lifecycle!PutDown(m)
        BY <1>8, <2>1, <3>1, <3>2 DEF Lifecycle!PutDown
      <3> QED
        BY <1>0, <1>3, <3>3, LOneMessage DEF Lifecycle!Undisturbed
    <2> QED
      BY <2>2, <2>3
  <1>9. CASE Moves(j)
    <2>1. UNCHANGED message /\ ~ Ends(j)
      BY <1>9 DEF Moves, Ends, rows, GoesTo, Leaving
    <2>2. CASE UnderWay(j)
      BY <1>8, <2>1, <2>2
    <2>3. CASE ~ UnderWay(j) /\ ~ UnderWay(j)'
      BY <1>7, <2>1, <2>3, BusyByRun
    <2>4. CASE ~ UnderWay(j) /\ UnderWay(j)' /\ m \in Busy
      BY <1>7, <2>1, <2>4, BusyByRun DEF SameBusy
    <2>5. CASE ~ UnderWay(j) /\ UnderWay(j)' /\ m \notin Busy
      <3>1. At(j, "read") /\ message[m] \notin AlreadyDone
        BY <1>9, <2>5 DEF Moves, GoesTo, UnderWay, Running, InTry, Leaving
      <3>2. Carries(j, m) /\ job[j].pc \notin {"notify", "report"}
        BY <3>1 DEF Carries
      <3>3. message[m] \notin FinalStatus /\ message[m] # "ABSENT"
        BY <1>4, <3>2 DEF Reached, Unqueued
      <3>4. message[m] = "QUEUED"
        BY <1>0, <1>6, <2>5, <3>1, <3>3 DEF Status, FinalStatus, SentStatus,
           AlreadyDone
      <3>5. Busy' = Busy \cup {m}
        BY <1>2, <2>1, <2>5, BusyByRun, BusyElsewhere
      <3>6. UNCHANGED Disturbed
        BY <1>3 DEF Disturbed
      <3>7. Lifecycle!PickUp(m)
        BY <2>1, <2>5, <3>4, <3>5, <3>6 DEF Lifecycle!PickUp
      <3> QED
        BY <1>0, <1>3, <3>7, LOneMessage DEF Lifecycle!Undisturbed
    <2> QED
      BY <2>2, <2>3, <2>4, <2>5
  <1>10. CASE HandsOver(j) \/ Sends(j) \/ Tells(j)
    <2>1. UNCHANGED message /\ ~ Ends(j) /\ UnderWay(j)
      BY <1>10 DEF HandsOver, Sends, Tells, Ends, rows, UnderWay, Running, InTry,
         Leaving
    <2> QED
      BY <1>8, <2>1
  <1>11. CASE Writes(j)
    <2>1. ~ Ends(j) /\ UnderWay(j) /\ m \in Busy
      BY <1>11, BusyByRun DEF Writes, Ends, UnderWay, Running, InTry, Leaving
    <2>2. Busy' \in {Busy, Busy \ {m}} /\ UNCHANGED Disturbed
      BY <1>2, <1>3, <2>1, BusyElsewhere DEF SameBusy, Disturbed
    <2>3. CASE UNCHANGED message
      BY <1>8, <2>1, <2>3
    <2>4. CASE ~ At(j, "back")
      <3>1. message[m] \notin FinalStatus
        <4>1. Carries(j, m) /\ job[j].pc \notin {"notify", "report"}
          BY <1>11, <2>4 DEF Writes, Carries
        <4> QED
          BY <1>4, <4>1 DEF Reached
      <3>2. \E s \in FinalStatus \cup {"SENDING"} :
               message' = [message EXCEPT ![m] = s]
        BY <1>11, <2>4 DEF Writes, SetStatus, FinalStatus
      <3>3. Lifecycle!Advance(m)
        BY <2>1, <2>2, <3>1, <3>2
        DEF Lifecycle!Advance, Lifecycle!SetTo, Lifecycle!Final, Lifecycle!Sent,
            FinalStatus, SentStatus
      <3> QED
        BY <1>0, <1>3, <3>3, LOneMessage DEF Lifecycle!Undisturbed
    <2>5. CASE At(j, "back") /\ message[m] = "SENDING"
      <3>1. message' = [message EXCEPT ![m] = "QUEUED"]
        BY <1>11, <2>5 DEF Writes, SetStatus
      <3>2. Lifecycle!Advance(m)
        BY <2>1, <2>2, <2>5, <3>1
        DEF Lifecycle!Advance, Lifecycle!SetTo, Lifecycle!Final, Lifecycle!Sent
      <3> QED
        BY <1>0, <1>3, <3>2, LOneMessage DEF Lifecycle!Undisturbed
    <2>6. CASE At(j, "back") /\ message[m] # "SENDING"
      <3>1. UNCHANGED message
        BY <1>0, <1>11, <2>6 DEF Writes, SetStatus
      <3> QED
        BY <2>3, <3>1
    <2> QED
      BY <2>4, <2>5, <2>6
  <1>12. CASE Ends(j)
    <2>1. UNCHANGED message
      BY <1>12 DEF Ends
    <2>2. SameBusy(m)
      BY <1>12 DEF Ends, Alone, GoesTo, SameBusy, Busy, UnderWay, Running, InTry,
         Leaving
    <2> QED
      BY <1>7, <2>1, <2>2
  <1> QED
    BY <1>9, <1>10, <1>11, <1>12 DEF StepOfAKind

\* Requests are steps of the lifecycle, or nothing to it.
LEMMA RequestFollows ==
    ASSUME CInv, CInv', [Next]_vars, NEW x \in Message,
           Posts(x) \/ Enqueues(x) \/ Loses(x) \/ Cancels(x)
    PROVE  LStep
  <1>0. /\ message \in [Message -> Status \cup {"ABSENT"}]
        /\ IInv /\ IInv'
    BY DEF CInv, IInv, OthersOK, RowsOK
  <1>1. UNCHANGED cuts
    BY DEF Posts, Enqueues, Loses, Cancels, tolds
  <1>2. \A m \in Message : SameBusy(m)
    <2> SUFFICES ASSUME NEW m \in Message PROVE SameBusy(m)
      OBVIOUS
    <2>1. \A i \in JobId : (job'[i].msg = m /\ UnderWay(i)')
                              <=> (job[i].msg = m /\ UnderWay(i))
      BY DEF Posts, Enqueues, Loses, Cancels, Alone, UnderWay, Running, InTry,
         Leaving
    <2> QED
      BY <2>1 DEF SameBusy, Busy
  <1>3. Busy' = Busy /\ Disturbed' = Disturbed
    BY <1>1, <1>2 DEF Busy, Disturbed, SameBusy
  <1>4. CASE UNCHANGED message
    BY <1>1, <1>2, <1>4, LStutter
  <1>5. CASE cuts[x] = 0 /\ Posts(x)
    <2>1. Lifecycle!Submit(x)
      BY <1>3, <1>5 DEF Posts, Lifecycle!Submit, Lifecycle!SetTo
    <2> QED
      BY <1>1, <1>5, <2>1, LOneMessage DEF Lifecycle!Undisturbed
  <1>6. CASE cuts[x] = 0 /\ Cancels(x) /\ message[x] = "QUEUED"
    <2>1. message' = [message EXCEPT ![x] = "CANCELED"]
      BY <1>6 DEF Cancels
    <2>2. Lifecycle!Cancel(x)
      BY <1>3, <1>6, <2>1 DEF Lifecycle!Cancel, Lifecycle!SetTo
    <2> QED
      BY <1>1, <1>6, <2>2, LOneMessage DEF Lifecycle!Undisturbed
  <1>7. CASE Cancels(x) /\ message[x] # "QUEUED"
    <2>1. UNCHANGED message
      BY <1>0, <1>7 DEF Cancels
    <2> QED
      BY <1>4, <2>1
  <1>8. CASE cuts[x] # 0 /\ (Posts(x) \/ Cancels(x))
    <2>1. \A m \in Message : cuts'[m] = 0 => message'[m] = message[m] /\ SameBusy(m)
      BY <1>0, <1>1, <1>2, <1>8 DEF Posts, Cancels
    <2> QED
      BY <1>0, <2>1, LDisturb
  <1> QED
    BY <1>4, <1>5, <1>6, <1>7, <1>8 DEF Enqueues, Loses

\* Whatever happens to the runs, the undisturbed messages keep their status.
LEMMA CutFollows ==
    ASSUME CInv, CInv', [Next]_vars,
           \/ Crash \/ Rests
           \/ \E j \in JobId : Throws(j) \/ Stalls(j) \/ Requeues(j) \/ Drops(j)
    PROVE  LStep
  <1>0. IInv /\ IInv' /\ JobsFit /\ TallyOK /\ LostCut
    BY DEF CInv, IInv, OthersOK
  <1>1. UNCHANGED message
    BY DEF Crash, Rests, Throws, Stalls, Requeues, Drops, rows
  <1>2. ASSUME NEW m \in Message, cuts'[m] = 0
        PROVE  SameBusy(m)
    <2>0. cuts[m] = 0
      BY <1>0, <1>2, CutsGrow
    <2>1. ASSUME NEW j \in JobId, Throws(j) \/ Stalls(j)
          PROVE  SameBusy(m)
      <3>1. m # job[j].msg
        BY <1>0, <1>2, <2>0, <2>1 DEF Throws, Stalls, TallyOK
      <3>2. \A i \in JobId : (job'[i].msg = m /\ UnderWay(i)')
                                <=> (job[i].msg = m /\ UnderWay(i))
        BY <2>1, <3>1 DEF Throws, Stalls, Replaces, Alone, GoesTo, UnderWay,
           Running, InTry, Leaving
      <3> QED
        BY <3>2 DEF SameBusy, Busy
    <2>2. ASSUME NEW j \in JobId, Requeues(j) \/ Drops(j)
          PROVE  SameBusy(m)
      BY <2>2 DEF Requeues, Drops, Alone, UnderWay, Running, InTry, Leaving,
         SameBusy, Busy
    <2>3. CASE Crash
      <3>1. ASSUME NEW i \in JobId
            PROVE  /\ ~ (job'[i].msg = m /\ UnderWay(i)')
                   /\ ~ (job[i].msg = m /\ UnderWay(i))
        <4>1. CASE i \in Active
          <5>1. job[i].msg # m
            BY <1>0, <1>2, <2>0, <2>3, <4>1, NoRunCrashed DEF Active
          <5>2. job'[i].pc \in {"free", "stalled"}
            BY <1>0, <2>3, <4>1, CrashedRuns
          <5> QED
            BY <5>1, <5>2 DEF UnderWay, Running, InTry, Leaving
        <4>2. CASE i \notin Active
          BY <1>0, <2>3, <4>2, CrashedRuns DEF UnderWay, Active
        <4> QED
          BY <4>1, <4>2
      <3> QED
        BY <3>1 DEF SameBusy, Busy
    <2>4. CASE Rests
      BY <2>4 DEF Rests, UnderWay, SameBusy, Busy
    <2> QED
      BY <2>1, <2>2, <2>3, <2>4
  <1> QED
    BY <1>0, <1>1, <1>2, LDisturb

LEMMA NextFollows ==
    ASSUME CInv, CInv', SendingInv, SendingInv', [Next]_vars
    PROVE  LStep
  <1>0. IInv /\ IInv' /\ message \in [Message -> Status \cup {"ABSENT"}]
    BY DEF CInv, IInv, OthersOK, RowsOK
  <1>1. ASSUME NEW j \in JobId, StepOfAKind(j)
        PROVE  LStep
    <2>1. ~ At(j, "free") /\ job[j].msg \in Message
      <3>1. ~ At(j, "free")
        BY <1>1 DEF StepOfAKind, Moves, HandsOver, Sends, Writes, Tells, Ends,
           Leaving
      <3> QED
        BY <1>0, <3>1, FitFacts DEF IInv
    <2>2. CASE cuts'[job[j].msg] = 0
      BY <1>1, <2>1, <2>2, RunFollows
    <2>3. CASE cuts'[job[j].msg] # 0
      <3>1. ASSUME NEW m \in Message, cuts'[m] = 0
            PROVE  message'[m] = message[m] /\ SameBusy(m)
        <4>1. m # job[j].msg
          BY <2>3, <3>1
        <4> QED
          BY <1>0, <1>1, <2>1, <4>1, BusyOfOthers, OtherMessages DEF SameFor
      <3> QED
        BY <1>0, <3>1, LDisturb
    <2> QED
      BY <2>2, <2>3
  <1> QED
    BY <1>0, <1>1, NextKinds, RequestFollows, CutFollows DEF AnyKind

\* The queue with its retries, fallbacks, crashes and cancellations implements
\* the lifecycle a project may rely on: whatever step it takes, the status of a
\* message takes a step of MessageLifecycle or none.
THEOREM LifecycleImplemented == Spec => ImplementsLifecycle
  <1>1. Init => Lifecycle!LInit
    <2> SUFFICES ASSUME Init PROVE Lifecycle!LInit
      OBVIOUS
    <2>1. \A i \in JobId : job[i].pc = "free"
      BY FreePc DEF Init
    <2>2. Busy = {}
      BY <2>1 DEF Busy, UnderWay, Running, InTry, Leaving
    <2>3. Disturbed = {}
      BY DEF Init, Disturbed
    <2> QED
      BY <2>2, <2>3 DEF Init, Lifecycle!LInit
  <1>2. Init => CInv /\ SendingInv
    BY InitIInv, InitCourse DEF CInv, SendingInv, Init
  <1>3. (CInv /\ SendingInv) /\ [Next]_vars => (CInv /\ SendingInv)'
    BY NextIInv, NextLostCut, NextCourse, NextSending DEF CInv
  <1>4. /\ CInv /\ SendingInv /\ (CInv /\ SendingInv)'
        /\ [Next]_vars
        => [Lifecycle!LNext]_(Lifecycle!lvars)
    BY NextFollows DEF LStep, Lifecycle!lvars
  <1> QED
    BY <1>1, <1>2, <1>3, <1>4, PTL DEF Spec, ImplementsLifecycle, Lifecycle!LSpec

-----------------------------------------------------------------------------
(* OptOutSettles.                                                            *)

\* An opt-out counts for every run that has not passed the check, at any moment
\* and whatever becomes of the job (isSuppressed in processOutbound).
THEOREM OptOutRespected == Spec => OptOutSettles
  <1> DEFINE Settles(m) ==
          /\ To[m] \in suppressed
          /\ \A j \in JobId : job[j].msg = m => ~ PastGate(j)
          => /\ accepted'[m] = accepted[m]
             /\ \A j \in JobId : job'[j].msg = m => ~ PastGate(j)'
  <1>1. IInv /\ [Next]_vars => \A m \in Message : Settles(m)
    <2> SUFFICES ASSUME IInv, [Next]_vars, NEW m \in Message,
                        To[m] \in suppressed,
                        \A i \in JobId : job[i].msg = m => ~ PastGate(i)
                 PROVE  /\ accepted'[m] = accepted[m]
                        /\ \A i \in JobId : job'[i].msg = m => ~ PastGate(i)'
      OBVIOUS
    <2>0. JobsFit /\ TallyOK
      BY DEF IInv, OthersOK
    <2> USE DEF PastGate
    <2>1. ASSUME NEW j \in JobId, StepOfAKind(j)
          PROVE  /\ accepted'[m] = accepted[m]
                 /\ \A i \in JobId : job'[i].msg = m => ~ PastGate(i)'
      <3>1. accepted'[m] = accepted[m]
        BY <2>0, <2>1 DEF StepOfAKind, Moves, HandsOver, Sends, Writes, Tells, Ends,
           tolds, TallyOK
      <3>2. job'[j].msg = m => ~ PastGate(j)'
        BY <2>1 DEF StepOfAKind, Moves, HandsOver, Sends, Writes, Tells, Ends,
           GoesTo,
           ToOf, Leaving
      <3>3. \A i \in JobId \ {j} : job'[i].msg = m => ~ PastGate(i)'
        BY <2>1 DEF StepOfAKind, Moves, HandsOver, Sends, Writes, Tells, Ends,
           Alone,
           Successor
      <3> QED
        BY <3>1, <3>2, <3>3
    <2>2. ASSUME NEW j \in JobId, Throws(j) \/ Stalls(j) \/ Requeues(j) \/ Drops(j)
          PROVE  /\ accepted'[m] = accepted[m]
                 /\ \A i \in JobId : job'[i].msg = m => ~ PastGate(i)'
      BY <2>2 DEF Throws, Stalls, Replaces, Requeues, Drops, Alone, GoesTo, tolds
    <2>3. ASSUME NEW x \in Message,
                 Posts(x) \/ Enqueues(x) \/ Loses(x) \/ Cancels(x)
          PROVE  /\ accepted'[m] = accepted[m]
                 /\ \A i \in JobId : job'[i].msg = m => ~ PastGate(i)'
      BY <2>3 DEF Posts, Enqueues, Loses, Cancels, Alone, tolds
    <2>4. CASE Crash
      <3>1. accepted'[m] = accepted[m]
        BY <2>4 DEF Crash
      <3>2. ASSUME NEW i \in JobId, job'[i].msg = m
            PROVE  ~ PastGate(i)'
        BY <2>0, <2>4, <3>2, CrashedRuns
      <3> QED
        BY <3>1, <3>2
    <2>5. CASE Rests
      BY <2>5 DEF Rests, tolds
    <2> QED
      BY <2>1, <2>2, <2>3, <2>4, <2>5, NextKinds DEF AnyKind
  <1>2. IInv /\ [Next]_vars
        => [\A m \in Message :
              /\ To[m] \in suppressed
              /\ \A j \in JobId : job[j].msg = m => ~PastGate(j)
              => /\ accepted'[m] = accepted[m]
                 /\ \A j \in JobId : job'[j].msg = m => ~PastGate(j)']_vars
    BY <1>1
  <1> QED
    BY <1>2, Invariance, PTL DEF Spec, OptOutSettles

-----------------------------------------------------------------------------
(* LimitOvershootBounded.                                                    *)

\* Runs and panel requests that have passed the limit of an account and may
\* still be counted against it.
Load(a) ==
    {j \in JobId : job[j].acct = a
        /\ job[j].pc \in {"lock", "pace", "mark", "send", "record", "count"}}

ChatLoad(a) == {o \in Operator : chat[o].pc # "idle" /\ chat[o].acct = a}

Demand(a) == sent[a] + Cardinality(Load(a)) + Cardinality(ChatLoad(a))

Served(a) ==
    /\ Demand(a) < Limit[a] + Concurrency + Cardinality(Operator)
    /\ Load(a) # {} \/ ChatLoad(a) # {} => Limit[a] > 0

LoadInv ==
    /\ Cardinality(Active) =< Concurrency
    /\ \A a \in Account : Served(a)

LEMMA LoadSizes ==
    ASSUME OthersOK, NEW a \in Account
    PROVE  /\ IsFiniteSet(Load(a)) /\ IsFiniteSet(ChatLoad(a))
           /\ IsFiniteSet(Active)
           /\ Cardinality(Load(a)) \in Nat /\ Cardinality(ChatLoad(a)) \in Nat
           /\ Cardinality(Active) \in Nat
           /\ Cardinality(Operator) \in Nat
           /\ Cardinality(Load(a)) =< Cardinality(Active)
           /\ Cardinality(ChatLoad(a)) =< Cardinality(Operator)
           /\ sent[a] \in Nat /\ Limit[a] \in Nat /\ Concurrency \in Nat \ {0}
  <1>1. Active \in SUBSET JobId /\ ChatLoad(a) \in SUBSET Operator
    BY DEF Active, ChatLoad
  <1>2. Load(a) \in SUBSET Active
    BY DEF Load, Active, Running, InTry
  <1>3. sent[a] \in Nat /\ Limit[a] \in Nat /\ Concurrency \in Nat \ {0}
    BY OutboundAssumption DEF OthersOK, RedisOK
  <1>4. IsFiniteSet(Active)
    BY <1>1, SizeOfPart, OutboundAssumption
  <1> QED
    BY <1>1, <1>2, <1>3, <1>4, SizeOfPart, OutboundAssumption

\* The account's counter and the panel are touched by few.
LEMMA StepSent ==
    ASSUME NEW j \in JobId, Step(j)
    PROVE  UNCHANGED chat /\ (~ At(j, "count") => UNCHANGED sent)
  BY DEF Step, Failing, Start, ReadMessage, Gate, SelectAccount, NoAccount,
     SessionMissing, AcquireAccountLock, LockBusy, Pace, MarkSending, Send, Record,
     Count, Ack, Notify, Reject, FailMessage, RetrySameAccount,
     FallbackOtherAccount, BackToQueued, Report, ReleaseAccountLock, Complete,
     Fail, redis

\* The worker never runs more than Concurrency jobs.
LEMMA NextActive ==
    ASSUME IInv, [Next]_vars, Cardinality(Active) =< Concurrency
    PROVE  Cardinality(Active') =< Concurrency
  <1>0. JobsFit /\ IsFiniteSet(Active) /\ Concurrency \in Nat
    BY SizeOfPart, OutboundAssumption DEF IInv, Active
  <1>1. CASE Active' \in SUBSET Active
    BY <1>0, <1>1, SizeOfPart
  <1>2. CASE \E j \in JobId : Moves(j) /\ At(j, "waiting")
    <2>1. PICK j \in JobId : Moves(j) /\ At(j, "waiting")
      BY <1>2
    <2>2. Cardinality(Active) < Concurrency
      BY <2>1 DEF Moves, Leaving
    <2>3. Active' \in SUBSET (Active \cup {j})
      BY <2>1 DEF Moves, Alone, Active
    <2> QED
      BY <1>0, <2>2, <2>3, SizeWithOne
  <1>3. CASE ~ \E j \in JobId : Moves(j) /\ At(j, "waiting")
    <2>1. ASSUME NEW i \in Active' PROVE i \in Active
      <3>0. i \in JobId /\ job'[i].pc \in Running
        BY DEF Active
      <3>1. ASSUME NEW j \in JobId, StepOfAKind(j)
            PROVE  job[i].pc \in Running
        BY <1>3, <3>0, <3>1 DEF StepOfAKind, Moves, HandsOver, Sends, Writes, Tells,
           Ends, Alone, Successor, GoesTo, Running, InTry, Leaving
      <3>2. ASSUME NEW j \in JobId,
                   Throws(j) \/ Stalls(j) \/ Requeues(j) \/ Drops(j)
            PROVE  job[i].pc \in Running
        BY <3>0, <3>2 DEF Throws, Stalls, Replaces, Requeues, Drops, Alone, GoesTo,
           Running, InTry, Leaving
      <3>3. ASSUME NEW x \in Message,
                   Posts(x) \/ Enqueues(x) \/ Loses(x) \/ Cancels(x)
            PROVE  job[i].pc \in Running
        BY <3>0, <3>3 DEF Posts, Enqueues, Loses, Cancels, Alone, Running, InTry,
           Leaving
      <3>4. CASE Crash
        BY <1>0, <3>0, <3>4, CrashedRuns DEF Active, Running, InTry, Leaving
      <3>5. CASE Rests
        BY <3>0, <3>5 DEF Rests, Active
      <3> QED
        BY <3>0, <3>1, <3>2, <3>3, <3>4, <3>5, NextKinds DEF AnyKind, Active
    <2> QED
      BY <1>1, <2>1
  <1> QED
    BY <1>2, <1>3

\* A step that lets nobody new past the limit of the account.
LEMMA ServedKept ==
    ASSUME OthersOK, OthersOK', NEW a \in Account, Served(a), sent'[a] = sent[a],
           Load(a)' \in SUBSET Load(a), ChatLoad(a)' \in SUBSET ChatLoad(a)
    PROVE  Served(a)'
  <1>1. /\ Cardinality(Load(a)') =< Cardinality(Load(a))
        /\ Cardinality(ChatLoad(a)') =< Cardinality(ChatLoad(a))
        /\ Cardinality(Load(a)') \in Nat /\ Cardinality(ChatLoad(a)') \in Nat
    BY LoadSizes, SizeOfPart
  <1>2. Load(a)' # {} \/ ChatLoad(a)' # {} => Limit[a] > 0
    BY DEF Served
  <1> QED
    BY <1>1, <1>2, LoadSizes DEF Served, Demand

\* Somebody is let past a limit that is not reached.
LEMMA ServedMore ==
    ASSUME OthersOK, OthersOK', NEW a \in Account, sent'[a] = sent[a],
           sent[a] < Limit[a], Cardinality(Active') =< Concurrency
    PROVE  Served(a)'
  <1>1. /\ Cardinality(Load(a)') \in Nat /\ Cardinality(ChatLoad(a)') \in Nat
        /\ Cardinality(Load(a)') =< Concurrency
        /\ Cardinality(ChatLoad(a)') =< Cardinality(Operator)
    <2>1. Load(a)' \in SUBSET Active' /\ IsFiniteSet(Active')
      BY SizeOfPart, OutboundAssumption DEF Load, Active, Running, InTry
    <2>2. ChatLoad(a)' \in SUBSET Operator
      BY DEF ChatLoad
    <2> QED
      BY <2>1, <2>2, SizeOfPart, OutboundAssumption
  <1> QED
    BY <1>1, LoadSizes DEF Served, Demand

LEMMA StepServed ==
    ASSUME IInv, IInv', [Next]_vars, LoadInv, NEW j \in JobId, Step(j),
           NEW a \in Account
    PROVE  Served(a)'
  <1>0. /\ JobsFit /\ OthersOK /\ OthersOK' /\ TallyOK
        /\ sent \in [Account -> Nat] /\ Served(a)
    BY DEF IInv, OthersOK, RedisOK, LoadInv
  <1>1. StepOfAKind(j) /\ UNCHANGED chat /\ (~ At(j, "count") => UNCHANGED sent)
    BY <1>0, Kinds, StepSent
  <1>2. ChatLoad(a)' \in SUBSET ChatLoad(a)
    BY <1>1 DEF ChatLoad
  <1>3. ASSUME NEW i \in JobId \ {j} PROVE i \in Load(a)' => i \in Load(a)
    BY <1>1, <1>3 DEF StepOfAKind, Moves, HandsOver, Sends, Writes, Tells, Ends,
       Alone, Successor, Load
  <1>4. CASE At(j, "count")
    <2>1. /\ Moves(j) /\ GoesTo(j, "ack")
          /\ sent' = [sent EXCEPT ![job[j].acct] = @ + 1]
      BY <1>1, <1>4 DEF StepOfAKind, Moves, HandsOver, Sends, Writes, Tells, Ends,
         Leaving
    <2>2. Load(a)' \in SUBSET (Load(a) \ {j})
      BY <1>3, <2>1 DEF GoesTo, Load
    <2>3. CASE job[j].acct # a
      <3>1. sent'[a] = sent[a]
        BY <1>0, <2>1, <2>3
      <3> QED
        BY <1>0, <1>2, <2>2, <3>1, ServedKept
    <2>4. CASE job[j].acct = a
      <3>1. sent'[a] = sent[a] + 1
        BY <1>0, <2>1, <2>4
      <3>2. j \in Load(a)
        BY <1>4, <2>4 DEF Load
      <3>3. /\ Cardinality(Load(a)') + 1 =< Cardinality(Load(a))
            /\ Cardinality(Load(a)') \in Nat
        BY <1>0, <2>2, <3>2, LoadSizes, SizeLessOne
      <3>4. /\ Cardinality(ChatLoad(a)') =< Cardinality(ChatLoad(a))
            /\ Cardinality(ChatLoad(a)') \in Nat
        BY <1>0, <1>2, LoadSizes, SizeOfPart
      <3>5. Limit[a] > 0
        BY <1>0, <3>2 DEF Served
      <3> QED
        BY <1>0, <3>1, <3>3, <3>4, <3>5, LoadSizes DEF Served, Demand
    <2> QED
      BY <2>3, <2>4
  <1>5. CASE ~ At(j, "count") /\ j \in Load(a)' /\ j \notin Load(a)
    <2>1. At(j, "select") /\ job'[j].acct \in Eligible(j)
      BY <1>1, <1>5 DEF StepOfAKind, Moves, HandsOver, Sends, Writes, Tells, Ends,
         GoesTo, Load, Leaving
    <2>2. job'[j].acct = a /\ sent[a] < Limit[a] /\ sent'[a] = sent[a]
      BY <1>1, <1>5, <2>1 DEF Load, Eligible
    <2>3. Cardinality(Active') =< Concurrency
      BY NextActive DEF LoadInv
    <2> QED
      BY <1>0, <2>2, <2>3, ServedMore
  <1>6. CASE ~ At(j, "count") /\ ~ (j \in Load(a)' /\ j \notin Load(a))
    <2>1. Load(a)' \in SUBSET Load(a)
      BY <1>3, <1>6 DEF Load
    <2> QED
      BY <1>0, <1>1, <1>2, <1>6, <2>1, ServedKept
  <1> QED
    BY <1>4, <1>5, <1>6

LEMMA InterruptionServed ==
    ASSUME IInv, IInv', LoadInv, Interruption, NEW a \in Account
    PROVE  Served(a)'
  <1>0. JobsFit /\ OthersOK /\ OthersOK' /\ Served(a)
    BY DEF IInv, LoadInv
  <1>1. UNCHANGED sent
    BY DEF Interruption, Crash, Throw, Stall, RecoverStalled, RetryFailed,
       DropFailed,
       redis
  <1>2. ChatLoad(a)' \in SUBSET ChatLoad(a)
    BY DEF Interruption, Crash, Throw, Stall, RecoverStalled, RetryFailed,
       DropFailed,
       ChatLoad
  <1>3. ASSUME NEW i \in Load(a)' PROVE i \in Load(a)
    <2>0. i \in JobId
      BY DEF Load
    <2>1. ASSUME NEW j \in JobId, Throws(j) \/ Stalls(j) \/ Requeues(j) \/ Drops(j)
          PROVE  i \in Load(a)
      BY <2>0, <2>1 DEF Throws, Stalls, Replaces, Requeues, Drops, Alone, GoesTo,
         Load
    <2>2. CASE Crash
      <3>1. i \notin Active
        BY <1>0, <2>0, <2>2, CrashedRuns DEF Load
      <3> QED
        BY <1>0, <2>0, <2>2, <3>1, CrashedRuns DEF Load
    <2> QED
      BY <1>0, <2>1, <2>2, InterruptionKinds
  <1> QED
    BY <1>0, <1>1, <1>2, <1>3, ServedKept

LEMMA RequestServed ==
    ASSUME IInv, IInv', [Next]_vars, LoadInv, Request, NEW a \in Account
    PROVE  Served(a)'
  <1>0. /\ JobsFit /\ OthersOK /\ OthersOK' /\ Served(a)
        /\ sent \in [Account -> Nat]
        /\ chat \in [Operator -> [pc   : {"idle", "send", "count"},
                                  acct : Account \cup {None}]]
    BY DEF IInv, OthersOK, RedisOK, RequestsOK, LoadInv
  <1>1. Load(a)' \in SUBSET Load(a)
    <2>1. CASE Rests
      BY <2>1 DEF Rests, Load
    <2>2. CASE \E m \in Message : Posts(m) \/ Enqueues(m) \/ Loses(m) \/ Cancels(m)
      BY <2>2 DEF Posts, Enqueues, Loses, Cancels, Alone, Load
    <2> QED
      BY <1>0, <2>1, <2>2, RequestKinds
  <1>2. ASSUME NEW m \in Message, \/ Post(m) \/ Enqueue(m) \/ LoseIntake(m)
                                  \/ CancelRead(m) \/ CancelWrite(m)
        PROVE  Served(a)'
    <2>1. UNCHANGED <<sent, chat>>
      BY <1>2 DEF Post, Enqueue, LoseIntake, CancelRead, CancelWrite, redis
    <2>2. ChatLoad(a)' \in SUBSET ChatLoad(a)
      BY <2>1 DEF ChatLoad
    <2> QED
      BY <1>0, <1>1, <2>1, <2>2, ServedKept
  <1>3. ASSUME NEW o \in Operator, ChatOutcome(o)
        PROVE  Served(a)'
    <2>1. UNCHANGED sent
      BY <1>3 DEF ChatOutcome, redis
    <2>2. ChatLoad(a)' \in SUBSET ChatLoad(a)
      <3>1. \A p \in Operator \ {o} : chat'[p] = chat[p]
        BY <1>0, <1>3 DEF ChatOutcome
      <3>2. chat'[o].pc = "idle" \/ (chat'[o].acct = chat[o].acct
                                       /\ chat[o].pc = "send")
        BY <1>0, <1>3 DEF ChatOutcome
      <3> QED
        BY <3>1, <3>2 DEF ChatLoad
    <2> QED
      BY <1>0, <1>1, <2>1, <2>2, ServedKept
  <1>4. ASSUME NEW o \in Operator, ChatCount(o)
        PROVE  Served(a)'
    <2>1. ChatLoad(a)' \in SUBSET (ChatLoad(a) \ {o})
      <3>1. \A p \in Operator \ {o} : chat'[p] = chat[p]
        BY <1>0, <1>4 DEF ChatCount
      <3>2. chat'[o].pc = "idle"
        BY <1>0, <1>4 DEF ChatCount
      <3> QED
        BY <3>1, <3>2 DEF ChatLoad
    <2>2. CASE chat[o].acct # a
      <3>1. sent'[a] = sent[a]
        BY <1>0, <1>4, <2>2 DEF ChatCount
      <3> QED
        BY <1>0, <1>1, <2>1, <3>1, ServedKept
    <2>3. CASE chat[o].acct = a
      <3>1. sent'[a] = sent[a] + 1
        BY <1>0, <1>4, <2>3 DEF ChatCount
      <3>2. o \in ChatLoad(a)
        BY <1>4, <2>3 DEF ChatCount, ChatLoad
      <3>3. /\ Cardinality(ChatLoad(a)') + 1 =< Cardinality(ChatLoad(a))
            /\ Cardinality(ChatLoad(a)') \in Nat
        BY <1>0, <2>1, <3>2, LoadSizes, SizeLessOne
      <3>4. /\ Cardinality(Load(a)') =< Cardinality(Load(a))
            /\ Cardinality(Load(a)') \in Nat
        BY <1>0, <1>1, LoadSizes, SizeOfPart
      <3>5. Limit[a] > 0
        BY <1>0, <3>2 DEF Served
      <3> QED
        BY <1>0, <3>1, <3>3, <3>4, <3>5, LoadSizes DEF Served, Demand
    <2> QED
      BY <2>2, <2>3
  <1>5. ASSUME NEW o \in Operator, NEW b \in Account, ChatSend(o, b)
        PROVE  Served(a)'
    <2>1. UNCHANGED sent
      BY <1>5 DEF ChatSend, redis
    <2>2. CASE a = b
      <3>1. sent[a] < Limit[a]
        BY <1>5, <2>2 DEF ChatSend
      <3>2. Cardinality(Active') =< Concurrency
        BY NextActive DEF LoadInv
      <3> QED
        BY <1>0, <2>1, <3>1, <3>2, ServedMore
    <2>3. CASE a # b
      <3>1. ChatLoad(a)' \in SUBSET ChatLoad(a)
        BY <1>0, <1>5, <2>3 DEF ChatSend, ChatLoad
      <3> QED
        BY <1>0, <1>1, <2>1, <3>1, ServedKept
    <2> QED
      BY <2>2, <2>3
  <1> QED
    BY <1>2, <1>3, <1>4, <1>5 DEF Request

LEMMA EnvironmentServed ==
    ASSUME IInv, IInv', LoadInv, Environment \/ UNCHANGED vars, NEW a \in Account
    PROVE  Served(a)'
  <1>0. JobsFit /\ OthersOK /\ OthersOK' /\ Served(a) /\ sent \in [Account -> Nat]
    BY DEF IInv, LoadInv, OthersOK, RedisOK
  <1>1. Rests
    BY <1>0, EnvironmentKinds
  <1>2. Load(a)' = Load(a)
    BY <1>1 DEF Rests, Load
  <1>3. UNCHANGED chat
    BY DEF Environment, PauseOrResume, TurnHour, EndCooldown, NewWindow, ChangeLine,
       ForgetExistence, OptOut, OptIn, Age, ExpireLock, vars
  <1>4. ChatLoad(a)' = ChatLoad(a)
    BY <1>3 DEF ChatLoad
  <1>5. CASE sent'[a] = sent[a]
    BY <1>0, <1>2, <1>4, <1>5, ServedKept
  <1>6. CASE sent'[a] # sent[a]
    <2>1. sent'[a] = 0
      BY <1>0, <1>6 DEF Environment, PauseOrResume, TurnHour, EndCooldown,
         NewWindow,
         ChangeLine, ForgetExistence, OptOut, OptIn, Age, ExpireLock, vars, redis
    <2>2. Cardinality(Active) =< Concurrency
      BY DEF LoadInv
    <2>3. CASE Load(a) = {} /\ ChatLoad(a) = {}
      <3>1. Cardinality({}) = 0
        BY FS_EmptySet
      <3> QED
        BY <1>0, <1>2, <1>4, <2>1, <2>3, <3>1, LoadSizes DEF Served, Demand
    <2>4. CASE Load(a) # {} \/ ChatLoad(a) # {}
      <3>1. Limit[a] > 0
        BY <1>0, <2>4 DEF Served
      <3> QED
        BY <1>0, <1>2, <1>4, <2>1, <2>2, <3>1, LoadSizes DEF Served, Demand
    <2> QED
      BY <2>3, <2>4
  <1> QED
    BY <1>5, <1>6

\* The limit of an account is exceeded by less than the jobs and the panel
\* requests that can be under way together, however they are interleaved with
\* the counting and with new windows (isEligible reads the counters before the
\* lock is taken; incrCounters comes after the send).
THEOREM OvershootBounded == Spec => []LimitOvershootBounded
  <1>1. Init => LoadInv
    <2> SUFFICES ASSUME Init PROVE LoadInv
      OBVIOUS
    <2>1. \A i \in JobId : job[i].pc = "free"
      BY FreePc DEF Init
    <2>2. /\ Active = {}
          /\ \A a \in Account : Load(a) = {} /\ ChatLoad(a) = {} /\ sent[a] = 0
      BY <2>1 DEF Init, Active, Load, ChatLoad, Running, InTry, Leaving
    <2>3. Cardinality({}) = 0 /\ Cardinality(Operator) \in Nat
      BY FS_EmptySet, SizeOfPart, OutboundAssumption
    <2>4. Concurrency \in Nat \ {0} /\ \A a \in Account : Limit[a] \in Nat
      BY OutboundAssumption
    <2> QED
      BY <2>2, <2>3, <2>4 DEF LoadInv, Served, Demand
  <1>2. IInv /\ IInv' /\ LoadInv /\ [Next]_vars => LoadInv'
    <2> SUFFICES ASSUME IInv, IInv', LoadInv, [Next]_vars
                 PROVE  LoadInv'
      OBVIOUS
    <2>1. Cardinality(Active') =< Concurrency
      BY NextActive DEF LoadInv
    <2>2. \A a \in Account : Served(a)'
      BY StepServed, InterruptionServed, RequestServed, EnvironmentServed DEF Next
    <2> QED
      BY <2>1, <2>2 DEF LoadInv
  <1>3. IInv /\ LoadInv => LimitOvershootBounded
    <2> SUFFICES ASSUME IInv, LoadInv, NEW a \in Account
                 PROVE  sent[a] < Limit[a] + Concurrency + Cardinality(Operator)
      BY DEF LimitOvershootBounded
    <2>1. OthersOK /\ Served(a)
      BY DEF IInv, LoadInv
    <2> QED
      BY <2>1, LoadSizes DEF Served, Demand
  <1>4. (IInv /\ LoadInv) /\ [Next]_vars => (IInv /\ LoadInv)'
    BY <1>2, NextIInv
  <1>5. Init => IInv /\ LoadInv
    BY <1>1, InitIInv
  <1> QED
    BY <1>3, <1>4, <1>5, PTL DEF Spec

=============================================================================
