---------------------------- MODULE WebhookProofs ---------------------------
(***************************************************************************)
(* Theorems about the delivery of webhooks, for any number of deliveries,  *)
(* jobs and attempts.                                                      *)
(***************************************************************************)
EXTENDS WebhookProperties, FiniteSetTheorems, TLAPS

-----------------------------------------------------------------------------
(* Types. *)

\* A job that exists carries a delivery.
Loaded == \A j \in JobId : job[j].pc # "free" => job[j].delivery \in Delivery

TypeInv == TypeOK /\ Loaded

LEMMA NewJobTypes ==
    ASSUME NEW d \in Delivery, NEW n \in Nat
    PROVE  /\ NewJob(d, n) \in Job
           /\ NewJob(d, n).pc = "waiting"
           /\ NewJob(d, n).delivery = d
           /\ NewJob(d, n).made = n
           /\ NewJob(d, n).slot = "own"
  BY DEF NewJob, Job

LEMMA FreeJobTypes == FreeJob \in Job /\ FreeJob.pc = "free"
  BY DEF FreeJob, NewJob, Job, Running

\* What the rest of a job is after it moves on.
LEMMA MoveOn ==
    ASSUME TypeInv, NEW j \in JobId, NEW p \in Running, job[j].pc # "free",
           Goto(j, p)
    PROVE  /\ job' \in [JobId -> Job]
           /\ Loaded'
           /\ job' = [job EXCEPT ![j] = [@ EXCEPT !.pc = p]]
  <1>1. job[j] \in Job
    BY DEF TypeInv, TypeOK
  <1>2. [job[j] EXCEPT !.pc = p] \in Job
    BY <1>1 DEF Job
  <1>3. job' = [job EXCEPT ![j] = [@ EXCEPT !.pc = p]]
    BY DEF Goto
  <1>4. [job[j] EXCEPT !.pc = p].delivery = job[j].delivery
    BY <1>1 DEF Job
  <1> QED
    BY <1>2, <1>3, <1>4 DEF TypeInv, TypeOK, Loaded

LEMMA MoveOnWith ==
    ASSUME TypeInv, NEW j \in JobId, NEW p \in Running, job[j].pc # "free",
           NEW r \in Answer \cup {"no"}, GotoWith(j, p, r)
    PROVE  job' \in [JobId -> Job] /\ Loaded'
  <1>1. job[j] \in Job
    BY DEF TypeInv, TypeOK
  <1> DEFINE new == [job[j] EXCEPT !.pc = p, !.result = r]
  <1>2. new \in Job /\ new.delivery = job[j].delivery
    BY <1>1 DEF Job
  <1> HIDE DEF new
  <1>3. job' = [job EXCEPT ![j] = new]
    BY DEF GotoWith, new
  <1> QED
    BY <1>2, <1>3 DEF TypeInv, TypeOK, Loaded

LEMMA StepTypes ==
    ASSUME TypeInv, NEW j \in JobId, Step(j)
    PROVE  TypeInv'
  <1> USE DEF TypeInv, At, Heard, store, history
  <1>0. job[j] \in Job /\ (job[j].pc # "free" => job[j].delivery \in Delivery)
    BY DEF TypeOK, Loaded
  <1>1. CASE Start(j)
    BY <1>1, MoveOn DEF Start, TypeOK, Running
  <1>2. CASE Load(j)
    <2>1. job' \in [JobId -> Job] /\ Loaded'
      BY <1>2, MoveOn, MoveOnWith DEF Load, Running
    <2> QED
      BY <1>2, <2>1 DEF Load, TypeOK
  <1>3. CASE Resolve(j)
    <2>1. job' \in [JobId -> Job] /\ Loaded'
      BY <1>3, MoveOn, MoveOnWith DEF Resolve, Running, Answer
    <2> QED
      BY <1>3, <2>1 DEF Resolve, TypeOK
  <1>4. CASE Post(j)
    <2>1. job' \in [JobId -> Job] /\ Loaded'
      BY <1>4, MoveOnWith DEF Post, Running
    <2>2. \A a : Meaning(a) \in {"taken", "refused", "again"}
      BY DEF Meaning
    <2>3. PICK a \in Answer : Heard(job[j].delivery, Meaning(a))
      BY <1>4 DEF Post
    <2>4. answer' \in [Delivery -> {"none", "taken", "refused", "again"}]
      BY <2>2, <2>3 DEF TypeOK
    <2> QED
      BY <1>4, <2>1, <2>4 DEF Post, TypeOK
  <1>5. CASE MarkDelivered(j)
    BY <1>0, <1>5, MoveOn DEF MarkDelivered, TypeOK, Running, Job
  <1>6. CASE MarkFailed(j)
    BY <1>6, MoveOn DEF MarkFailed, FailureDue, TypeOK, Running
  <1>7. CASE ScheduleRetry(j)
    BY <1>0, <1>7, MoveOn DEF ScheduleRetry, RetryDue, TypeOK, Running, Job
  <1>8. CASE Requeue(j)
    <2>1. PICK k \in JobId :
             /\ job[k].pc = "free"
             /\ job' = [job EXCEPT ![j].pc = "exit",
                                   ![k] = NewJob(job[j].delivery, job[j].made + 1)]
      BY <1>8 DEF Requeue
    <2> DEFINE new == NewJob(job[j].delivery, job[j].made + 1)
    <2>2. new \in Job /\ new.delivery \in Delivery
      BY <1>0, <1>8, NewJobTypes DEF Requeue, Job
    <2> HIDE DEF new
    <2>3. /\ [job[j] EXCEPT !.pc = "exit"] \in Job
          /\ [job[j] EXCEPT !.pc = "exit"].delivery \in Delivery
      BY <1>0, <1>8 DEF Requeue, Job, Running
    <2>4. \A i \in JobId : job'[i] = IF i = k THEN new
                                     ELSE IF i = j THEN [job[j] EXCEPT !.pc = "exit"]
                                     ELSE job[i]
      BY <2>1 DEF new, TypeOK
    <2>5. job' \in [JobId -> Job] /\ Loaded'
      BY <2>1, <2>2, <2>3, <2>4 DEF TypeOK, Loaded
    <2> QED
      BY <1>8, <2>5 DEF Requeue, TypeOK
  <1>9. CASE Complete(j)
    BY <1>9, FreeJobTypes DEF Complete, TypeOK, Loaded
  <1>10. CASE Fail(j)
    BY <1>0, <1>10, FreeJobTypes DEF Fail, TypeOK, Loaded
  <1> QED
    BY <1>1, <1>2, <1>3, <1>4, <1>5, <1>6, <1>7, <1>8, <1>9, <1>10 DEF Step

\* What takes the place of an interrupted run.
LEMMA SuccessorTypes ==
    ASSUME NEW r \in Job, r.delivery \in Delivery
    PROVE  /\ AfterStall(r) \in Job
           /\ AfterStall(r).pc # "free" => AfterStall(r).delivery = r.delivery
           /\ AfterStall(r).pc \in {"free", "waiting"}
           /\ AfterStall(r).pc = "waiting" => AfterStall(r).slot = "own"
           /\ CutTwice(r) \/ AfterStall(r).pc = "waiting"
           /\ Losing(r) \subseteq {r.delivery}
           /\ AfterCrash(r) \in Job
           /\ AfterCrash(r).pc # "free" => AfterCrash(r).delivery = r.delivery
           /\ r.slot = "own" => /\ AfterCrash(r).pc = "stalled"
                                /\ AfterCrash(r).slot = "own"
           /\ r.slot # "own" => AfterCrash(r).pc = "free"
  BY DEF AfterStall, AfterCrash, Losing, NewJob, FreeJob, Job, Running

LEMMA OtherTypes ==
    ASSUME TypeInv, [Next]_vars, \A j \in JobId : ~Step(j)
    PROVE  TypeInv'
  <1> USE DEF TypeInv, At, store, history
  <1>0. \A j \in JobId : /\ job[j] \in Job
                         /\ job[j].pc # "free" => job[j].delivery \in Delivery
    BY DEF TypeOK, Loaded
  <1>1. CASE Crash
    <2>1. \A j \in JobId : job'[j] = IF j \in Active THEN AfterCrash(job[j])
                                     ELSE job[j]
      BY <1>1 DEF Crash
    <2>2. ASSUME NEW j \in JobId, j \in Active
          PROVE  job[j].delivery \in Delivery
      BY <1>0, <2>2 DEF Active, Running
    <2>3. job' \in [JobId -> Job] /\ Loaded'
      <3>1. \A j \in JobId : /\ job'[j] \in Job
                             /\ job'[j].pc # "free" => job'[j].delivery \in Delivery
        BY <1>0, <2>1, <2>2, SuccessorTypes
      <3>2. job' = [j \in JobId |-> job'[j]]
        BY <1>1 DEF Crash
      <3> QED
        BY <3>1, <3>2 DEF Loaded
    <2>4. cuts' \in [Delivery -> Nat]
      <3>1. \A d \in Delivery : Cardinality(Owning(d)) \in Nat
        BY WebhookAssumption, FS_Subset, FS_CardinalityType DEF Owning, Active
      <3> QED
        BY <1>1, <3>1 DEF Crash, TypeOK
    <2> QED
      BY <1>1, <2>3, <2>4 DEF Crash, TypeOK
  <1>2. ASSUME NEW j \in JobId, Throw(j)
        PROVE  TypeInv'
    <2>1. job' \in [JobId -> Job] /\ Loaded'
      BY <1>2, MoveOn DEF Throw, Running
    <2> QED
      BY <1>0, <1>2, <2>1 DEF Throw, TypeOK
  <1>3. ASSUME NEW j \in JobId, Stall(j)
        PROVE  TypeInv'
    <2>1. job[j].delivery \in Delivery
      BY <1>0, <1>3 DEF Stall, Active, Running
    <2>2. PICK k \in JobId :
             /\ job[k].pc = "free"
             /\ job' = [job EXCEPT ![j].slot = "lost", ![k] = AfterStall(job[j])]
      BY <1>3 DEF Stall
    <2>3. /\ [job[j] EXCEPT !.slot = "lost"] \in Job
          /\ [job[j] EXCEPT !.slot = "lost"].delivery \in Delivery
      BY <1>0, <2>1 DEF Job
    <2>4. \A i \in JobId : job'[i] = IF i = k THEN AfterStall(job[j])
                                     ELSE IF i = j THEN [job[j] EXCEPT !.slot = "lost"]
                                     ELSE job[i]
      BY <2>2 DEF TypeOK
    <2>5. job' \in [JobId -> Job] /\ Loaded'
      BY <1>0, <2>1, <2>2, <2>3, <2>4, SuccessorTypes DEF TypeOK, Loaded
    <2>6. abandoned' \subseteq Delivery
      BY <1>0, <1>3, <2>1, SuccessorTypes DEF Stall, TypeOK
    <2> QED
      BY <1>3, <2>1, <2>5, <2>6 DEF Stall, TypeOK
  <1>4. ASSUME NEW j \in JobId, RecoverStalled(j)
        PROVE  TypeInv'
    <2>1. job[j].delivery \in Delivery
      BY <1>0, <1>4 DEF RecoverStalled
    <2>2. job' \in [JobId -> Job] /\ Loaded'
      BY <1>0, <1>4, <2>1, SuccessorTypes DEF RecoverStalled, TypeOK, Loaded
    <2>3. abandoned' \subseteq Delivery
      BY <1>0, <1>4, <2>1, SuccessorTypes DEF RecoverStalled, TypeOK
    <2> QED
      BY <1>4, <2>2, <2>3 DEF RecoverStalled, TypeOK
  <1>5. ASSUME NEW d \in Delivery, Dispatch(d) \/ LoseDispatch(d)
        PROVE  TypeInv'
    BY <1>5 DEF Dispatch, LoseDispatch, TypeOK, Loaded
  <1>6. ASSUME NEW d \in Delivery, EnqueueWebhook(d)
        PROVE  TypeInv'
    <2>1. PICK k \in JobId : job' = [job EXCEPT ![k] = NewJob(d, 0)]
      BY <1>6 DEF EnqueueWebhook
    <2>2. job' \in [JobId -> Job] /\ Loaded'
      BY <2>1, NewJobTypes DEF TypeOK, Loaded
    <2> QED
      BY <1>6, <2>2 DEF EnqueueWebhook, TypeOK
  <1>7. ASSUME NEW h \in {"subscribed", "silent", "removed"}, ChangeHook(h)
        PROVE  TypeInv'
    BY <1>7 DEF ChangeHook, TypeOK, Loaded
  <1>8. CASE UNCHANGED vars
    BY <1>8 DEF vars, TypeOK, Loaded
  <1> QED
    BY <1>1, <1>2, <1>3, <1>4, <1>5, <1>6, <1>7, <1>8 DEF Next

LEMMA Types == Spec => []TypeInv
  <1>1. Init => TypeInv
    BY FreeJobTypes DEF Init, TypeInv, TypeOK, Loaded
  <1>2. TypeInv /\ [Next]_vars => TypeInv'
    BY StepTypes, OtherTypes
  <1> QED
    BY <1>1, <1>2, PTL DEF Spec

\* Every variable keeps its type, and a job that exists carries a delivery.
THEOREM TypeCorrect == Spec => []TypeOK
  BY Types, PTL DEF TypeInv

-----------------------------------------------------------------------------
(* No delivery is left behind. *)

Kept(d) == \E j \in JobId : job[j].delivery = d /\ Responsible(j)

\* A delivery stays kept if each of its responsible jobs stays responsible.
LEMMA StaysKept ==
    ASSUME NEW d, Kept(d),
           \A j \in JobId : job[j].delivery = d /\ Responsible(j)
                => job'[j].delivery = d /\ Responsible(j)'
    PROVE  Kept(d)'
  BY DEF Kept

\* A run that moves on, and not to its end, stays responsible.
LEMMA MovingKeeps ==
    ASSUME TypeInv, NEW j \in JobId, NEW p \in Running \ {"exit"}, NEW d,
           Goto(j, p), Kept(d)
    PROVE  Kept(d)'
  <1>1. \A i \in JobId : /\ job'[i].delivery = job[i].delivery
                         /\ job'[i].slot = job[i].slot
                         /\ job'[i].pc = IF i = j THEN p ELSE job[i].pc
    BY DEF Goto, TypeInv, TypeOK, Job
  <1> QED
    BY <1>1, StaysKept DEF Responsible, Running

LEMMA MovingWithKeeps ==
    ASSUME TypeInv, NEW j \in JobId, NEW p \in Running \ {"exit"}, NEW d, NEW r,
           GotoWith(j, p, r), Kept(d)
    PROVE  Kept(d)'
  <1>1. \A i \in JobId : /\ job'[i].delivery = job[i].delivery
                         /\ job'[i].slot = job[i].slot
                         /\ job'[i].pc = IF i = j THEN p ELSE job[i].pc
    BY DEF GotoWith, TypeInv, TypeOK, Job
  <1> QED
    BY <1>1, StaysKept DEF Responsible, Running

\* A run that ends leaves the other deliveries alone.
LEMMA EndingKeeps ==
    ASSUME TypeInv, NEW j \in JobId, NEW d, d # job[j].delivery, Kept(d),
           Goto(j, "exit")
    PROVE  Kept(d)'
  <1>1. \A i \in JobId \ {j} : job'[i] = job[i]
    BY DEF Goto, TypeInv, TypeOK
  <1> QED
    BY <1>1, StaysKept DEF Responsible

\* No sequence of answers, retries, crashes and stalled jobs leaves a PENDING
\* row without the job that will settle it (process-webhook.ts, scheduleRetry:
\* the next job is added before this one ends).
LEMMA StepStrands ==
    ASSUME TypeInv, NoStrandedDelivery, NEW j \in JobId, Step(j)
    PROVE  NoStrandedDelivery'
  <1> SUFFICES ASSUME NEW d \in Delivery, row'[d] = "PENDING",
                      d \notin dispatching' \cup abandoned'
               PROVE  Kept(d)'
    BY DEF NoStrandedDelivery, Kept
  <1>0. /\ row \in [Delivery -> {"ABSENT", "PENDING", "DELIVERED", "FAILED"}]
        /\ job \in [JobId -> Job]
        /\ job[j].pc # "free" => job[j].delivery \in Delivery
    BY DEF TypeInv, TypeOK, Loaded
  <1>00. /\ row[d] = "PENDING" => Kept(d)
         /\ row[d] = "PENDING"
    <2>1. /\ abandoned \subseteq abandoned'
          /\ dispatching' = dispatching
      BY DEF Step, Start, Load, Resolve, Post, MarkDelivered, MarkFailed,
             ScheduleRetry, Requeue, Complete, Fail
    <2>2. row[d] = "PENDING"
      BY <1>0 DEF Step, Start, Load, Resolve, Post, MarkDelivered, MarkFailed,
             ScheduleRetry, Requeue, Complete, Fail, store
    <2> QED
      BY <2>1, <2>2 DEF NoStrandedDelivery, Kept
  <1>1. CASE Start(j)
    BY <1>00, <1>1, MovingKeeps DEF Start, Running
  <1>2. CASE Load(j)
    <2>1. CASE row[job[j].delivery] = "DELIVERED" /\ Goto(j, "exit")
      BY <1>00, <2>1, EndingKeeps
    <2> QED
      BY <1>00, <1>2, <2>1, MovingKeeps, MovingWithKeeps DEF Load, Running
  <1>3. CASE Resolve(j)
    BY <1>00, <1>3, MovingKeeps, MovingWithKeeps DEF Resolve, Running
  <1>4. CASE Post(j)
    BY <1>00, <1>4, MovingWithKeeps DEF Post, Running
  <1>5. CASE MarkDelivered(j)
    <2>1. job[j].delivery # d
      BY <1>0, <1>5 DEF MarkDelivered
    <2> QED
      BY <1>00, <1>5, <2>1, EndingKeeps DEF MarkDelivered
  <1>6. CASE MarkFailed(j)
    <2>1. job[j].delivery # d
      BY <1>0, <1>6 DEF MarkFailed
    <2> QED
      BY <1>00, <1>6, <2>1, EndingKeeps DEF MarkFailed
  <1>7. CASE ScheduleRetry(j)
    BY <1>00, <1>7, MovingKeeps DEF ScheduleRetry, Running
  <1>8. CASE Requeue(j)
    <2>1. PICK k \in JobId :
             /\ job[k].pc = "free"
             /\ job' = [job EXCEPT ![j].pc = "exit",
                                   ![k] = NewJob(job[j].delivery, job[j].made + 1)]
      BY <1>8 DEF Requeue, At
    <2>2. job[j].delivery \in Delivery /\ job[j].made + 1 \in Nat
      BY <1>0, <1>8 DEF Requeue, At, Job
    <2>3. job'[k] = NewJob(job[j].delivery, job[j].made + 1)
      BY <1>0, <2>1
    <2>4. CASE job[j].delivery = d
      BY <2>2, <2>3, <2>4, NewJobTypes DEF Kept, Responsible
    <2>5. CASE job[j].delivery # d
      <3>1. \A i \in JobId \ {j, k} : job'[i] = job[i]
        BY <1>0, <2>1
      <3>2. ~Responsible(k)
        BY <2>1 DEF Responsible
      <3> QED
        BY <1>00, <2>5, <3>1, <3>2, StaysKept DEF Responsible
    <2> QED
      BY <2>4, <2>5
  <1>9. CASE Complete(j)
    <2>1. \A i \in JobId \ {j} : job'[i] = job[i]
      BY <1>0, <1>9 DEF Complete
    <2>2. ~Responsible(j)
      BY <1>9 DEF Complete, At, Responsible
    <2> QED
      BY <1>00, <2>1, <2>2, StaysKept DEF Responsible
  <1>10. CASE Fail(j)
    <2>1. \A i \in JobId \ {j} : job'[i] = job[i]
      BY <1>0, <1>10 DEF Fail
    <2>2. job[j].delivery = d => ~Responsible(j)
      BY <1>10 DEF Fail, At, Responsible
    <2> QED
      BY <1>00, <2>1, <2>2, StaysKept DEF Responsible
  <1> QED
    BY <1>1, <1>2, <1>3, <1>4, <1>5, <1>6, <1>7, <1>8, <1>9, <1>10 DEF Step

LEMMA OtherStrands ==
    ASSUME TypeInv, NoStrandedDelivery, [Next]_vars, \A j \in JobId : ~Step(j)
    PROVE  NoStrandedDelivery'
  <1> SUFFICES ASSUME NEW d \in Delivery, row'[d] = "PENDING",
                      d \notin dispatching' \cup abandoned'
               PROVE  Kept(d)'
    BY DEF NoStrandedDelivery, Kept
  <1>0. /\ job \in [JobId -> Job]
        /\ row \in [Delivery -> {"ABSENT", "PENDING", "DELIVERED", "FAILED"}]
        /\ \A j \in JobId : job[j].pc # "free" => job[j].delivery \in Delivery
    BY DEF TypeInv, TypeOK, Loaded
  <1>00. row[d] = "PENDING" /\ d \notin dispatching \cup abandoned => Kept(d)
    BY DEF NoStrandedDelivery, Kept
  <1>1. CASE Crash
    <2>1. Kept(d)
      BY <1>00, <1>1 DEF Crash, store
    <2>2. \A j \in JobId : job'[j] = IF j \in Active THEN AfterCrash(job[j])
                                     ELSE job[j]
      BY <1>1 DEF Crash
    <2>3. ASSUME NEW j \in JobId, job[j].delivery = d, Responsible(j)
          PROVE  job'[j].delivery = d /\ Responsible(j)'
      <3>1. CASE j \in Active
        <4>1. /\ AfterCrash(job[j]).delivery = d
              /\ AfterCrash(job[j]).pc = "stalled"
              /\ AfterCrash(job[j]).slot = "own"
          BY <1>0, <2>3, SuccessorTypes DEF Responsible
        <4> QED
          BY <2>2, <3>1, <4>1 DEF Responsible
      <3>2. CASE j \notin Active
        BY <2>2, <2>3, <3>2 DEF Responsible
      <3> QED
        BY <3>1, <3>2
    <2> QED
      BY <2>1, <2>3, StaysKept
  <1>2. ASSUME NEW j \in JobId, Throw(j)
        PROVE  Kept(d)'
    BY <1>00, <1>2, MovingKeeps DEF Throw, Running, store
  <1>3. ASSUME NEW j \in JobId, Stall(j)
        PROVE  Kept(d)'
    <2>1. job[j].delivery \in Delivery /\ job[j] \in Job
      BY <1>0, <1>3 DEF Stall, Active, Running
    <2>2. Kept(d) /\ d \notin abandoned'
      BY <1>00, <1>3 DEF Stall, store
    <2>3. PICK k \in JobId :
             /\ job[k].pc = "free"
             /\ job' = [job EXCEPT ![j].slot = "lost", ![k] = AfterStall(job[j])]
      BY <1>3 DEF Stall, At
    <2>4. /\ \A i \in JobId \ {j, k} : job'[i] = job[i]
          /\ job'[k] = AfterStall(job[j])
      BY <1>0, <2>3
    <2>5. CASE job[j].delivery = d
      <3>1. ~CutTwice(job[j])
        BY <1>3, <2>2, <2>5 DEF Stall, Losing
      <3>2. /\ AfterStall(job[j]).pc = "waiting"
            /\ AfterStall(job[j]).slot = "own"
            /\ AfterStall(job[j]).delivery = d
        BY <2>1, <2>5, <3>1, SuccessorTypes
      <3> QED
        BY <2>4, <3>2 DEF Kept, Responsible
    <2>6. CASE job[j].delivery # d
      <3>1. ~Responsible(k)
        BY <2>3 DEF Responsible
      <3> QED
        BY <2>2, <2>4, <2>6, <3>1, StaysKept DEF Responsible
    <2> QED
      BY <2>5, <2>6
  <1>4. ASSUME NEW j \in JobId, RecoverStalled(j)
        PROVE  Kept(d)'
    <2>1. job[j].delivery \in Delivery /\ job[j] \in Job
      BY <1>0, <1>4 DEF RecoverStalled, At
    <2>2. Kept(d) /\ d \notin abandoned'
      BY <1>00, <1>4 DEF RecoverStalled, store
    <2>3. /\ \A i \in JobId \ {j} : job'[i] = job[i]
          /\ job'[j] = AfterStall(job[j])
      BY <1>0, <1>4 DEF RecoverStalled
    <2>4. job[j].delivery = d => /\ AfterStall(job[j]).pc = "waiting"
                                 /\ AfterStall(job[j]).slot = "own"
                                 /\ AfterStall(job[j]).delivery = d
      <3>1. job[j].delivery = d => ~CutTwice(job[j])
        BY <1>4, <2>2 DEF RecoverStalled, Losing
      <3> QED
        BY <2>1, <3>1, SuccessorTypes
    <2> QED
      BY <2>2, <2>3, <2>4, StaysKept DEF Responsible
  <1>5. ASSUME NEW e \in Delivery, Dispatch(e) \/ LoseDispatch(e)
        PROVE  Kept(d)'
    <2>1. job' = job /\ Kept(d)
      BY <1>0, <1>00, <1>5 DEF Dispatch, LoseDispatch, store
    <2> QED
      BY <2>1 DEF Kept, Responsible
  <1>6. ASSUME NEW e \in Delivery, EnqueueWebhook(e)
        PROVE  Kept(d)'
    <2>1. PICK k \in JobId : /\ job[k].pc = "free"
                             /\ job' = [job EXCEPT ![k] = NewJob(e, 0)]
      BY <1>6 DEF EnqueueWebhook, At
    <2>2. /\ \A i \in JobId \ {k} : job'[i] = job[i]
          /\ job'[k] = NewJob(e, 0)
      BY <1>0, <2>1
    <2>3. CASE d = e
      BY <2>2, <2>3, NewJobTypes DEF Kept, Responsible
    <2>4. CASE d # e
      <3>1. Kept(d) /\ ~Responsible(k)
        BY <1>00, <1>6, <2>1, <2>4 DEF EnqueueWebhook, store, Responsible
      <3> QED
        BY <2>2, <3>1, StaysKept DEF Responsible
    <2> QED
      BY <2>3, <2>4
  <1>7. ASSUME NEW h, ChangeHook(h)
        PROVE  Kept(d)'
    <2>1. job' = job /\ Kept(d)
      BY <1>00, <1>7 DEF ChangeHook, store
    <2> QED
      BY <2>1 DEF Kept, Responsible
  <1>8. CASE UNCHANGED vars
    <2>1. job' = job /\ Kept(d)
      BY <1>00, <1>8 DEF vars, store
    <2> QED
      BY <2>1 DEF Kept, Responsible
  <1> QED
    BY <1>1, <1>2, <1>3, <1>4, <1>5, <1>6, <1>7, <1>8 DEF Next

\* A PENDING delivery always has a job that goes on with it, its dispatch under
\* way, or a recorded loss, for any number of deliveries, jobs and interruptions.
THEOREM NothingStranded == Spec => []NoStrandedDelivery
  <1>1. Init => NoStrandedDelivery
    BY DEF Init, NoStrandedDelivery
  <1>2. TypeInv /\ NoStrandedDelivery /\ [Next]_vars => NoStrandedDelivery'
    BY StepStrands, OtherStrands
  <1> QED
    BY <1>1, <1>2, Types, PTL DEF Spec

-----------------------------------------------------------------------------
(* DELIVERED settles a delivery. *)

Through(d) == \A j \in JobId : job[j].delivery = d => ~PastLoad(j)

\* No step of a delivery whose row is DELIVERED, and whose runs are through,
\* sends anything, takes the row away or gets a run past its load.
LEMMA SettledStep ==
    ASSUME TypeInv, NEW d \in Delivery, NEW j \in JobId, Step(j),
           row[d] = "DELIVERED", Through(d)
    PROVE  posts'[d] = posts[d] /\ row'[d] = "DELIVERED" /\ Through(d)'
  <1>0. /\ job \in [JobId -> Job]
        /\ row \in [Delivery -> {"ABSENT", "PENDING", "DELIVERED", "FAILED"}]
        /\ posts \in [Delivery -> Nat]
        /\ job[j].pc # "free" => job[j].delivery \in Delivery
    BY DEF TypeInv, TypeOK, Loaded
  <1> USE DEF At, store, history, Through, PastLoad
  <1>1. CASE job[j].delivery = d
    <2>1. Start(j) \/ Load(j) \/ Requeue(j) \/ Complete(j) \/ Fail(j)
      BY <1>1 DEF Step, Resolve, Post, MarkDelivered, MarkFailed, FailureDue,
                  ScheduleRetry, RetryDue
    <2>2. row' = row /\ posts' = posts
      BY <2>1 DEF Start, Load, Requeue, Complete, Fail
    <2>3. CASE Start(j)
      <3>1. /\ \A i \in JobId \ {j} : job'[i] = job[i]
            /\ job'[j].pc = "load"
        BY <1>0, <2>3 DEF Start, Goto, Job
      <3> QED
        BY <2>2, <3>1
    <2>4. CASE Load(j)
      <3>1. /\ \A i \in JobId \ {j} : job'[i] = job[i]
            /\ job'[j].pc = "exit"
        BY <1>0, <1>1, <2>4 DEF Load, Goto, Job
      <3> QED
        BY <2>2, <3>1
    <2>5. CASE Requeue(j)
      <3>1. PICK k \in JobId :
               job' = [job EXCEPT ![j].pc = "exit",
                                  ![k] = NewJob(job[j].delivery, job[j].made + 1)]
        BY <2>5 DEF Requeue
      <3>2. NewJob(job[j].delivery, job[j].made + 1).pc = "waiting"
        BY DEF NewJob
      <3>3. \A i \in JobId : job'[i] = job[i] \/ job'[i].pc \in {"exit", "waiting"}
        BY <1>0, <3>1, <3>2 DEF Job
      <3> QED
        BY <2>2, <3>3
    <2>6. CASE Complete(j) \/ Fail(j)
      <3>1. /\ \A i \in JobId \ {j} : job'[i] = job[i]
            /\ job'[j].pc = "free"
        BY <1>0, <2>6, FreeJobTypes DEF Complete, Fail
      <3> QED
        BY <2>2, <3>1
    <2> QED
      BY <2>1, <2>3, <2>4, <2>5, <2>6
  <1>2. CASE job[j].delivery # d
    <2>1. posts'[d] = posts[d] /\ row'[d] = row[d]
      BY <1>0, <1>2 DEF Step, Start, Load, Resolve, Post, MarkDelivered,
         MarkFailed, ScheduleRetry, Requeue, Complete, Fail
    <2>2. CASE Requeue(j)
      <3>1. PICK k \in JobId :
               job' = [job EXCEPT ![j].pc = "exit",
                                  ![k] = NewJob(job[j].delivery, job[j].made + 1)]
        BY <2>2 DEF Requeue
      <3>2. NewJob(job[j].delivery, job[j].made + 1).pc = "waiting"
        BY DEF NewJob
      <3>3. \A i \in JobId : job'[i] = job[i] \/ job'[i].pc \in {"exit", "waiting"}
        BY <1>0, <3>1, <3>2 DEF Job
      <3> QED
        BY <2>1, <3>3
    <2>3. CASE Complete(j) \/ Fail(j)
      <3>1. /\ \A i \in JobId \ {j} : job'[i] = job[i]
            /\ job'[j].pc = "free"
        BY <1>0, <2>3, FreeJobTypes DEF Complete, Fail
      <3> QED
        BY <2>1, <3>1
    <2>4. CASE ~Requeue(j) /\ ~Complete(j) /\ ~Fail(j)
      <3>1. \/ \E p : Goto(j, p)
            \/ \E p, r : GotoWith(j, p, r)
        BY <2>4 DEF Step, Start, Load, Resolve, Post, MarkDelivered, MarkFailed,
           ScheduleRetry
      <3>2. /\ \A i \in JobId \ {j} : job'[i] = job[i]
            /\ job'[j].delivery = job[j].delivery
        BY <1>0, <3>1 DEF Goto, GotoWith, Job
      <3> QED
        BY <1>2, <2>1, <3>2
    <2> QED
      BY <2>2, <2>3, <2>4
  <1> QED
    BY <1>1, <1>2

LEMMA SettledOther ==
    ASSUME TypeInv, NEW d \in Delivery, [Next]_vars, \A j \in JobId : ~Step(j),
           row[d] = "DELIVERED", Through(d)
    PROVE  posts'[d] = posts[d] /\ row'[d] = "DELIVERED" /\ Through(d)'
  <1>0. /\ job \in [JobId -> Job]
        /\ row \in [Delivery -> {"ABSENT", "PENDING", "DELIVERED", "FAILED"}]
        /\ \A j \in JobId : job[j].pc # "free" => job[j].delivery \in Delivery
    BY DEF TypeInv, TypeOK, Loaded
  <1> USE DEF At, store, history
  <1> DEFINE Idle(r) == r.pc \in {"free", "waiting", "stalled", "abort"}
             Same(i) == /\ job'[i].pc = job[i].pc
                        /\ job'[i].delivery = job[i].delivery
  <1>1. posts' = posts /\ row'[d] = "DELIVERED"
    BY <1>0 DEF Next, Crash, Throw, Stall, RecoverStalled, Dispatch,
                EnqueueWebhook, LoseDispatch, ChangeHook, vars
  <1>2. \A r \in Job : r.delivery \in Delivery =>
                         Idle(AfterStall(r)) /\ Idle(AfterCrash(r))
    BY DEF AfterStall, AfterCrash, NewJob, FreeJob, Job, Running
  <1>3. \A i \in JobId : Same(i) \/ Idle(job'[i])
    <2>1. CASE Crash
      <3>1. \A i \in Active : job[i].delivery \in Delivery /\ job[i] \in Job
        BY <1>0 DEF Active, Running
      <3> QED
        BY <1>2, <2>1, <3>1 DEF Crash
    <2>2. ASSUME NEW j \in JobId, Throw(j)
          PROVE  \A i \in JobId : Same(i) \/ Idle(job'[i])
      BY <1>0, <2>2 DEF Throw, Goto, Job
    <2>3. ASSUME NEW j \in JobId, Stall(j)
          PROVE  \A i \in JobId : Same(i) \/ Idle(job'[i])
      <3>1. job[j].delivery \in Delivery /\ job[j] \in Job
        BY <1>0, <2>3 DEF Stall, Active, Running
      <3>2. PICK k \in JobId :
               job' = [job EXCEPT ![j].slot = "lost", ![k] = AfterStall(job[j])]
        BY <2>3 DEF Stall
      <3>3. \A i \in JobId : i # k => Same(i)
        BY <1>0, <3>2 DEF Job
      <3>4. job'[k] = AfterStall(job[j])
        BY <1>0, <3>2
      <3> QED
        BY <1>2, <3>1, <3>3, <3>4
    <2>4. ASSUME NEW j \in JobId, RecoverStalled(j)
          PROVE  \A i \in JobId : Same(i) \/ Idle(job'[i])
      <3>1. job[j].delivery \in Delivery /\ job[j] \in Job
        BY <1>0, <2>4 DEF RecoverStalled
      <3> QED
        BY <1>0, <1>2, <2>4, <3>1 DEF RecoverStalled
    <2>5. ASSUME NEW e \in Delivery, EnqueueWebhook(e)
          PROVE  \A i \in JobId : Same(i) \/ Idle(job'[i])
      BY <1>0, <2>5, NewJobTypes DEF EnqueueWebhook
    <2>6. CASE job' = job
      BY <2>6
    <2> QED
      BY <2>1, <2>2, <2>3, <2>4, <2>5, <2>6
      DEF Next, Dispatch, LoseDispatch, ChangeHook, vars
  <1> QED
    BY <1>1, <1>3 DEF Through, PastLoad

\* After DELIVERED only the runs that had loaded the row before can send once
\* more or overwrite it, however many duplicates crashes and stalled jobs left
\* (the check of process-webhook.ts:55).
THEOREM DeliveredIsSettled == Spec => DeliveredSettles
  <1> DEFINE Settles(d) == row[d] = "DELIVERED" /\ Through(d) =>
                 posts'[d] = posts[d] /\ row'[d] = "DELIVERED" /\ Through(d)'
  <1>1. TypeInv /\ [Next]_vars => [\A d \in Delivery : Settles(d)]_vars
    BY SettledStep, SettledOther
  <1>2. [\A d \in Delivery : Settles(d)]_vars =>
        [\A d \in Delivery :
           /\ row[d] = "DELIVERED"
           /\ \A j \in JobId : job[j].delivery = d => ~PastLoad(j)
           => /\ posts'[d] = posts[d]
              /\ row'[d] = "DELIVERED"
              /\ \A j \in JobId : job'[j].delivery = d => ~PastLoad(j)']_vars
    BY DEF Through
  <1> QED
    BY <1>1, <1>2, Types, PTL DEF Spec, DeliveredSettles

-----------------------------------------------------------------------------
(* The chain of an uninterrupted delivery. *)

\* Job j carries delivery d and has not come to its end.
Carries(j, d) == job[j].delivery = d /\ job[j].pc \notin {"free", "exit"}

\* What the only job of an uninterrupted delivery knows is the truth.
Sound(j, d) ==
    /\ row[d] = "PENDING"
    /\ d \notin dispatching
    /\ job[j].slot = "own"
    /\ job[j].made < MaxTries
    /\ \/ /\ job[j].pc \in {"waiting", "load", "resolve", "post"}
          /\ tries[d] = job[j].made
          /\ count[d] = job[j].made
          /\ answer[d] \in {"none", "again"}
       \/ /\ job[j].pc = "verdict"
          /\ job[j].result = "no"
          /\ answer[d] = "refused"
          /\ count[d] =< tries[d]
       \/ /\ job[j].pc = "verdict"
          /\ job[j].result \in Answer
          /\ answer[d] = Meaning(job[j].result)
          /\ tries[d] = job[j].made + 1
          /\ count[d] = job[j].made
       \/ /\ job[j].pc = "requeue"
          /\ answer[d] = "again"
          /\ tries[d] = job[j].made + 1
          /\ count[d] = job[j].made + 1
          /\ job[j].made + 1 < MaxTries

\* Before the first job there is nothing.
Blank(d) == tries[d] = 0 /\ count[d] = 0 /\ answer[d] = "none"

\* An uninterrupted delivery has one job at most, and a sound one.
Chain(d) ==
    /\ \A j \in JobId : Carries(j, d) => Sound(j, d)
    /\ \A j, k \in JobId : Carries(j, d) /\ Carries(k, d) => j = k
    /\ d \in dispatching => row[d] = "PENDING" /\ Blank(d)
    /\ row[d] = "ABSENT" => Blank(d)
    /\ count[d] =< tries[d]
    /\ row[d] = "DELIVERED" => count[d] = tries[d]

ChainInv == \A d \in Delivery : cuts[d] = 0 => Chain(d)

\* A chain stays if nothing of its delivery changes.
LEMMA ChainStays ==
    ASSUME NEW d \in Delivery, Chain(d),
           row'[d] = row[d], count'[d] = count[d], tries'[d] = tries[d],
           answer'[d] = answer[d], d \in dispatching' <=> d \in dispatching,
           \A i \in JobId : Carries(i, d)' => job'[i] = job[i]
    PROVE  Chain(d)'
  BY DEF Chain, Carries, Sound, Blank

\* What a step of job j may do to the row and the history.
LEMMA StepLocal ==
    ASSUME TypeInv, NEW j \in JobId, Step(j)
    PROVE  /\ job[j].delivery \in Delivery
           /\ job[j].pc # "free"
           /\ cuts' = cuts
           /\ dispatching' = dispatching
           /\ \A e \in Delivery : e # job[j].delivery =>
                 /\ row'[e] = row[e]
                 /\ count'[e] = count[e]
                 /\ tries'[e] = tries[e]
                 /\ answer'[e] = answer[e]
                 /\ posts'[e] = posts[e]
  <1> USE DEF At, store, history, Heard
  <1>1. job[j].pc # "free"
    BY DEF Step, Start, Load, Resolve, Post, MarkDelivered, MarkFailed,
           FailureDue, ScheduleRetry, RetryDue, Requeue, Complete, Fail
  <1>2. job[j].delivery \in Delivery
    BY <1>1 DEF TypeInv, Loaded
  <1>3. cuts' = cuts /\ dispatching' = dispatching
    BY DEF Step, Start, Load, Resolve, Post, MarkDelivered, MarkFailed,
           FailureDue, ScheduleRetry, RetryDue, Requeue, Complete, Fail
  <1>4. ASSUME NEW e \in Delivery, e # job[j].delivery
        PROVE  /\ row'[e] = row[e]
               /\ count'[e] = count[e]
               /\ tries'[e] = tries[e]
               /\ answer'[e] = answer[e]
               /\ posts'[e] = posts[e]
    BY <1>4 DEF Step, Start, Load, Resolve, Post, MarkDelivered, MarkFailed,
           ScheduleRetry, Requeue, Complete, Fail, TypeInv, TypeOK
  <1> QED
    BY <1>1, <1>2, <1>3, <1>4

\* A step of job j leaves the chains of the other deliveries alone.
LEMMA OtherChains ==
    ASSUME TypeInv, ChainInv, NEW j \in JobId, Step(j),
           NEW e \in Delivery, e # job[j].delivery, cuts'[e] = 0
    PROVE  Chain(e)'
  <1>0. job \in [JobId -> Job]
    BY DEF TypeInv, TypeOK
  <1>1. Chain(e)
    BY StepLocal DEF ChainInv
  <1>2. \A i \in JobId : Carries(i, e)' => job'[i] = job[i]
    <2>1. CASE Requeue(j)
      <3>1. PICK k \in JobId :
               job' = [job EXCEPT ![j].pc = "exit",
                                  ![k] = NewJob(job[j].delivery, job[j].made + 1)]
        BY <2>1 DEF Requeue
      <3>2. NewJob(job[j].delivery, job[j].made + 1).delivery = job[j].delivery
        BY DEF NewJob
      <3> QED
        BY <1>0, <3>1, <3>2 DEF Carries, Job
    <2>2. CASE Complete(j) \/ Fail(j)
      BY <1>0, <2>2, FreeJobTypes DEF Complete, Fail, Carries
    <2>3. CASE ~Requeue(j) /\ ~Complete(j) /\ ~Fail(j)
      <3>1. \/ \E p : Goto(j, p)
            \/ \E p, r : GotoWith(j, p, r)
        BY <2>3 DEF Step, Start, Load, Resolve, Post, MarkDelivered, MarkFailed,
           ScheduleRetry
      <3>2. /\ \A i \in JobId \ {j} : job'[i] = job[i]
            /\ job'[j].delivery = job[j].delivery
        BY <1>0, <3>1 DEF Goto, GotoWith, Job
      <3> QED
        BY <3>2 DEF Carries
    <2> QED
      BY <2>1, <2>2, <2>3
  <1> QED
    BY <1>1, <1>2, StepLocal, ChainStays

\* A run that moves on keeps the chain if it stays sound.
LEMMA MoveInChain ==
    ASSUME TypeInv, NEW j \in JobId, NEW d \in Delivery, Chain(d),
           Carries(j, d), dispatching' = dispatching,
           \A i \in JobId \ {j} : job'[i] = job[i],
           \/ Carries(j, d)' /\ Sound(j, d)'
           \/ ~Carries(j, d)' /\ row'[d] # "ABSENT",
           count'[d] =< tries'[d],
           row'[d] = "DELIVERED" => count'[d] = tries'[d]
    PROVE  Chain(d)'
  BY DEF Chain, Carries, Sound

LEMMA OwnChain ==
    ASSUME TypeInv, NEW j \in JobId, Step(j), NEW d \in Delivery,
           d = job[j].delivery, Chain(d)
    PROVE  Chain(d)'
  <1> USE DEF At, store, history, Heard
  <1>0. /\ job \in [JobId -> Job] /\ job[j] \in Job /\ job[j].made \in Nat
        /\ row \in [Delivery -> {"ABSENT", "PENDING", "DELIVERED", "FAILED"}]
        /\ count \in [Delivery -> Nat] /\ tries \in [Delivery -> Nat]
        /\ answer \in [Delivery -> {"none", "taken", "refused", "again"}]
        /\ MaxTries \in Nat
        /\ dispatching' = dispatching
    BY StepLocal, WebhookAssumption DEF TypeInv, TypeOK, Job
  <1>1. job[j].pc # "exit" => Carries(j, d) /\ Sound(j, d)
    BY StepLocal DEF Chain, Carries
  <1>2. CASE Start(j)
    <2>1. /\ \A i \in JobId \ {j} : job'[i] = job[i]
          /\ job'[j] = [job[j] EXCEPT !.pc = "load"]
      BY <1>0, <1>2 DEF Start, Goto
    <2>2. Carries(j, d)' /\ Sound(j, d)'
      BY <1>0, <1>1, <1>2, <2>1 DEF Start, Carries, Sound, Job
    <2> QED
      BY <1>0, <1>1, <1>2, <2>1, <2>2, MoveInChain DEF Start, Chain
  <1>3. CASE Load(j)
    <2>1. row[d] = "PENDING"
      BY <1>1, <1>3 DEF Load, Sound
    <2>2. CASE hook = "removed"
      <3>1. /\ \A i \in JobId \ {j} : job'[i] = job[i]
            /\ job'[j] = [job[j] EXCEPT !.pc = "verdict", !.result = "no"]
        BY <1>0, <1>3, <2>1, <2>2 DEF Load, GotoWith
      <3>2. Carries(j, d)' /\ Sound(j, d)'
        BY <1>0, <1>1, <1>3, <2>1, <2>2, <3>1 DEF Load, Carries, Sound, Job
      <3> QED
        BY <1>0, <1>1, <1>3, <3>1, <3>2, MoveInChain DEF Load, Chain
    <2>3. CASE hook # "removed"
      <3>1. /\ \A i \in JobId \ {j} : job'[i] = job[i]
            /\ job'[j] = [job[j] EXCEPT !.pc = "resolve"]
            /\ answer' = answer
        BY <1>0, <1>3, <2>1, <2>3 DEF Load, Goto
      <3>2. Carries(j, d)' /\ Sound(j, d)'
        BY <1>0, <1>1, <1>3, <2>1, <2>3, <3>1 DEF Load, Carries, Sound, Job
      <3> QED
        BY <1>0, <1>1, <1>3, <3>1, <3>2, MoveInChain DEF Load, Chain
    <2> QED
      BY <2>2, <2>3
  <1>4. CASE Resolve(j)
    <2>1. CASE GotoWith(j, "verdict", "no") /\ Heard(d, "refused") /\ tries' = tries
      <3>1. /\ \A i \in JobId \ {j} : job'[i] = job[i]
            /\ job'[j] = [job[j] EXCEPT !.pc = "verdict", !.result = "no"]
        BY <1>0, <2>1 DEF GotoWith
      <3>2. Carries(j, d)' /\ Sound(j, d)'
        BY <1>0, <1>1, <1>4, <2>1, <3>1 DEF Resolve, Carries, Sound, Job
      <3> QED
        BY <1>0, <1>1, <1>4, <2>1, <3>1, <3>2, MoveInChain DEF Resolve, Chain
    <2>2. CASE /\ GotoWith(j, "verdict", "none")
               /\ Heard(d, "again")
               /\ tries' = [tries EXCEPT ![d] = @ + 1]
      <3>1. /\ \A i \in JobId \ {j} : job'[i] = job[i]
            /\ job'[j] = [job[j] EXCEPT !.pc = "verdict", !.result = "none"]
        BY <1>0, <2>2 DEF GotoWith
      <3>2. Carries(j, d)' /\ Sound(j, d)'
        BY <1>0, <1>1, <1>4, <2>2, <3>1
        DEF Resolve, Carries, Sound, Job, Answer, Meaning
      <3> QED
        <4>1. row'[d] = "PENDING" /\ count'[d] =< tries'[d]
          BY <1>0, <1>4, <2>2, <3>2 DEF Resolve, Sound, Chain
        <4> QED
          BY <1>0, <1>1, <1>4, <3>1, <3>2, <4>1, MoveInChain DEF Resolve
    <2>3. CASE Goto(j, "post") /\ answer' = answer /\ tries' = tries
      <3>1. /\ \A i \in JobId \ {j} : job'[i] = job[i]
            /\ job'[j] = [job[j] EXCEPT !.pc = "post"]
        BY <1>0, <2>3 DEF Goto
      <3>2. Carries(j, d)' /\ Sound(j, d)'
        BY <1>0, <1>1, <1>4, <2>3, <3>1 DEF Resolve, Carries, Sound, Job
      <3> QED
        BY <1>0, <1>1, <1>4, <2>3, <3>1, <3>2, MoveInChain DEF Resolve, Chain
    <2> QED
      BY <1>4, <2>1, <2>2, <2>3 DEF Resolve
  <1>5. CASE Post(j)
    <2>1. PICK a \in Answer : /\ GotoWith(j, "verdict", a)
                              /\ Heard(d, Meaning(a))
      BY <1>5 DEF Post
    <2>2. /\ \A i \in JobId \ {j} : job'[i] = job[i]
          /\ job'[j] = [job[j] EXCEPT !.pc = "verdict", !.result = a]
      BY <1>0, <2>1 DEF GotoWith
    <2>3. Carries(j, d)' /\ Sound(j, d)'
      BY <1>0, <1>1, <1>5, <2>1, <2>2 DEF Post, Carries, Sound, Job
    <2> QED
      <3>1. row'[d] = "PENDING" /\ count'[d] =< tries'[d]
        BY <1>0, <1>5, <2>3 DEF Post, Sound, Chain
      <3> QED
        BY <1>0, <1>1, <1>5, <2>2, <2>3, <3>1, MoveInChain DEF Post
  <1>6. CASE MarkDelivered(j)
    <2>1. /\ \A i \in JobId \ {j} : job'[i] = job[i]
          /\ job'[j].pc = "exit"
      BY <1>0, <1>6 DEF MarkDelivered, Goto, Job
    <2>2. tries[d] = job[j].made + 1
      BY <1>1, <1>6 DEF MarkDelivered, Sound
    <2>3. row'[d] = "DELIVERED" /\ count'[d] = tries'[d]
      BY <1>0, <1>6, <2>2 DEF MarkDelivered
    <2> QED
      BY <1>0, <1>1, <1>6, <2>1, <2>3, MoveInChain DEF MarkDelivered, Carries
  <1>7. CASE MarkFailed(j)
    <2>1. /\ \A i \in JobId \ {j} : job'[i] = job[i]
          /\ job'[j].pc = "exit"
      BY <1>0, <1>7 DEF MarkFailed, Goto, Job
    <2>2. row'[d] = "FAILED" /\ count' = count /\ tries' = tries
      BY <1>0, <1>7 DEF MarkFailed
    <2>3. job[j].pc # "exit"
      BY <1>7 DEF MarkFailed, FailureDue
    <2> QED
      BY <1>0, <1>1, <2>1, <2>2, <2>3, MoveInChain DEF Chain, Carries
  <1>8. CASE ScheduleRetry(j)
    <2>1. /\ \A i \in JobId \ {j} : job'[i] = job[i]
          /\ job'[j] = [job[j] EXCEPT !.pc = "requeue"]
      BY <1>0, <1>8 DEF ScheduleRetry, Goto
    <2>2. /\ job[j].pc = "verdict"
          /\ job[j].result \in {"3xx", "429", "5xx", "none"}
          /\ job[j].made + 1 < MaxTries
      BY <1>8 DEF ScheduleRetry, RetryDue, ShouldRetryWebhook, HasRetryDelay
    <2>3. tries[d] = job[j].made + 1 /\ answer[d] = "again" /\ row[d] = "PENDING"
      BY <1>1, <2>2 DEF Sound, Meaning
    <2>4. /\ count'[d] = job[j].made + 1
          /\ tries' = tries /\ answer' = answer /\ row' = row
      BY <1>0, <1>8 DEF ScheduleRetry
    <2>5. Carries(j, d)' /\ Sound(j, d)'
      BY <1>0, <1>1, <2>1, <2>2, <2>3, <2>4 DEF Carries, Sound, Job
    <2> QED
      BY <1>0, <1>1, <2>1, <2>2, <2>3, <2>4, <2>5, MoveInChain
  <1>9. CASE Requeue(j)
    <2>1. PICK k \in JobId :
             /\ job[k].pc = "free"
             /\ job' = [job EXCEPT ![j].pc = "exit",
                                   ![k] = NewJob(job[j].delivery, job[j].made + 1)]
      BY <1>9 DEF Requeue
    <2>2. /\ job[j].pc = "requeue"
          /\ UNCHANGED <<row, count, tries, answer, dispatching>>
      BY <1>9 DEF Requeue
    <2>3. /\ job'[k] = NewJob(d, job[j].made + 1)
          /\ job'[j].pc = "exit"
          /\ \A i \in JobId \ {j, k} : job'[i] = job[i]
      BY <1>0, <2>1, <2>2 DEF Job
    <2>4. Carries(k, d)' /\ Sound(k, d)'
      BY <1>0, <1>1, <2>2, <2>3, NewJobTypes DEF Carries, Sound
    <2>5. \A i \in JobId \ {k} : ~Carries(i, d)'
      BY <1>1, <2>2, <2>3 DEF Carries, Chain
    <2> QED
      BY <1>1, <2>2, <2>4, <2>5 DEF Chain, Blank, Sound
  <1>10. CASE Complete(j)
    <2>1. \A i \in JobId : Carries(i, d)' => job'[i] = job[i]
      BY <1>0, <1>10, FreeJobTypes DEF Complete, Carries
    <2> QED
      BY <1>0, <1>10, <2>1, ChainStays DEF Complete
  <1>11. CASE Fail(j)
    BY <1>1, <1>11 DEF Fail, Sound
  <1> QED
    BY <1>2, <1>3, <1>4, <1>5, <1>6, <1>7, <1>8, <1>9, <1>10, <1>11 DEF Step

LEMMA StepChains ==
    ASSUME TypeInv, ChainInv, NEW j \in JobId, Step(j)
    PROVE  ChainInv'
  <1> SUFFICES ASSUME NEW e \in Delivery, cuts'[e] = 0
               PROVE  Chain(e)'
    BY DEF ChainInv
  <1>1. CASE e = job[j].delivery
    BY <1>1, StepLocal, OwnChain DEF ChainInv
  <1>2. CASE e # job[j].delivery
    BY <1>2, OtherChains
  <1> QED
    BY <1>1, <1>2

\* An uninterrupted delivery has no part in an interruption.
LEMMA InterruptedChains ==
    ASSUME TypeInv, ChainInv, NEW e \in Delivery, cuts'[e] = 0,
           \/ Crash
           \/ \E j \in JobId : Throw(j) \/ Stall(j) \/ RecoverStalled(j)
    PROVE  /\ cuts[e] = 0
           /\ dispatching' = dispatching
           /\ UNCHANGED <<row, count, posts, tries, answer>>
           /\ \A i \in JobId : Carries(i, e)' => job'[i] = job[i]
  <1> USE DEF At, store, history
  <1>0. /\ job \in [JobId -> Job]
        /\ cuts \in [Delivery -> Nat]
        /\ \A j \in JobId : job[j].pc # "free" => job[j].delivery \in Delivery
    BY DEF TypeInv, TypeOK, Loaded
  <1>1. CASE Crash
    <2>1. IsFiniteSet(Owning(e)) /\ Cardinality(Owning(e)) \in Nat
      BY WebhookAssumption, FS_Subset, FS_CardinalityType DEF Owning, Active
    <2>2. cuts'[e] = cuts[e] + Cardinality(Owning(e))
      BY <1>1 DEF Crash
    <2>3. cuts[e] = 0 /\ Cardinality(Owning(e)) = 0
      BY <1>0, <2>1, <2>2
    <2>4. Owning(e) = {}
      BY <2>1, <2>3, FS_EmptySet
    <2>5. \A i \in JobId : job'[i] = IF i \in Active THEN AfterCrash(job[i])
                                     ELSE job[i]
      BY <1>1 DEF Crash
    <2>6. ASSUME NEW i \in JobId, Carries(i, e)', i \in Active
          PROVE  FALSE
      <3>1. /\ job[i] \in Job /\ job[i].delivery \in Delivery
            /\ job'[i] = AfterCrash(job[i])
        BY <1>0, <2>5, <2>6 DEF Active, Running
      <3>2. AfterCrash(job[i]).pc # "free" /\ AfterCrash(job[i]).delivery = e
        BY <2>6, <3>1 DEF Carries
      <3>3. job[i].delivery = e /\ job[i].slot = "own"
        BY <3>1, <3>2, SuccessorTypes
      <3> QED
        BY <2>4, <2>6, <3>3 DEF Owning
    <2>7. \A i \in JobId : Carries(i, e)' => job'[i] = job[i]
      BY <2>5, <2>6
    <2> QED
      BY <1>1, <2>3, <2>7 DEF Crash
  <1>2. ASSUME NEW j \in JobId, Throw(j)
        PROVE  /\ cuts[e] = 0
               /\ \A i \in JobId : Carries(i, e)' => job'[i] = job[i]
    <2>1. job[j].delivery # e /\ cuts[e] = 0
      BY <1>0, <1>2 DEF Throw
    <2>2. /\ \A i \in JobId \ {j} : job'[i] = job[i]
          /\ job'[j].delivery = job[j].delivery
      BY <1>0, <1>2 DEF Throw, Goto, Job
    <2> QED
      BY <2>1, <2>2 DEF Carries
  <1>3. ASSUME NEW j \in JobId, Stall(j)
        PROVE  /\ cuts[e] = 0
               /\ \A i \in JobId : Carries(i, e)' => job'[i] = job[i]
    <2>1. /\ job[j].delivery \in Delivery /\ job[j] \in Job
          /\ job[j].delivery # e /\ cuts[e] = 0
      BY <1>0, <1>3 DEF Stall, Active, Running
    <2>2. PICK k \in JobId :
             job' = [job EXCEPT ![j].slot = "lost", ![k] = AfterStall(job[j])]
      BY <1>3 DEF Stall
    <2>3. AfterStall(job[j]).pc = "free" \/ AfterStall(job[j]).delivery # e
      BY <2>1, SuccessorTypes
    <2>4. /\ \A i \in JobId \ {j, k} : job'[i] = job[i]
          /\ job'[k] = AfterStall(job[j])
          /\ j # k => job'[j].delivery = job[j].delivery
      BY <1>0, <2>2 DEF Job
    <2> QED
      BY <2>1, <2>3, <2>4 DEF Carries
  <1>4. ASSUME NEW j \in JobId, RecoverStalled(j)
        PROVE  /\ cuts[e] = 0
               /\ \A i \in JobId : Carries(i, e)' => job'[i] = job[i]
    <2>1. /\ job[j].delivery \in Delivery /\ job[j] \in Job
          /\ cuts[e] = 0
      BY <1>0, <1>4 DEF RecoverStalled
    <2>2. job[j].delivery # e
      BY <1>4, <2>1 DEF RecoverStalled, ChainInv, Chain, Carries, Sound
    <2>3. /\ \A i \in JobId \ {j} : job'[i] = job[i]
          /\ job'[j] = AfterStall(job[j])
      BY <1>0, <1>4 DEF RecoverStalled
    <2>4. AfterStall(job[j]).pc = "free" \/ AfterStall(job[j]).delivery # e
      BY <2>1, <2>2, SuccessorTypes
    <2> QED
      BY <2>1, <2>3, <2>4 DEF Carries
  <1>5. CASE \E j \in JobId : Throw(j) \/ Stall(j) \/ RecoverStalled(j)
    <2>1. /\ dispatching' = dispatching
          /\ UNCHANGED <<row, count, posts, tries, answer>>
      BY <1>5 DEF Throw, Stall, RecoverStalled
    <2> QED
      BY <1>2, <1>3, <1>4, <1>5, <2>1
  <1> QED
    BY <1>1, <1>5

LEMMA OtherStepChains ==
    ASSUME TypeInv, ChainInv, [Next]_vars, \A j \in JobId : ~Step(j)
    PROVE  ChainInv'
  <1> SUFFICES ASSUME NEW e \in Delivery, cuts'[e] = 0
               PROVE  Chain(e)'
    BY DEF ChainInv
  <1> USE DEF At, store, history
  <1>0. /\ job \in [JobId -> Job]
        /\ row \in [Delivery -> {"ABSENT", "PENDING", "DELIVERED", "FAILED"}]
        /\ MaxTries \in Nat \ {0}
    BY WebhookAssumption DEF TypeInv, TypeOK
  <1>1. CASE Crash \/ \E j \in JobId : Throw(j) \/ Stall(j) \/ RecoverStalled(j)
    <2>1. Chain(e)
      BY <1>1, InterruptedChains DEF ChainInv
    <2> QED
      BY <1>1, <2>1, InterruptedChains, ChainStays
  <1>2. ASSUME NEW d \in Delivery, Dispatch(d)
        PROVE  Chain(e)'
    <2>1. Chain(e) /\ job' = job /\ UNCHANGED <<count, tries, answer>>
      BY <1>2 DEF Dispatch, ChainInv
    <2>2. CASE e = d
      <3>1. /\ row[e] = "ABSENT" /\ row'[e] = "PENDING"
            /\ dispatching' = dispatching \cup {e}
        BY <1>0, <1>2, <2>2 DEF Dispatch
      <3>2. \A j \in JobId : ~Carries(j, e)
        BY <2>1, <3>1 DEF Chain, Sound
      <3> QED
        BY <2>1, <3>1, <3>2 DEF Chain, Carries, Blank
    <2>3. CASE e # d
      <3>1. row'[e] = row[e] /\ (e \in dispatching' <=> e \in dispatching)
        BY <1>0, <1>2, <2>3 DEF Dispatch
      <3> QED
        BY <2>1, <3>1, ChainStays
    <2> QED
      BY <2>2, <2>3
  <1>3. ASSUME NEW d \in Delivery, EnqueueWebhook(d)
        PROVE  Chain(e)'
    <2>1. Chain(e) /\ UNCHANGED <<row, count, tries, answer>>
      BY <1>3 DEF EnqueueWebhook, ChainInv
    <2>2. PICK k \in JobId : /\ job[k].pc = "free"
                             /\ job' = [job EXCEPT ![k] = NewJob(d, 0)]
      BY <1>3 DEF EnqueueWebhook
    <2>3. /\ job'[k] = NewJob(d, 0)
          /\ \A i \in JobId \ {k} : job'[i] = job[i]
          /\ d \in dispatching /\ dispatching' = dispatching \ {d}
      BY <1>0, <1>3, <2>2 DEF EnqueueWebhook
    <2>4. CASE e = d
      <3>1. row[e] = "PENDING" /\ Blank(e) /\ \A i \in JobId : ~Carries(i, e)
        BY <2>1, <2>3, <2>4 DEF Chain, Sound
      <3>2. Carries(k, e)' /\ Sound(k, e)'
        BY <1>0, <2>1, <2>3, <2>4, <3>1, NewJobTypes DEF Carries, Sound, Blank
      <3>3. \A i \in JobId \ {k} : ~Carries(i, e)'
        BY <2>3, <3>1 DEF Carries
      <3> QED
        BY <2>1, <2>3, <2>4, <3>1, <3>2, <3>3 DEF Chain, Blank
    <2>5. CASE e # d
      <3>1. \A i \in JobId : Carries(i, e)' => job'[i] = job[i]
        BY <2>3, <2>5, NewJobTypes DEF Carries
      <3> QED
        BY <2>1, <2>3, <2>5, <3>1, ChainStays
    <2> QED
      BY <2>4, <2>5
  <1>4. ASSUME NEW d \in Delivery, LoseDispatch(d)
        PROVE  Chain(e)'
    <2>1. /\ Chain(e) /\ job' = job /\ UNCHANGED <<row, count, tries, answer>>
          /\ dispatching' = dispatching \ {d}
      BY <1>4 DEF LoseDispatch, ChainInv
    <2> QED
      BY <2>1 DEF Chain, Carries, Sound, Blank
  <1>5. CASE (\E h : ChangeHook(h)) \/ UNCHANGED vars
    <2>1. /\ Chain(e) /\ job' = job /\ UNCHANGED <<row, count, tries, answer>>
          /\ dispatching' = dispatching
      BY <1>5 DEF ChangeHook, vars, ChainInv
    <2> QED
      BY <2>1, ChainStays
  <1> QED
    BY <1>1, <1>2, <1>3, <1>4, <1>5 DEF Next

LEMMA Chains == Spec => []ChainInv
  <1>1. Init => ChainInv
    BY FreeJobTypes DEF Init, ChainInv, Chain, Carries, Blank
  <1>2. TypeInv /\ ChainInv /\ [Next]_vars => ChainInv'
    BY StepChains, OtherStepChains
  <1> QED
    BY <1>1, <1>2, Types, PTL DEF Spec

\* The number of attempts in the row is the number of attempts made, however
\* long the chain of jobs that carried it (attemptCount, attemptsMade).
THEOREM CountsTruthful == Spec => []AttemptCountTruthful
  <1>1. ChainInv => AttemptCountTruthful
    BY DEF ChainInv, Chain, AttemptCountTruthful
  <1> QED
    BY <1>1, Chains, PTL

-----------------------------------------------------------------------------
(* The jobs and rows implement the promise of WebhookDelivery. *)

\* A run of an interrupted delivery may do anything to that delivery.
LEMMA DisturbedStep ==
    ASSUME cuts' = cuts, NEW d \in Delivery, cuts[d] > 0,
           \A e \in Delivery \ {d} : /\ row'[e] = row[e]
                                     /\ tries'[e] = tries[e]
                                     /\ answer'[e] = answer[e]
    PROVE  Delivering!DNext
  <1> DEFINE hurt == {e \in Delivery : cuts[e] > 0}
  <1>1. hurt' = hurt \cup {} /\ {} \in SUBSET Delivery
    OBVIOUS
  <1>2. \A e \in Delivery \ hurt' : e # d
    OBVIOUS
  <1>3. Delivering!Disturb
    BY <1>1, <1>2 DEF Delivering!Disturb
  <1> QED
    BY <1>3 DEF Delivering!DNext

LEMMA StepImplements ==
    ASSUME TypeInv, ChainInv, NEW j \in JobId, Step(j)
    PROVE  [Delivering!DNext]_(Delivering!dvars)
  <1> USE DEF At, store, history, Heard
  <1> DEFINE d == job[j].delivery
  <1>0. /\ d \in Delivery /\ job[j].made \in Nat /\ MaxTries \in Nat
        /\ tries \in [Delivery -> Nat] /\ cuts \in [Delivery -> Nat]
        /\ row \in [Delivery -> {"ABSENT", "PENDING", "DELIVERED", "FAILED"}]
        /\ cuts' = cuts
    BY StepLocal, WebhookAssumption DEF TypeInv, TypeOK, Job
  <1>1. CASE cuts[d] > 0
    BY <1>0, <1>1, StepLocal, DisturbedStep
  <1>2. CASE cuts[d] = 0 /\ UNCHANGED <<row, tries, answer>>
    BY <1>0, <1>2 DEF Delivering!dvars
  <1>3. CASE cuts[d] = 0 /\ ~UNCHANGED <<row, tries, answer>>
    <2>1. job[j].pc \notin {"free", "exit"}
      BY <1>3, StepLocal DEF Step, Start, Load, Resolve, Post, MarkDelivered,
             MarkFailed, FailureDue, ScheduleRetry, RetryDue, Requeue, Complete,
             Fail
    <2>2. Sound(j, d)
      BY <1>0, <1>3, <2>1 DEF ChainInv, Chain, Carries
    <2>3. d \in Delivery \ {e \in Delivery : cuts[e] > 0}
      BY <1>0, <1>3
    <2>4. \/ Delivering!Create(d) \/ Delivering!Try(d)
          \/ Delivering!Withdraw(d) \/ Delivering!Settle(d)
      <3>1. CASE Load(j)
        <4>1. Delivering!Withdraw(d)
          BY <1>0, <1>3, <2>2, <3>1
          DEF Load, Sound, Delivering!Withdraw, Delivering!Open
        <4> QED
          BY <4>1
      <3>2. CASE Resolve(j)
        <4>1. \/ Heard(d, "refused") /\ tries' = tries
              \/ Heard(d, "again") /\ tries' = [tries EXCEPT ![d] = @ + 1]
          BY <1>3, <3>2 DEF Resolve
        <4>2. CASE Heard(d, "refused") /\ tries' = tries
          BY <1>0, <2>2, <3>2, <4>2
          DEF Resolve, Sound, Delivering!Withdraw, Delivering!Open
        <4>3. CASE Heard(d, "again") /\ tries' = [tries EXCEPT ![d] = @ + 1]
          <5>1. Delivering!Open(d) /\ tries[d] < MaxTries
            BY <2>2, <3>2 DEF Resolve, Sound, Delivering!Open
          <5>2. Delivering!Try(d)
            BY <1>0, <3>2, <4>3, <5>1 DEF Resolve, Delivering!Try
          <5> QED
            BY <5>2
        <4> QED
          BY <4>1, <4>2, <4>3
      <3>3. CASE Post(j)
        <4>1. PICK a \in Answer : Heard(d, Meaning(a))
          BY <3>3 DEF Post
        <4>2. Meaning(a) \in {"taken", "refused", "again"}
          BY DEF Meaning
        <4>3. Delivering!Open(d) /\ tries[d] < MaxTries
          BY <2>2, <3>3 DEF Post, Sound, Delivering!Open
        <4>4. Delivering!Try(d)
          BY <1>0, <3>3, <4>1, <4>2, <4>3 DEF Post, Delivering!Try
        <4> QED
          BY <4>4
      <3>4. CASE MarkDelivered(j)
        <4>1. row[d] = "PENDING" /\ answer[d] = "taken"
          BY <2>2, <3>4 DEF MarkDelivered, Sound, Meaning
        <4>2. Delivering!Settle(d)
          BY <1>0, <3>4, <4>1
          DEF MarkDelivered, Delivering!Settle, Delivering!SetTo
        <4> QED
          BY <4>2
      <3>5. CASE MarkFailed(j)
        <4>1. /\ job[j].pc = "verdict"
              /\ job[j].result # "2xx"
              /\ ~(ShouldRetryWebhook(job[j].result) /\ job[j].made + 1 < MaxTries)
          BY <3>5 DEF MarkFailed, FailureDue, RetryDue, HasRetryDelay
        <4>2. row[d] = "PENDING" /\ job[j].made < MaxTries
          BY <2>2 DEF Sound
        <4>3. CASE job[j].result = "no"
          <5>1. answer[d] = "refused"
            BY <2>2, <4>1, <4>3 DEF Sound, Answer
          <5> QED
            BY <1>0, <3>5, <4>2, <5>1
            DEF MarkFailed, Delivering!Settle, Delivering!SetTo
        <4>4. CASE job[j].result # "no"
          <5>1. /\ job[j].result \in Answer
                /\ answer[d] = Meaning(job[j].result)
                /\ tries[d] = job[j].made + 1
            BY <2>2, <4>1, <4>4 DEF Sound
          <5>2. \/ answer[d] = "refused"
                \/ answer[d] = "again" /\ tries[d] = MaxTries
            BY <1>0, <4>1, <4>2, <5>1 DEF Answer, Meaning, ShouldRetryWebhook
          <5> QED
            BY <1>0, <3>5, <4>2, <5>2
            DEF MarkFailed, Delivering!Settle, Delivering!SetTo
        <4> QED
          BY <4>3, <4>4
      <3> QED
        BY <1>3, <3>1, <3>2, <3>3, <3>4, <3>5
        DEF Step, Start, ScheduleRetry, Requeue, Complete, Fail
    <2> QED
      BY <2>3, <2>4 DEF Delivering!DNext
  <1> QED
    BY <1>0, <1>1, <1>2, <1>3

\* What interrupts a run may cut several deliveries, and changes no row.
LEMMA OtherImplements ==
    ASSUME TypeInv, ChainInv, [Next]_vars, \A j \in JobId : ~Step(j)
    PROVE  [Delivering!DNext]_(Delivering!dvars)
  <1> USE DEF At, store, history
  <1>1. CASE Crash \/ \E j \in JobId : Throw(j) \/ Stall(j) \/ RecoverStalled(j)
    <2> DEFINE hurt == {e \in Delivery : cuts[e] > 0}
    <2>1. hurt \subseteq hurt'
      <3>1. ASSUME NEW e \in Delivery, cuts[e] > 0
            PROVE  cuts'[e] > 0
        <4>1. cuts' \in [Delivery -> Nat]
          BY OtherTypes DEF TypeInv, TypeOK
        <4>2. CASE cuts'[e] = 0
          BY <1>1, <3>1, <4>2, InterruptedChains
        <4> QED
          BY <4>1, <4>2
      <3> QED
        BY <3>1
    <2>2. hurt' = hurt \cup hurt' /\ hurt' \in SUBSET Delivery
      BY <2>1
    <2>3. UNCHANGED <<row, tries, answer>>
      BY <1>1 DEF Crash, Throw, Stall, RecoverStalled
    <2>4. Delivering!Disturb
      BY <2>2, <2>3 DEF Delivering!Disturb
    <2> QED
      BY <2>4 DEF Delivering!DNext
  <1>2. ASSUME NEW d \in Delivery, Dispatch(d)
        PROVE  [Delivering!DNext]_(Delivering!dvars)
    <2>1. CASE cuts[d] > 0
      BY <1>2, <2>1, DisturbedStep DEF Dispatch, TypeInv, TypeOK
    <2>2. CASE ~(cuts[d] > 0)
      <3>1. Delivering!Create(d)
        BY <1>2 DEF Dispatch, Delivering!Create, Delivering!SetTo
      <3> QED
        BY <2>2, <3>1 DEF Delivering!DNext
    <2> QED
      BY <2>1, <2>2
  <1>3. CASE \/ \E d \in Delivery : EnqueueWebhook(d) \/ LoseDispatch(d)
             \/ \E h : ChangeHook(h)
             \/ UNCHANGED vars
    <2>1. UNCHANGED <<row, tries, answer, cuts>>
      BY <1>3 DEF EnqueueWebhook, LoseDispatch, ChangeHook, vars
    <2> QED
      BY <2>1 DEF Delivering!dvars
  <1> QED
    BY <1>1, <1>2, <1>3 DEF Next

\* As long as no run of it was interrupted, a delivery is tried at most MaxTries
\* times, never after it was taken or refused, and its row says what the project
\* answered (process-webhook.ts as a whole).
THEOREM KeepsItsPromise == Spec => ImplementsDelivery
  <1>1. Init => Delivering!DInit
    BY DEF Init, Delivering!DInit
  <1>2. TypeInv /\ ChainInv /\ [Next]_vars => [Delivering!DNext]_(Delivering!dvars)
    BY StepImplements, OtherImplements
  <1> QED
    BY <1>1, <1>2, Types, Chains, PTL DEF Spec, ImplementsDelivery, Delivering!DSpec

-----------------------------------------------------------------------------
(* The requests a project receives. *)

\* The requests that a job and the jobs that follow it may still send, one for
\* each try they have left.
Owed(r) ==
    {n \in 1..MaxTries :
        \/ /\ r.pc \in {"waiting", "stalled", "load", "resolve", "post"}
           /\ n + r.made =< MaxTries
        \/ r.pc \in {"verdict", "requeue"} /\ n + r.made < MaxTries}

Pending(d) ==
    {p \in JobId \X (1..MaxTries) :
        job[p[1]].delivery = d /\ p[2] \in Owed(job[p[1]])}

\* The series a delivery has before its first job.
Reserve(d) == IF row[d] = "ABSENT" \/ d \in dispatching THEN MaxTries ELSE 0

\* What was sent and what may still come is paid for.
Paid(d) ==
    posts[d] + Cardinality(Pending(d)) + Reserve(d) =< MaxTries * (1 + cuts[d])

TriesInv ==
    /\ \A j \in JobId :
          /\ job[j].made < MaxTries
          /\ job[j].pc = "requeue" => job[j].made + 1 < MaxTries
    /\ \A d \in dispatching : row[d] # "ABSENT"

PostsInv == TriesInv /\ \A d \in Delivery : Paid(d)

LEMMA SetGrows ==
    ASSUME NEW A, NEW S, IsFiniteSet(A), IsFiniteSet(S), NEW B \in SUBSET (A \cup S)
    PROVE  /\ IsFiniteSet(B)
           /\ Cardinality(A) \in Nat /\ Cardinality(B) \in Nat
           /\ Cardinality(S) \in Nat
           /\ Cardinality(B) =< Cardinality(A) + Cardinality(S)
  <1>1. /\ IsFiniteSet(A \cup S)
        /\ Cardinality(A \cup S)
             = Cardinality(A) + Cardinality(S) - Cardinality(A \cap S)
    BY FS_Union
  <1>2. IsFiniteSet(B) /\ Cardinality(B) =< Cardinality(A \cup S)
    BY <1>1, FS_Subset
  <1>3. IsFiniteSet(A \cap S)
    BY FS_Subset
  <1>4. /\ Cardinality(A) \in Nat /\ Cardinality(B) \in Nat
        /\ Cardinality(S) \in Nat /\ Cardinality(A \cap S) \in Nat
        /\ Cardinality(A \cup S) \in Nat
    BY <1>1, <1>2, <1>3, FS_CardinalityType
  <1> QED
    BY <1>1, <1>2, <1>4

\* The pairs of one job.
LEMMA PairsCount ==
    ASSUME NEW x, NEW S, IsFiniteSet(S)
    PROVE  IsFiniteSet({x} \X S) /\ Cardinality({x} \X S) = Cardinality(S)
  <1>1. IsFiniteSet({x}) /\ Cardinality({x}) = 1
    BY FS_Singleton
  <1>2. IsFiniteSet({x} \X S) /\ Cardinality({x} \X S) = 1 * Cardinality(S)
    BY <1>1, FS_Product
  <1>3. Cardinality(S) \in Nat
    BY FS_CardinalityType
  <1> QED
    BY <1>2, <1>3

LEMMA TriesCount ==
    /\ MaxTries \in Nat \ {0}
    /\ IsFiniteSet(1..MaxTries) /\ Cardinality(1..MaxTries) = MaxTries
  BY WebhookAssumption, FS_Interval

LEMMA PendingFinite ==
    ASSUME NEW d
    PROVE  IsFiniteSet(Pending(d)) /\ Cardinality(Pending(d)) \in Nat
  <1>1. IsFiniteSet(JobId \X (1..MaxTries))
    BY WebhookAssumption, TriesCount, FS_Product
  <1>2. Pending(d) \subseteq JobId \X (1..MaxTries)
    BY DEF Pending
  <1> QED
    BY <1>1, <1>2, FS_Subset, FS_CardinalityType

\* After a step no job owes more than before, but for those in K, which owe a
\* series each.
LEMMA PendingBy ==
    ASSUME NEW d \in Delivery, NEW K \in SUBSET JobId,
           \A i \in JobId \ K : job'[i].delivery = d =>
              \/ Owed(job'[i]) = {}
              \/ job[i].delivery = d /\ Owed(job'[i]) \subseteq Owed(job[i])
    PROVE  Pending(d)' \subseteq Pending(d) \cup (K \X (1..MaxTries))
  BY DEF Pending, Owed

LEMMA Distributes ==
    ASSUME NEW t \in Nat, NEW a \in Nat, NEW b \in Nat
    PROVE  t * (1 + (a + b)) = t * (1 + a) + b * t
  OBVIOUS

\* A step pays for new series with interruptions.
LEMMA PaidByCuts ==
    ASSUME TypeInv, NEW d \in Delivery, Paid(d), NEW K \in SUBSET JobId,
           Pending(d)' \subseteq Pending(d) \cup (K \X (1..MaxTries)),
           cuts'[d] = cuts[d] + Cardinality(K), posts'[d] = posts[d],
           row'[d] = "ABSENT" => row[d] = "ABSENT",
           d \in dispatching' => row[d] = "ABSENT" \/ d \in dispatching
    PROVE  Paid(d)'
  <1>1. IsFiniteSet(K) /\ Cardinality(K) \in Nat
    BY WebhookAssumption, FS_Subset, FS_CardinalityType
  <1>2. /\ IsFiniteSet(K \X (1..MaxTries))
        /\ Cardinality(K \X (1..MaxTries)) = Cardinality(K) * MaxTries
    BY <1>1, TriesCount, FS_Product
  <1>3. /\ Cardinality(Pending(d)) \in Nat /\ Cardinality(Pending(d)') \in Nat
        /\ Cardinality(Pending(d)')
             =< Cardinality(Pending(d)) + Cardinality(K) * MaxTries
    BY <1>2, PendingFinite, SetGrows
  <1>4. posts[d] \in Nat /\ cuts[d] \in Nat /\ MaxTries \in Nat
    BY TriesCount DEF TypeInv, TypeOK
  <1>5. Reserve(d) \in Nat /\ Reserve(d)' \in Nat /\ Reserve(d)' =< Reserve(d)
    BY <1>4 DEF Reserve
  <1>6. MaxTries * (1 + (cuts[d] + Cardinality(K)))
          = MaxTries * (1 + cuts[d]) + Cardinality(K) * MaxTries
    BY <1>1, <1>4, Distributes
  <1>7. /\ MaxTries * (1 + cuts[d]) \in Nat /\ Cardinality(K) * MaxTries \in Nat
    BY <1>1, <1>4
  <1> DEFINE old == Cardinality(Pending(d))
             new == Cardinality(Pending(d)')
             more == Cardinality(K) * MaxTries
             due == MaxTries * (1 + cuts[d])
  <1>8. /\ posts[d] + old + Reserve(d) =< due
        /\ new =< old + more
        /\ old \in Nat /\ new \in Nat /\ more \in Nat /\ due \in Nat
    BY <1>3, <1>7 DEF Paid
  <1> HIDE DEF old, new, more, due
  <1>9. posts[d] + new + Reserve(d)' =< due + more
    BY <1>4, <1>5, <1>8
  <1>10. MaxTries * (1 + cuts'[d]) = due + more
    BY <1>6 DEF due, more
  <1> QED
    BY <1>9, <1>10 DEF Paid, new

\* A step after which nobody owes more.
LEMMA PaidStays ==
    ASSUME TypeInv, NEW d \in Delivery, Paid(d),
           \A i \in JobId : job'[i].delivery = d =>
              \/ Owed(job'[i]) = {}
              \/ job[i].delivery = d /\ Owed(job'[i]) \subseteq Owed(job[i]),
           cuts'[d] >= cuts[d], cuts'[d] \in Nat, posts'[d] = posts[d],
           row'[d] = "ABSENT" => row[d] = "ABSENT",
           d \in dispatching' => row[d] = "ABSENT" \/ d \in dispatching
    PROVE  Paid(d)'
  <1>1. Pending(d)' \subseteq Pending(d)
    BY DEF Pending
  <1>2. Cardinality(Pending(d)') =< Cardinality(Pending(d))
    BY <1>1, PendingFinite, FS_Subset
  <1>3. Cardinality(Pending(d)) \in Nat /\ Cardinality(Pending(d)') \in Nat
    BY <1>1, PendingFinite, FS_Subset, FS_CardinalityType
  <1>4. posts[d] \in Nat /\ cuts[d] \in Nat /\ MaxTries \in Nat
    BY TriesCount DEF TypeInv, TypeOK
  <1>5. Reserve(d) \in Nat /\ Reserve(d)' \in Nat /\ Reserve(d)' =< Reserve(d)
    BY <1>4 DEF Reserve
  <1> DEFINE old == Cardinality(Pending(d))
             new == Cardinality(Pending(d)')
  <1>6. MaxTries * (1 + cuts[d]) =< MaxTries * (1 + cuts'[d])
    <2> DEFINE b == cuts'[d] - cuts[d]
    <2>1. b \in Nat /\ cuts'[d] = cuts[d] + b
      BY <1>4
    <2> HIDE DEF b
    <2>2. MaxTries * (1 + cuts'[d]) = MaxTries * (1 + cuts[d]) + b * MaxTries
      BY <1>4, <2>1, Distributes
    <2>3. MaxTries * (1 + cuts[d]) \in Nat /\ b * MaxTries \in Nat
      BY <1>4, <2>1
    <2> QED
      BY <2>2, <2>3
  <1>7. /\ MaxTries * (1 + cuts[d]) \in Nat /\ MaxTries * (1 + cuts'[d]) \in Nat
    BY <1>4
  <1> DEFINE was == MaxTries * (1 + cuts[d])
             is == MaxTries * (1 + cuts'[d])
  <1>8. /\ posts[d] + old + Reserve(d) =< was /\ was =< is
        /\ new =< old /\ old \in Nat /\ new \in Nat /\ was \in Nat /\ is \in Nat
    BY <1>2, <1>3, <1>6, <1>7 DEF Paid
  <1> HIDE DEF old, new, was, is
  <1>9. posts[d] + new + Reserve(d)' =< is
    BY <1>4, <1>5, <1>8
  <1> QED
    BY <1>9 DEF Paid, new, is

\* A run that moves on keeps its delivery and its number.
LEMMA MovesOnly ==
    ASSUME TypeInv, NEW j \in JobId, NEW p,
           Goto(j, p) \/ \E r : GotoWith(j, p, r)
    PROVE  /\ job'[j].pc = p /\ job'[j].made = job[j].made
           /\ job'[j].delivery = job[j].delivery
           /\ \A i \in JobId \ {j} : job'[i] = job[i]
  <1>1. job \in [JobId -> Job] /\ job[j] \in Job
    BY DEF TypeInv, TypeOK
  <1>2. CASE Goto(j, p)
    <2>1. job' = [job EXCEPT ![j] = [@ EXCEPT !.pc = p]]
      BY <1>2 DEF Goto
    <2> QED
      BY <1>1, <2>1 DEF Job
  <1>3. ASSUME NEW r, GotoWith(j, p, r)
        PROVE  /\ job'[j].pc = p /\ job'[j].made = job[j].made
               /\ job'[j].delivery = job[j].delivery
               /\ \A i \in JobId \ {j} : job'[i] = job[i]
    BY <1>1, <1>3 DEF GotoWith, Job
  <1> QED
    BY <1>2, <1>3

\* The steps that send nothing and add no job.
Quiet(j) ==
    \/ Start(j) \/ Load(j) \/ Resolve(j) \/ MarkDelivered(j) \/ MarkFailed(j)
    \/ ScheduleRetry(j) \/ Complete(j) \/ Fail(j) \/ Throw(j)

LEMMA QuietMoves ==
    ASSUME TypeInv, TriesInv, NEW j \in JobId, Quiet(j)
    PROVE  /\ \A i \in JobId \ {j} : job'[i] = job[i]
           /\ job'[j].made = job[j].made \/ job'[j].made = 0
           /\ job'[j].pc = "requeue" => job'[j].made + 1 < MaxTries
           /\ \/ Owed(job'[j]) = {}
              \/ /\ job'[j].delivery = job[j].delivery
                 /\ Owed(job'[j]) \subseteq Owed(job[j])
  <1> USE DEF At
  <1>0. job \in [JobId -> Job] /\ job[j].made \in Nat /\ MaxTries \in Nat \ {0}
    BY TriesCount DEF TypeInv, TypeOK, Job
  <1>1. CASE Start(j)
    BY <1>0, <1>1, MovesOnly DEF Start, Owed
  <1>2. CASE Load(j)
    <2>1. \/ Goto(j, "exit") \/ GotoWith(j, "verdict", "no")
          \/ Goto(j, "resolve")
      BY <1>2 DEF Load
    <2>2. job'[j].pc \in {"exit", "verdict", "resolve"}
      BY <2>1, MovesOnly
    <2>3. /\ job'[j].made = job[j].made /\ job'[j].delivery = job[j].delivery
          /\ \A i \in JobId \ {j} : job'[i] = job[i]
      BY <2>1, MovesOnly
    <2> QED
      BY <1>0, <1>2, <2>2, <2>3 DEF Load, Owed
  <1>3. CASE Resolve(j)
    <2>1. \/ GotoWith(j, "verdict", "no") \/ GotoWith(j, "verdict", "none")
          \/ Goto(j, "post")
      BY <1>3 DEF Resolve
    <2>2. job'[j].pc \in {"verdict", "post"}
      BY <2>1, MovesOnly
    <2>3. /\ job'[j].made = job[j].made /\ job'[j].delivery = job[j].delivery
          /\ \A i \in JobId \ {j} : job'[i] = job[i]
      BY <2>1, MovesOnly
    <2> QED
      BY <1>0, <1>3, <2>2, <2>3 DEF Resolve, Owed
  <1>4. CASE MarkDelivered(j) \/ MarkFailed(j)
    <2>1. Goto(j, "exit")
      BY <1>4 DEF MarkDelivered, MarkFailed
    <2> QED
      BY <1>0, <2>1, MovesOnly DEF Owed
  <1>5. CASE ScheduleRetry(j)
    <2>1. /\ Goto(j, "requeue") /\ job[j].pc = "verdict"
          /\ job[j].made + 1 < MaxTries
      BY <1>5 DEF ScheduleRetry, RetryDue, HasRetryDelay
    <2> QED
      BY <1>0, <2>1, MovesOnly DEF Owed
  <1>6. CASE Complete(j) \/ Fail(j)
    <2>1. job' = [job EXCEPT ![j] = FreeJob]
      BY <1>6 DEF Complete, Fail
    <2>2. FreeJob.pc = "free" /\ FreeJob.made = 0
      BY DEF FreeJob, NewJob
    <2> QED
      BY <1>0, <2>1, <2>2 DEF Owed
  <1>7. CASE Throw(j)
    BY <1>0, <1>7, MovesOnly DEF Throw, Owed
  <1> QED
    BY <1>1, <1>2, <1>3, <1>4, <1>5, <1>6, <1>7 DEF Quiet

LEMMA QuietPosts ==
    ASSUME TypeInv, TypeInv', PostsInv, NEW j \in JobId, Quiet(j)
    PROVE  PostsInv'
  <1> USE DEF At, store, history
  <1>1. /\ \A i \in JobId \ {j} : job'[i] = job[i]
        /\ job'[j].made = job[j].made \/ job'[j].made = 0
        /\ job'[j].pc = "requeue" => job'[j].made + 1 < MaxTries
        /\ \/ Owed(job'[j]) = {}
           \/ /\ job'[j].delivery = job[j].delivery
              /\ Owed(job'[j]) \subseteq Owed(job[j])
    BY QuietMoves DEF PostsInv
  <1>2. /\ posts' = posts /\ dispatching' = dispatching
        /\ \A d \in Delivery : row'[d] = "ABSENT" => row[d] = "ABSENT"
    BY DEF Quiet, Start, Load, Resolve, MarkDelivered, MarkFailed, ScheduleRetry,
       Complete, Fail, Throw, TypeInv, TypeOK
  <1>3. \A d \in Delivery : cuts'[d] >= cuts[d] /\ cuts'[d] \in Nat
    <2>1. cuts \in [Delivery -> Nat] /\ cuts' \in [Delivery -> Nat]
      BY DEF TypeInv, TypeOK
    <2>2. CASE Throw(j)
      <3>1. cuts' = [cuts EXCEPT ![job[j].delivery] = @ + 1]
        BY <2>2 DEF Throw
      <3> QED
        BY <2>1, <3>1
    <2>3. CASE ~Throw(j)
      <3>1. cuts' = cuts
        BY <2>3 DEF Quiet, Start, Load, Resolve, MarkDelivered, MarkFailed,
           ScheduleRetry, Complete, Fail
      <3> QED
        BY <2>1, <3>1
    <2> QED
      BY <2>2, <2>3
  <1>4. TriesInv'
    <2>1. \A i \in JobId :
             /\ job'[i].made < MaxTries
             /\ job'[i].pc = "requeue" => job'[i].made + 1 < MaxTries
      BY <1>1, TriesCount DEF PostsInv, TriesInv
    <2>2. \A d \in dispatching : d \in Delivery /\ row[d] # "ABSENT"
      BY DEF PostsInv, TriesInv, TypeInv, TypeOK
    <2> QED
      BY <1>2, <2>1, <2>2 DEF TriesInv
  <1>5. ASSUME NEW d \in Delivery PROVE Paid(d)'
    <2>1. \A i \in JobId : job'[i].delivery = d =>
             \/ Owed(job'[i]) = {}
             \/ job[i].delivery = d /\ Owed(job'[i]) \subseteq Owed(job[i])
      BY <1>1
    <2> QED
      BY <1>2, <1>3, <2>1, PaidStays DEF PostsInv
  <1> QED
    BY <1>4, <1>5 DEF PostsInv

\* A request is one of those the run still had.
LEMMA PostPosts ==
    ASSUME TypeInv, TypeInv', PostsInv, NEW j \in JobId, Post(j)
    PROVE  PostsInv'
  <1> USE DEF At
  <1> PICK e \in Delivery : job[j].delivery = e
    BY DEF Post, TypeInv, Loaded
  <1> DEFINE m == job[j].made
             one == <<j, MaxTries - m>>
  <1>0. /\ job[j].pc = "post"
        /\ m \in Nat /\ m < MaxTries /\ MaxTries \in Nat
    BY TriesCount DEF Post, TypeInv, TypeOK, Loaded, Job, PostsInv, TriesInv
  <1>1. /\ job'[j].pc = "verdict" /\ job'[j].made = m /\ job'[j].delivery = e
        /\ \A i \in JobId \ {j} : job'[i] = job[i]
    <2>1. \E a : GotoWith(j, "verdict", a)
      BY DEF Post
    <2> QED
      BY <2>1, MovesOnly
  <1>2. /\ row' = row /\ dispatching' = dispatching /\ cuts' = cuts
        /\ posts' = [posts EXCEPT ![e] = @ + 1]
    BY DEF Post, store
  <1>3. TriesInv'
    BY <1>1, <1>2 DEF PostsInv, TriesInv
  <1>4. Owed(job'[j]) \subseteq Owed(job[j]) \ {MaxTries - m}
    BY <1>0, <1>1 DEF Owed
  <1>5. MaxTries - m \in Owed(job[j])
    BY <1>0 DEF Owed
  <1>6. ASSUME NEW d \in Delivery, d # e PROVE Paid(d)'
    <2>1. \A i \in JobId : job'[i].delivery = d =>
             \/ Owed(job'[i]) = {}
             \/ job[i].delivery = d /\ Owed(job'[i]) \subseteq Owed(job[i])
      BY <1>1, <1>6
    <2>2. posts'[d] = posts[d] /\ cuts[d] \in Nat
      BY <1>2, <1>6 DEF TypeInv, TypeOK
    <2>3. cuts'[d] = cuts[d] /\ cuts'[d] >= cuts[d]
      BY <1>2, <2>2
    <2> QED
      BY <1>2, <2>1, <2>2, <2>3, PaidStays DEF PostsInv
  <1>7. Paid(e)'
    <2>1. one \in Pending(e)
      BY <1>5 DEF Pending, Owed
    <2>2. Pending(e)' \subseteq Pending(e) \ {one}
      BY <1>1, <1>4 DEF Pending
    <2> HIDE DEF one, m
    <2>3. /\ IsFiniteSet(Pending(e) \ {one})
          /\ Cardinality(Pending(e) \ {one}) = Cardinality(Pending(e)) - 1
      BY <2>1, PendingFinite, FS_RemoveElement
    <2> DEFINE P == Pending(e)'
    <2>4. P \subseteq Pending(e) \ {one}
      BY <2>2
    <2> HIDE DEF P
    <2>5. Cardinality(P) =< Cardinality(Pending(e)) - 1 /\ Cardinality(P) \in Nat
      BY <2>3, <2>4, FS_Subset, FS_CardinalityType
    <2>6. /\ Cardinality(Pending(e)) \in Nat /\ posts[e] \in Nat
          /\ posts'[e] = posts[e] + 1
      BY <1>0, <1>2, PendingFinite DEF TypeInv, TypeOK
    <2>7. Reserve(e)' = Reserve(e) /\ Reserve(e) \in Nat
      BY <1>0, <1>2 DEF Reserve
    <2> DEFINE due == MaxTries * (1 + cuts[e])
    <2>8. due \in Nat
      BY <1>0 DEF TypeInv, TypeOK
    <2>9. posts[e] + Cardinality(Pending(e)) + Reserve(e) =< due
      BY <1>0 DEF PostsInv, Paid
    <2> HIDE DEF due
    <2>10. posts'[e] + Cardinality(P) + Reserve(e)' =< due
      BY <2>5, <2>6, <2>7, <2>8, <2>9
    <2>11. posts'[e] + Cardinality(P) + Reserve(e)' =< MaxTries * (1 + cuts'[e])
      BY <1>2, <2>10 DEF due
    <2> QED
      BY <2>11 DEF Paid, P
  <1> QED
    BY <1>3, <1>6, <1>7 DEF PostsInv

\* The next job owes what its maker owed.
LEMMA RequeuePosts ==
    ASSUME TypeInv, TypeInv', PostsInv, NEW j \in JobId, Requeue(j)
    PROVE  PostsInv'
  <1> USE DEF At
  <1> PICK e \in Delivery : job[j].delivery = e
    BY DEF Requeue, TypeInv, Loaded
  <1> DEFINE m == job[j].made
             next == NewJob(e, m + 1)
  <1>0. /\ job[j].pc = "requeue"
        /\ m \in Nat /\ m + 1 < MaxTries /\ MaxTries \in Nat
        /\ job \in [JobId -> Job] /\ job[j] \in Job
    BY TriesCount DEF Requeue, TypeInv, TypeOK, Loaded, Job, PostsInv, TriesInv
  <1>1. PICK k \in JobId : /\ job[k].pc = "free"
                           /\ job' = [job EXCEPT ![j].pc = "exit", ![k] = next]
    BY DEF Requeue
  <1>2. next.pc = "waiting" /\ next.made = m + 1 /\ next.delivery = e
    BY DEF NewJob
  <1>3. j # k
    BY <1>0, <1>1
  <1>4. /\ job'[j].pc = "exit" /\ job'[j].made = m /\ job'[j].delivery = e
        /\ job'[k] = next
        /\ \A i \in JobId \ {j, k} : job'[i] = job[i]
    BY <1>0, <1>1, <1>3 DEF Job
  <1>5. UNCHANGED <<row, dispatching, cuts, posts>>
    BY DEF Requeue, store, history
  <1>6. Owed(job'[j]) = {} /\ Owed(job'[k]) = Owed(job[j])
    BY <1>0, <1>2, <1>4 DEF Owed
  <1>7. TriesInv'
    BY <1>0, <1>2, <1>4, <1>5 DEF PostsInv, TriesInv
  <1> HIDE DEF next
  <1>8. ASSUME NEW d \in Delivery, d # e PROVE Paid(d)'
    <2>1. \A i \in JobId : job'[i].delivery = d =>
             \/ Owed(job'[i]) = {}
             \/ job[i].delivery = d /\ Owed(job'[i]) \subseteq Owed(job[i])
      BY <1>2, <1>4, <1>8
    <2>2. cuts[d] \in Nat
      BY DEF TypeInv, TypeOK
    <2> QED
      BY <1>5, <2>1, <2>2, PaidStays DEF PostsInv
  <1>9. Paid(e)'
    <2> DEFINE S == Owed(job[j])
               P == Pending(e)'
               A == Pending(e) \ ({j} \X S)
    <2>1. P \subseteq A \cup ({k} \X S)
      BY <1>4, <1>6 DEF Pending, Owed
    <2>2. Pending(e) \cap ({j} \X S) = {j} \X S
      BY DEF Pending, Owed
    <2>3. IsFiniteSet(S)
      BY TriesCount, FS_Subset DEF Owed
    <2> HIDE DEF m, S, P
    <2>4. /\ IsFiniteSet({j} \X S) /\ Cardinality({j} \X S) = Cardinality(S)
          /\ IsFiniteSet({k} \X S) /\ Cardinality({k} \X S) = Cardinality(S)
      BY <2>3, PairsCount
    <2>5. /\ IsFiniteSet(A)
          /\ Cardinality(A) = Cardinality(Pending(e)) - Cardinality(S)
      <3>1. IsFiniteSet(Pending(e))
        BY PendingFinite
      <3> HIDE DEF A
      <3>2. IsFiniteSet(Pending(e) \ ({j} \X S))
        /\ Cardinality(Pending(e) \ ({j} \X S))
             = Cardinality(Pending(e)) - Cardinality(Pending(e) \cap ({j} \X S))
        BY <3>1, FS_Difference
      <3> QED
        BY <2>2, <2>4, <3>2 DEF A
    <2> HIDE DEF A
    <2>6. /\ Cardinality(P) =< Cardinality(A) + Cardinality({k} \X S)
          /\ Cardinality(P) \in Nat /\ Cardinality(A) \in Nat
      BY <2>1, <2>4, <2>5, SetGrows
    <2>7. Cardinality(S) \in Nat /\ Cardinality(Pending(e)) \in Nat
      BY <2>3, PendingFinite, FS_CardinalityType
    <2>8. Cardinality(P) =< Cardinality(Pending(e))
      BY <2>4, <2>5, <2>6, <2>7
    <2>9. /\ Reserve(e)' = Reserve(e) /\ Reserve(e) \in Nat /\ posts[e] \in Nat
          /\ MaxTries * (1 + cuts[e]) \in Nat
      BY <1>0, <1>5 DEF Reserve, TypeInv, TypeOK
    <2>10. Paid(e)
      BY <1>0 DEF PostsInv
    <2> DEFINE due == MaxTries * (1 + cuts[e])
    <2>11. /\ posts[e] + Cardinality(Pending(e)) + Reserve(e) =< due
           /\ due \in Nat
      BY <2>9, <2>10 DEF Paid
    <2> HIDE DEF due
    <2>12. posts[e] + Cardinality(P) + Reserve(e) =< due
      BY <2>6, <2>7, <2>8, <2>9, <2>11
    <2>13. posts'[e] + Cardinality(P) + Reserve(e)' =< MaxTries * (1 + cuts'[e])
      BY <1>5, <2>9, <2>12 DEF due
    <2> QED
      BY <2>13 DEF Paid, P
  <1> QED
    BY <1>7, <1>8, <1>9 DEF PostsInv

\* What takes the place of an interrupted run starts no later try.
LEMMA SuccessorOwes ==
    ASSUME NEW r \in Job, r.made < MaxTries
    PROVE  /\ AfterStall(r).made < MaxTries /\ AfterStall(r).pc # "requeue"
           /\ AfterCrash(r).made < MaxTries /\ AfterCrash(r).pc # "requeue"
           /\ r.slot = "lost" => Owed(AfterCrash(r)) = {}
           /\ r.pc = "stalled" => Owed(AfterStall(r)) \subseteq Owed(r)
           /\ AfterStall(r).delivery = r.delivery \/ Owed(AfterStall(r)) = {}
           /\ AfterCrash(r).delivery = r.delivery \/ Owed(AfterCrash(r)) = {}
  BY TriesCount DEF AfterStall, AfterCrash, NewJob, FreeJob, Job, Owed

\* A stalled run and the job that replaces it: one series more, one cut more.
LEMMA StallPosts ==
    ASSUME TypeInv, TypeInv', PostsInv, NEW j \in JobId, Stall(j)
    PROVE  PostsInv'
  <1> USE DEF At
  <1> PICK e \in Delivery : job[j].delivery = e
    BY DEF Stall, Active, Running, TypeInv, Loaded
  <1>0. /\ job \in [JobId -> Job] /\ job[j] \in Job /\ job[j].made < MaxTries
    BY DEF TypeInv, TypeOK, PostsInv, TriesInv
  <1> PICK k \in JobId :
         /\ job[k].pc = "free"
         /\ job' = [job EXCEPT ![j].slot = "lost", ![k] = AfterStall(job[j])]
    BY DEF Stall
  <1>1. j # k
    BY DEF Stall, Active, Running
  <1>2. /\ job'[k] = AfterStall(job[j])
        /\ job'[j] = [job[j] EXCEPT !.slot = "lost"]
        /\ \A i \in JobId \ {j, k} : job'[i] = job[i]
    BY <1>0, <1>1
  <1>3. /\ job'[j].pc = job[j].pc /\ job'[j].made = job[j].made
        /\ job'[j].delivery = e /\ Owed(job'[j]) = Owed(job[j])
    BY <1>0, <1>2 DEF Job, Owed
  <1>4. /\ UNCHANGED <<row, dispatching, posts>>
        /\ cuts' = [cuts EXCEPT ![e] = @ + 1]
    BY DEF Stall, store, history
  <1>5. TriesInv'
    BY <1>0, <1>2, <1>3, <1>4, SuccessorOwes DEF PostsInv, TriesInv
  <1>6. ASSUME NEW d \in Delivery, d # e PROVE Paid(d)'
    <2>1. \A i \in JobId : job'[i].delivery = d =>
             \/ Owed(job'[i]) = {}
             \/ job[i].delivery = d /\ Owed(job'[i]) \subseteq Owed(job[i])
      BY <1>0, <1>2, <1>3, <1>6, SuccessorOwes
    <2>2. cuts'[d] = cuts[d] /\ cuts[d] \in Nat /\ cuts'[d] >= cuts[d]
      BY <1>4, <1>6 DEF TypeInv, TypeOK
    <2> QED
      BY <1>4, <2>1, <2>2, PaidStays DEF PostsInv
  <1>7. Paid(e)'
    <2>1. \A i \in JobId \ {k} : job'[i].delivery = e =>
             \/ Owed(job'[i]) = {}
             \/ job[i].delivery = e /\ Owed(job'[i]) \subseteq Owed(job[i])
      BY <1>2, <1>3
    <2>2. Pending(e)' \subseteq Pending(e) \cup ({k} \X (1..MaxTries))
      BY <2>1, PendingBy
    <2>3. cuts'[e] = cuts[e] + Cardinality({k})
      BY <1>4, FS_Singleton DEF TypeInv, TypeOK
    <2> QED
      BY <1>4, <2>2, <2>3, PaidByCuts DEF PostsInv
  <1> QED
    BY <1>5, <1>6, <1>7 DEF PostsInv

\* A crash pays for each run that had its job.
LEMMA CrashPosts ==
    ASSUME TypeInv, TypeInv', PostsInv, Crash
    PROVE  PostsInv'
  <1>0. /\ job \in [JobId -> Job]
        /\ \A i \in JobId : job[i].made < MaxTries
    BY DEF TypeInv, TypeOK, PostsInv, TriesInv
  <1>1. \A i \in JobId : job'[i] = IF i \in Active THEN AfterCrash(job[i])
                                   ELSE job[i]
    BY DEF Crash
  <1>2. /\ UNCHANGED <<row, dispatching, posts>>
        /\ \A d \in Delivery : cuts'[d] = cuts[d] + Cardinality(Owning(d))
    BY DEF Crash, store, history
  <1>3. TriesInv'
    BY <1>0, <1>1, <1>2, SuccessorOwes DEF PostsInv, TriesInv
  <1>4. ASSUME NEW d \in Delivery PROVE Paid(d)'
    <2>1. Owning(d) \subseteq JobId
      BY DEF Owning, Active
    <2>2. ASSUME NEW i \in JobId \ Owning(d), job'[i].delivery = d
          PROVE  \/ Owed(job'[i]) = {}
                 \/ /\ job[i].delivery = d
                    /\ Owed(job'[i]) \subseteq Owed(job[i])
      <3>1. CASE i \notin Active
        BY <1>1, <2>2, <3>1
      <3>2. CASE i \in Active /\ job[i].slot = "lost"
        BY <1>0, <1>1, <3>2, SuccessorOwes
      <3>3. CASE i \in Active /\ job[i].slot # "lost"
        <4>1. job[i].slot = "own"
          BY <1>0, <3>3 DEF Job
        <4>2. job[i].delivery # d
          BY <2>2, <3>3, <4>1 DEF Owning
        <4> QED
          BY <1>0, <1>1, <2>2, <3>3, <4>2, SuccessorOwes
      <3> QED
        BY <3>1, <3>2, <3>3
    <2>3. Pending(d)' \subseteq Pending(d) \cup (Owning(d) \X (1..MaxTries))
      <3> DEFINE K == Owning(d)
      <3>1. /\ K \in SUBSET JobId
            /\ \A i \in JobId \ K : job'[i].delivery = d =>
                  \/ Owed(job'[i]) = {}
                  \/ job[i].delivery = d /\ Owed(job'[i]) \subseteq Owed(job[i])
        BY <2>1, <2>2
      <3> HIDE DEF K
      <3>2. Pending(d)' \subseteq Pending(d) \cup (K \X (1..MaxTries))
        BY <3>1, PendingBy
      <3> QED
        BY <3>2 DEF K
    <2>4. /\ posts'[d] = posts[d] /\ row'[d] = row[d]
          /\ d \in dispatching' => d \in dispatching
      BY <1>2
    <2> QED
      BY <1>2, <2>1, <2>3, <2>4, PaidByCuts DEF PostsInv
  <1> QED
    BY <1>3, <1>4 DEF PostsInv

LEMMA RecoverPosts ==
    ASSUME TypeInv, TypeInv', PostsInv, NEW j \in JobId, RecoverStalled(j)
    PROVE  PostsInv'
  <1>0. /\ job \in [JobId -> Job] /\ job[j] \in Job /\ job[j].made < MaxTries
        /\ job[j].pc = "stalled"
    BY DEF TypeInv, TypeOK, PostsInv, TriesInv, RecoverStalled, At
  <1>1. /\ job'[j] = AfterStall(job[j])
        /\ \A i \in JobId \ {j} : job'[i] = job[i]
    BY <1>0 DEF RecoverStalled
  <1>2. UNCHANGED <<row, dispatching, posts, cuts>>
    BY DEF RecoverStalled, store, history
  <1>3. TriesInv'
    BY <1>0, <1>1, <1>2, SuccessorOwes DEF PostsInv, TriesInv
  <1>4. ASSUME NEW d \in Delivery PROVE Paid(d)'
    <2>1. \A i \in JobId : job'[i].delivery = d =>
             \/ Owed(job'[i]) = {}
             \/ job[i].delivery = d /\ Owed(job'[i]) \subseteq Owed(job[i])
      BY <1>0, <1>1, SuccessorOwes
    <2>2. cuts[d] \in Nat /\ cuts'[d] = cuts[d] /\ cuts'[d] >= cuts[d]
      BY <1>2 DEF TypeInv, TypeOK
    <2> QED
      BY <1>2, <2>1, <2>2, PaidStays DEF PostsInv
  <1> QED
    BY <1>3, <1>4 DEF PostsInv

\* The first job owes the series that the dispatch had in reserve.
LEMMA EnqueuePosts ==
    ASSUME TypeInv, TypeInv', PostsInv, NEW e \in Delivery, EnqueueWebhook(e)
    PROVE  PostsInv'
  <1> USE DEF At
  <1> PICK k \in JobId : /\ job[k].pc = "free"
                         /\ job' = [job EXCEPT ![k] = NewJob(e, 0)]
    BY DEF EnqueueWebhook
  <1>0. job \in [JobId -> Job] /\ MaxTries \in Nat \ {0}
    BY TriesCount DEF TypeInv, TypeOK
  <1>1. /\ job'[k] = NewJob(e, 0)
        /\ \A i \in JobId \ {k} : job'[i] = job[i]
    BY <1>0
  <1>2. /\ NewJob(e, 0).pc = "waiting" /\ NewJob(e, 0).made = 0
        /\ NewJob(e, 0).delivery = e
    BY DEF NewJob
  <1>3. /\ UNCHANGED <<row, posts, cuts>> /\ e \in dispatching
        /\ dispatching' = dispatching \ {e} /\ row[e] # "ABSENT"
    BY DEF EnqueueWebhook, store, history, PostsInv, TriesInv
  <1>4. TriesInv'
    BY <1>0, <1>1, <1>2, <1>3 DEF PostsInv, TriesInv
  <1>5. ASSUME NEW d \in Delivery, d # e PROVE Paid(d)'
    <2>1. \A i \in JobId : job'[i].delivery = d =>
             \/ Owed(job'[i]) = {}
             \/ job[i].delivery = d /\ Owed(job'[i]) \subseteq Owed(job[i])
      BY <1>1, <1>2, <1>5
    <2>2. cuts[d] \in Nat /\ cuts'[d] = cuts[d] /\ cuts'[d] >= cuts[d]
      BY <1>3 DEF TypeInv, TypeOK
    <2> QED
      BY <1>3, <2>1, <2>2, PaidStays DEF PostsInv
  <1>6. Paid(e)'
    <2>1. \A i \in JobId \ {k} : job'[i].delivery = e =>
             \/ Owed(job'[i]) = {}
             \/ job[i].delivery = e /\ Owed(job'[i]) \subseteq Owed(job[i])
      BY <1>1
    <2>2. Pending(e)' \subseteq Pending(e) \cup ({k} \X (1..MaxTries))
      BY <2>1, PendingBy
    <2> DEFINE P == Pending(e)'
    <2>3. P \subseteq Pending(e) \cup ({k} \X (1..MaxTries))
      BY <2>2
    <2> HIDE DEF P
    <2>4. /\ IsFiniteSet({k} \X (1..MaxTries))
          /\ Cardinality({k} \X (1..MaxTries)) = MaxTries
      BY TriesCount, PairsCount
    <2>5. /\ Cardinality(P) \in Nat /\ Cardinality(Pending(e)) \in Nat
          /\ Cardinality(P) =< Cardinality(Pending(e)) + MaxTries
      BY <2>3, <2>4, PendingFinite, SetGrows
    <2>6. Reserve(e) = MaxTries /\ Reserve(e)' = 0
      BY <1>3 DEF Reserve
    <2> DEFINE due == MaxTries * (1 + cuts[e])
    <2>7. /\ posts[e] \in Nat /\ due \in Nat
          /\ posts[e] + Cardinality(Pending(e)) + Reserve(e) =< due
      BY <1>0 DEF TypeInv, TypeOK, PostsInv, Paid
    <2> HIDE DEF due
    <2>8. posts[e] + Cardinality(P) + 0 =< due
      BY <1>0, <2>5, <2>6, <2>7
    <2>9. posts'[e] + Cardinality(P) + Reserve(e)' =< MaxTries * (1 + cuts'[e])
      BY <1>3, <2>6, <2>8 DEF due
    <2> QED
      BY <2>9 DEF Paid, P
  <1> QED
    BY <1>4, <1>5, <1>6 DEF PostsInv

LEMMA RestPosts ==
    ASSUME TypeInv, TypeInv', PostsInv,
           \/ \E d \in Delivery : Dispatch(d) \/ LoseDispatch(d)
           \/ \E h : ChangeHook(h)
           \/ UNCHANGED vars
    PROVE  PostsInv'
  <1> USE DEF store, history
  <1>1. UNCHANGED <<job, posts, cuts>>
    BY DEF Dispatch, LoseDispatch, ChangeHook, vars
  <1>2. \A d \in Delivery :
          /\ row'[d] = "ABSENT" => row[d] = "ABSENT"
          /\ d \in dispatching' => d \in dispatching \/ row[d] = "ABSENT"
          /\ d \in dispatching' /\ d \notin dispatching => row'[d] # "ABSENT"
          /\ d \in dispatching => row'[d] # "ABSENT"
    <2>1. ASSUME NEW e \in Delivery, Dispatch(e)
          PROVE  /\ row'[e] = "PENDING" /\ row[e] = "ABSENT"
                 /\ \A d \in Delivery \ {e} : row'[d] = row[d]
                 /\ dispatching' = dispatching \cup {e}
      BY <2>1 DEF Dispatch, TypeInv, TypeOK
    <2>2. CASE \E e \in Delivery : Dispatch(e)
      BY <2>1, <2>2 DEF PostsInv, TriesInv
    <2>3. CASE \/ \E d \in Delivery : LoseDispatch(d)
               \/ \E h : ChangeHook(h)
               \/ UNCHANGED vars
      BY <2>3 DEF LoseDispatch, ChangeHook, vars, PostsInv, TriesInv
    <2> QED
      BY <2>2, <2>3
  <1>3. dispatching' \subseteq Delivery
    BY DEF TypeInv, TypeOK
  <1>4. TriesInv'
    BY <1>1, <1>2, <1>3 DEF PostsInv, TriesInv
  <1>5. ASSUME NEW d \in Delivery PROVE Paid(d)'
    <2>1. cuts[d] \in Nat /\ cuts'[d] = cuts[d] /\ cuts'[d] >= cuts[d]
      BY <1>1 DEF TypeInv, TypeOK
    <2>2. \A i \in JobId : job'[i].delivery = d =>
             \/ Owed(job'[i]) = {}
             \/ job[i].delivery = d /\ Owed(job'[i]) \subseteq Owed(job[i])
      BY <1>1
    <2> QED
      BY <1>1, <1>2, <2>1, <2>2, PaidStays DEF PostsInv
  <1> QED
    BY <1>4, <1>5 DEF PostsInv

LEMMA PostsInit == Init => PostsInv
  <1> SUFFICES ASSUME Init PROVE PostsInv
    OBVIOUS
  <1>1. FreeJob.pc = "free" /\ FreeJob.made = 0
    BY DEF FreeJob, NewJob
  <1>2. TriesInv
    BY <1>1, TriesCount DEF Init, TriesInv
  <1>3. ASSUME NEW d \in Delivery PROVE Paid(d)
    <2>1. Pending(d) = {}
      BY <1>1 DEF Init, Pending, Owed
    <2>2. Cardinality(Pending(d)) = 0
      BY <2>1, FS_EmptySet
    <2>3. posts[d] = 0 /\ cuts[d] = 0 /\ Reserve(d) = MaxTries
      BY DEF Init, Reserve
    <2> QED
      BY <2>2, <2>3, TriesCount DEF Paid
  <1> QED
    BY <1>2, <1>3 DEF PostsInv

LEMMA PostsNext ==
    ASSUME TypeInv, PostsInv, [Next]_vars
    PROVE  PostsInv'
  <1>0. TypeInv'
    BY StepTypes, OtherTypes
  <1>1. ASSUME NEW j \in JobId,
               Step(j) \/ Throw(j) \/ Stall(j) \/ RecoverStalled(j)
        PROVE  PostsInv'
    <2>1. Quiet(j) \/ Post(j) \/ Requeue(j) \/ Stall(j) \/ RecoverStalled(j)
      BY <1>1 DEF Step, Quiet
    <2> QED
      BY <1>0, <2>1, QuietPosts, PostPosts, RequeuePosts, StallPosts,
         RecoverPosts
  <1> QED
    BY <1>0, <1>1, CrashPosts, EnqueuePosts, RestPosts DEF Next

\* A project receives an event at most MaxTries times for each life of its
\* delivery: each job carries the number of attempts to the next one, so that
\* the tries left are used up once, and only an interrupted run leaves two jobs
\* that carry the same number (scheduleRetry, attemptsMade).
THEOREM PostsPaid == Spec => []PostsBounded
  <1>1. TypeInv /\ PostsInv => PostsBounded
    <2> SUFFICES ASSUME TypeInv, PostsInv, NEW d \in Delivery
                 PROVE  posts[d] =< MaxTries * (1 + cuts[d])
      BY DEF PostsBounded
    <2> DEFINE due == MaxTries * (1 + cuts[d])
    <2>1. Cardinality(Pending(d)) \in Nat /\ Reserve(d) \in Nat
      BY PendingFinite, TriesCount DEF Reserve
    <2>2. posts[d] \in Nat /\ due \in Nat
      BY TriesCount DEF TypeInv, TypeOK
    <2>3. posts[d] + Cardinality(Pending(d)) + Reserve(d) =< due
      BY DEF PostsInv, Paid
    <2> HIDE DEF due
    <2>4. posts[d] =< due
      BY <2>1, <2>2, <2>3
    <2> QED
      BY <2>4 DEF due
  <1>2. TypeInv /\ PostsInv /\ [Next]_vars => PostsInv'
    BY PostsNext
  <1> QED
    BY <1>1, <1>2, PostsInit, Types, PTL DEF Spec
=============================================================================
