----------------------------- MODULE FleetProofs -----------------------------
(***************************************************************************)
(* Theorems about the sessions of an account, for any number of Session    *)
(* objects, handlers under way and disturbances.  The shape of the state   *)
(* comes first, then what one session is made of, whichever handler builds *)
(* it, then what the operators the handlers share do to every session,     *)
(* then each step of Next, and the four properties of FleetProperties.     *)
(* The last two sections count the handlers of each process and their      *)
(* places in its queue to Redis, which completes the type invariant.       *)
(***************************************************************************)
EXTENDS FleetProperties, FiniteSetTheorems, NaturalsInduction,
        WellFoundedInduction, TLAPS

-----------------------------------------------------------------------------
(* The shape of the state *)

\* The steps of the routes and of the health check belong to no session.
Route == {"stop", "spawn", "delete", "checking"}
TaskRow == {t \in [s : Sessions \cup {Nobody}, at : Steps,
                   then : Continuations, n : Int] :
               t.s = Nobody <=> t.at \in Route}
SessionMap == [Sessions -> SessionRecord]
TaskSet == {T \in SUBSET TaskRow : IsFiniteSet(T)}

Shape ==
    /\ line \in [status : Status, enabled : BOOLEAN]
    /\ creds \in BOOLEAN
    /\ owner \in Sessions \cup {Nobody}
    /\ beats \subseteq Sessions
    /\ mapped \in Sessions \cup {Nobody}
    /\ sess \in SessionMap
    /\ tasks \in TaskSet
    /\ worker \in {"up", "closing", "down"}
    /\ cli \in {"off", "pair", "send", "logout"}
    /\ used \in [requests : 0..MaxRequests, drops : 0..MaxDrops,
                 lapses : 0..MaxLapses, crashes : 0..MaxCrashes]
    /\ race \in BOOLEAN

LEMMA Numbers ==
    /\ Sessions \subseteq Nat /\ Nobody \notin Sessions
    /\ MaxAttempts \in Nat /\ MaxQr \in Nat
  BY FleetAssumption DEF Nobody

LEMMA FirstOf ==
    ASSUME NEW S \in SUBSET Nat, S # {}
    PROVE  \E s \in S : \A o \in S : s <= o
  <1>1. PICK s \in S : \A o \in S : ~(<<o, s>> \in OpToRel(<, Nat))
    BY NatLessThanWellFounded, WFMin
  <1>2. ASSUME NEW o \in S PROVE s <= o
    <2>1. o \in Nat /\ s \in Nat
      OBVIOUS
    <2>2. ~(o < s)
      BY <1>1, <2>1 DEF OpToRel
    <2> QED
      BY <2>1, <2>2
  <1> QED
    BY <1>2

\* The number given to a new session is that of a session nothing refers to.
LEMMA NewIdFresh ==
    ASSUME NEW S, NEW T, Fresh(S, T) # {}
    PROVE  NewId(S, T) \in Fresh(S, T)
  <1>1. Fresh(S, T) \in SUBSET Nat
    BY Numbers DEF Fresh
  <1>2. \E s \in Fresh(S, T) : \A o \in Fresh(S, T) : s <= o
    BY <1>1, FirstOf
  <1> QED
    BY <1>2 DEF NewId

LEMMA TasksAdded ==
    ASSUME NEW T \in TaskSet, NEW M \in TaskSet
    PROVE  T \cup M \in TaskSet
  BY FS_Union DEF TaskSet

LEMMA TasksDropped ==
    ASSUME NEW T \in TaskSet, NEW M \in SUBSET T
    PROVE  M \in TaskSet
  BY FS_Subset DEF TaskSet

LEMMA TaskAlone ==
    ASSUME NEW t \in TaskRow
    PROVE  {t} \in TaskSet
  BY FS_Singleton DEF TaskSet

LEMMA NoTask == {} \in TaskSet
  BY FS_EmptySet DEF TaskSet

LEMMA OneTask ==
    ASSUME NEW s \in Sessions, NEW at \in Steps \ Route, NEW then \in Continuations
    PROVE  /\ Task(s, at, then) \in TaskRow /\ {Task(s, at, then)} \in TaskSet
           /\ Task(s, at, then).s = s /\ Task(s, at, then).at = at
           /\ Task(s, at, then).then = then
  <1>1. Task(s, at, then) \in TaskRow
    BY Numbers DEF Task, TaskRow
  <1> QED
    BY <1>1, TaskAlone DEF Task

LEMMA OneRouteTask ==
    ASSUME NEW at \in Route, NEW then \in Continuations
    PROVE  /\ Task(Nobody, at, then) \in TaskRow
           /\ {Task(Nobody, at, then)} \in TaskSet
           /\ Task(Nobody, at, then).s = Nobody
           /\ Task(Nobody, at, then).at = at
           /\ Task(Nobody, at, then).then = then
  <1>1. at \in Steps
    BY DEF Route, Steps
  <1>2. Task(Nobody, at, then) \in TaskRow
    BY <1>1 DEF Task, TaskRow
  <1> QED
    BY <1>2, TaskAlone DEF Task

LEMMA OneRedisTask ==
    ASSUME NEW S, NEW T \in TaskSet, NEW s \in Sessions, NEW at,
           at = "acquire" \/ at = "release", NEW then \in Continuations
    PROVE  /\ RedisTask(S, T, s, at, then) \in TaskRow
           /\ {RedisTask(S, T, s, at, then)} \in TaskSet
           /\ RedisTask(S, T, s, at, then).s = s
           /\ RedisTask(S, T, s, at, then).at = at
           /\ RedisTask(S, T, s, at, then).then = then
           /\ RedisTask(S, T, s, at, then).n \in Nat
  <1> DEFINE n == 1 + Cardinality(AtRedis(S, T, InCli(S[s])))
             t == RedisTask(S, T, s, at, then)
  <1>1. n \in Nat
    <2>1. IsFiniteSet(AtRedis(S, T, InCli(S[s])))
      BY FS_Subset DEF AtRedis, TaskSet
    <2> QED
      BY <2>1, FS_CardinalityType
  <1>2. at \in Steps \ Route
    BY DEF Steps, Starting, Route
  <1> HIDE DEF n
  <1>3. t = [s |-> s, at |-> at, then |-> then, n |-> n]
    BY DEF RedisTask, Task, n
  <1>4. t \in TaskRow
    BY <1>1, <1>2, <1>3, Numbers DEF TaskRow
  <1> HIDE DEF t
  <1> QED
    BY <1>1, <1>3, <1>4, TaskAlone DEF n, t

\* The other tasks of the queue move up and stay what they are.
Shifts(f, T, M) ==
    /\ f \in [T -> M] /\ \A v \in M : \E u \in T : v = f[u]
    /\ \A u \in T : f[u].s = u.s /\ f[u].at = u.at /\ f[u].then = u.then

LEMMA AnsweredTasks ==
    ASSUME Shape, NEW t \in tasks
    PROVE  /\ Answered(t) \in TaskSet
           /\ \E f : Shifts(f, tasks \ {t}, Answered(t))
  <1> DEFINE T == tasks \ {t}
             Q == AtRedis(sess, tasks, InCli(sess[t.s]))
             moved(u) == IF u \in Q THEN [u EXCEPT !.n = @ - 1] ELSE u
             f == [u \in T |-> moved(u)]
  <1>1. T \in TaskSet /\ T \subseteq TaskRow /\ IsFiniteSet(T)
    BY FS_Subset DEF Shape, TaskSet
  <1>2. ASSUME NEW u \in T
        PROVE  /\ moved(u) \in TaskRow /\ moved(u).s = u.s
               /\ moved(u).at = u.at /\ moved(u).then = u.then
    BY <1>1, <1>2 DEF TaskRow
  <1>3. Answered(t) = {moved(u) : u \in T}
    BY DEF Answered
  <1> HIDE DEF moved, T
  <1>4. Shifts(f, T, Answered(t))
    BY <1>2, <1>3 DEF Shifts
  <1>5. IsFiniteSet(Answered(t))
    <2>1. f \in Surjection(T, Answered(t))
      BY <1>4 DEF Shifts, Surjection
    <2> HIDE DEF f
    <2> QED
      BY <1>1, <2>1, FS_Surjection
  <1>6. Answered(t) \subseteq TaskRow
    BY <1>2, <1>3
  <1> QED
    BY <1>4, <1>5, <1>6 DEF TaskSet, T

LEMMA BlankRecord ==
    ASSUME NEW host \in {"none", "managed", "qr", "cli"}
    PROVE  /\ Blank(host) \in SessionRecord /\ Blank(host).host = host
           /\ LiveSlots(Blank(host)) = {} /\ ~Blank(host).owns
           /\ ~Blank(host).timer /\ ~Blank(host).loose /\ ~Blank(host).stopped
  BY Numbers DEF Blank, SessionRecord, Slots, LiveConn, LiveSlots

LEMMA BitSet ==
    ASSUME NEW r \in SessionRecord, NEW b \in BOOLEAN
    PROVE  /\ [r EXCEPT !.owns = b] \in SessionRecord
           /\ [r EXCEPT !.stopped = b] \in SessionRecord
           /\ [r EXCEPT !.ready = b] \in SessionRecord
           /\ [r EXCEPT !.loose = b] \in SessionRecord
           /\ [r EXCEPT !.timer = b] \in SessionRecord
  <1>1. [r EXCEPT !.owns = b] \in SessionRecord
    BY DEF SessionRecord
  <1>2. [r EXCEPT !.stopped = b] \in SessionRecord
    BY DEF SessionRecord
  <1>3. [r EXCEPT !.ready = b] \in SessionRecord
    BY DEF SessionRecord
  <1>4. [r EXCEPT !.loose = b] \in SessionRecord
    BY DEF SessionRecord
  <1>5. [r EXCEPT !.timer = b] \in SessionRecord
    BY DEF SessionRecord
  <1> QED
    BY <1>1, <1>2, <1>3, <1>4, <1>5

LEMMA SlotSet ==
    ASSUME NEW r \in SessionRecord, NEW i \in Slots,
           NEW c \in LiveConn \cup {"none"}
    PROVE  /\ [r EXCEPT !.conn[i] = c] \in SessionRecord
           /\ [r EXCEPT !.sock = i] \in SessionRecord
  <1>1. [r EXCEPT !.conn[i] = c] \in SessionRecord
    BY DEF SessionRecord
  <1>2. [r EXCEPT !.sock = i] \in SessionRecord
    BY DEF SessionRecord
  <1> QED
    BY <1>1, <1>2

LEMMA CounterSet ==
    ASSUME NEW r \in SessionRecord
    PROVE  /\ [r EXCEPT !.attempts = 0] \in SessionRecord
           /\ [r EXCEPT !.qrs = 0] \in SessionRecord
  <1>1. [r EXCEPT !.attempts = 0] \in SessionRecord
    BY Numbers DEF SessionRecord
  <1>2. [r EXCEPT !.qrs = 0] \in SessionRecord
    BY Numbers DEF SessionRecord
  <1> QED
    BY <1>1, <1>2

LEMMA Replaced ==
    ASSUME NEW S \in SessionMap, NEW s \in Sessions, NEW r \in SessionRecord
    PROVE  /\ [S EXCEPT ![s] = r] \in SessionMap
           /\ [S EXCEPT ![s] = r][s] = r
           /\ \A o \in Sessions \ {s} : [S EXCEPT ![s] = r][o] = S[o]
  BY DEF SessionMap

LEMMA ScheduleShape ==
    ASSUME NEW s \in Sessions, NEW S \in SessionMap, NEW T \in TaskSet,
           Schedule(s, S, T)
    PROVE  sess' \in SessionMap /\ tasks' \in TaskSet
  <1>1. {"lastWrite", "reconWrite"} \subseteq Steps \ Route
        /\ "none" \in Continuations
    BY DEF Steps, Starting, Reconnecting, Route, Continuations
  <1>2. tasks' \in TaskSet
    <2>1. /\ {Task(s, "lastWrite", "none")} \in TaskSet
          /\ {Task(s, "reconWrite", "none")} \in TaskSet
      BY <1>1, OneTask
    <2> QED
      BY <2>1, TasksAdded DEF Schedule
  <1>3. sess' \in SessionMap
    <2>1. CASE S[s].attempts >= MaxAttempts
      BY <2>1 DEF Schedule
    <2>2. CASE ~(S[s].attempts >= MaxAttempts)
      <3>1. [S[s] EXCEPT !.attempts = @ + 1] \in SessionRecord
        BY <2>2, Numbers DEF SessionMap, SessionRecord
      <3> QED
        BY <2>2, <3>1 DEF Schedule, SessionMap
    <2> QED
      BY <2>1, <2>2
  <1> QED
    BY <1>2, <1>3

LEMMA StartShape ==
    ASSUME NEW S \in SessionMap, NEW T \in TaskSet, NEW s \in Sessions,
           NEW then \in Continuations
    PROVE  /\ StartTask(S, T, s, then) \in TaskRow
           /\ {StartTask(S, T, s, then)} \in TaskSet
           /\ StartTask(S, T, s, then).s = s
           /\ StartTask(S, T, s, then).then = then
           /\ S[s].owns => StartTask(S, T, s, then).at = "files"
           /\ ~S[s].owns => StartTask(S, T, s, then).at = "acquire"
  <1>1. "files" \in Steps \ Route
    BY DEF Steps, Starting, Route
  <1>2. CASE S[s].owns
    BY <1>1, <1>2, OneTask DEF StartTask
  <1>3. CASE ~S[s].owns
    <2> DEFINE u == RedisTask(S, T, s, "acquire", then)
    <2>1. u \in TaskRow /\ {u} \in TaskSet /\ u.s = s /\ u.at = "acquire"
          /\ u.then = then
      BY OneRedisTask
    <2>2. StartTask(S, T, s, then) = u
      BY <1>3 DEF StartTask
    <2> HIDE DEF u
    <2> QED
      BY <1>3, <2>1, <2>2
  <1> QED
    BY <1>2, <1>3

LEMMA StartIs ==
    ASSUME NEW S, NEW T, NEW s, NEW then
    PROVE  /\ StartTask(S, T, s, then).s = s
           /\ ~S[s].owns => StartTask(S, T, s, then).at = "acquire"
  BY DEF StartTask, RedisTask, Task

\* Who may open a session.
Hosts == {"managed", "qr", "cli"}

LEMMA OpenedShape ==
    ASSUME NEW host \in Hosts, NEW then \in Continuations,
           NEW S \in SessionMap, NEW T \in TaskSet, Opened(host, then, S, T)
    PROVE  /\ sess' \in SessionMap /\ tasks' \in TaskSet
           /\ NewId(S, T) \in Sessions /\ NewId(S, T) \in Fresh(S, T)
  <1> DEFINE n == NewId(S, T)
             N == [S EXCEPT ![n] = Blank(host)]
  <1>1. n \in Fresh(S, T) /\ n \in Sessions
    BY NewIdFresh DEF Opened, Fresh
  <1>2. N \in SessionMap
    BY <1>1, BlankRecord DEF SessionMap, Hosts
  <1>3. sess' = N /\ tasks' = T \cup {StartTask(N, T, n, then)}
    BY DEF Opened
  <1> HIDE DEF n, N
  <1> QED
    BY <1>1, <1>2, <1>3, StartShape, TasksAdded DEF n

LEMMA EndedShape ==
    ASSUME NEW S \in SessionMap, NEW s \in Sessions
    PROVE  Ended(S, s) \in SessionMap
  <1> DEFINE c == [i \in Slots |-> IF i = S[s].sock THEN "none" ELSE S[s].conn[i]]
             r == [S[s] EXCEPT !.stopped = TRUE, !.timer = FALSE, !.sock = 0,
                               !.conn = c]
  <1>1. r \in SessionRecord
    <2>1. S[s] \in SessionRecord
      BY DEF SessionMap
    <2>2. c \in [Slots -> LiveConn \cup {"none"}]
      BY <2>1 DEF SessionRecord
    <2> HIDE DEF c
    <2> QED
      BY <2>1, <2>2 DEF SessionRecord
  <1>2. Ended(S, s) = [S EXCEPT ![s] = r]
    BY DEF Ended
  <1> HIDE DEF r
  <1> QED
    BY <1>1, <1>2 DEF SessionMap

LEMMA KeptShape ==
    ASSUME NEW S \in SessionMap, NEW T, NEW B, NEW entry
    PROVE  Kept(S, T, B, entry) \in SessionMap
  BY BlankRecord DEF Kept, SessionMap

\* What an operator may leave of the account, the volume and the processes.
RestShape ==
    /\ line' \in [status : Status, enabled : BOOLEAN]
    /\ creds' \in BOOLEAN
    /\ mapped' \in Sessions \cup {Nobody}
    /\ worker' \in {"up", "closing", "down"}
    /\ cli' \in {"off", "pair", "send", "logout"}
SessionShape ==
    sess' \in SessionMap /\ tasks' \in TaskSet /\ beats' \subseteq Sessions

LEMMA ProcessGoneShape ==
    ASSUME Shape, NEW inCli \in BOOLEAN,
           NEW S \in SessionMap, NEW T \in TaskSet, NEW B \in SUBSET Sessions,
           ProcessGone(inCli, S, T, B)
    PROVE  /\ SessionShape
           /\ mapped' \in Sessions \cup {Nobody}
           /\ worker' \in {"up", "closing", "down"}
           /\ cli' \in {"off", "pair", "send", "logout"}
  <1>1. sess' \in SessionMap
    BY BlankRecord DEF ProcessGone, SessionMap
  <1>2. tasks' \in TaskSet
    <2>1. tasks' \in SUBSET T
      BY DEF ProcessGone
    <2> QED
      BY <2>1, TasksDropped
  <1> QED
    BY <1>1, <1>2 DEF ProcessGone, SessionShape, Shape

LEMMA SpawnedShape ==
    ASSUME NEW then \in Continuations, NEW S \in SessionMap, NEW T \in TaskSet,
           Spawned(then, S, T)
    PROVE  sess' \in SessionMap /\ tasks' \in TaskSet /\ mapped' \in Sessions
  BY OpenedShape DEF Spawned, Hosts

LEMMA AfterShape ==
    ASSUME Shape, NEW s, NEW then \in Continuations,
           NEW S \in SessionMap, NEW T \in TaskSet, NEW B \in SUBSET Sessions,
           After(s, then, S, T, B)
    PROVE  SessionShape /\ RestShape
  <1> USE DEF SessionShape, RestShape
  <1>0. /\ line \in [status : Status, enabled : BOOLEAN] /\ creds \in BOOLEAN
        /\ mapped \in Sessions \cup {Nobody}
        /\ worker \in {"up", "closing", "down"}
        /\ cli \in {"off", "pair", "send", "logout"}
    BY DEF Shape
  <1>1. CASE /\ \E entry : sess' = Kept(S, T, B, entry)
             /\ tasks' = T /\ beats' = B
             /\ mapped' \in {mapped, Nobody} /\ UNCHANGED <<creds, line, processes>>
    BY <1>0, <1>1, KeptShape DEF processes
  <1>2. CASE /\ Spawned("spawn", Kept(S, T, B, Nobody), T) /\ beats' = B
             /\ UNCHANGED <<creds, line, processes>>
    <2>1. Kept(S, T, B, Nobody) \in SessionMap /\ "spawn" \in Continuations
      BY KeptShape DEF Continuations
    <2> QED
      BY <1>0, <1>2, <2>1, SpawnedShape DEF processes
  <1>3. CASE /\ Opened("qr", "qr", Kept(S, T, B, Nobody), T)
             /\ beats' = B /\ mapped' = Nobody
             /\ UNCHANGED <<creds, line, processes>>
    <2>1. Kept(S, T, B, Nobody) \in SessionMap /\ "qr" \in Continuations
      BY KeptShape DEF Continuations
    <2> QED
      BY <1>0, <1>3, <2>1, OpenedShape DEF processes, Hosts
  <1>4. CASE /\ sess' = Kept(S, T, B, Nobody)
             /\ tasks' = T \cup {Task(Nobody, "delete", "none")}
             /\ beats' = B /\ creds' = FALSE /\ mapped' = Nobody
             /\ UNCHANGED <<line, processes>>
    <2>1. {Task(Nobody, "delete", "none")} \in TaskSet
      BY OneRouteTask DEF Route, Continuations
    <2> QED
      BY <1>0, <1>4, <2>1, KeptShape, TasksAdded DEF processes
  <1>5. CASE /\ creds' = FALSE
             /\ line' = IF line.status = "DELETED" THEN line
                        ELSE [status |-> "DISCONNECTED", enabled |-> FALSE]
             /\ ProcessGone(TRUE, S, T, B)
    BY <1>0, <1>5, ProcessGoneShape DEF Status
  <1>6. CASE ProcessGone(InCli(S[s]), S, T, B) /\ UNCHANGED <<creds, line>>
    <2>1. PICK inCli \in BOOLEAN : inCli = InCli(S[s])
      BY DEF InCli
    <2>2. ProcessGone(inCli, S, T, B)
      BY <1>6, <2>1
    <2> QED
      BY <1>0, <1>6, <2>2, ProcessGoneShape
  <1> QED
    BY <1>1, <1>2, <1>3, <1>4, <1>5, <1>6 DEF After

LEMMA StopThenShape ==
    ASSUME Shape, NEW s \in Sessions, NEW then \in Continuations,
           NEW S \in SessionMap, NEW T \in TaskSet, StopThen(s, then, S, T)
    PROVE  SessionShape /\ RestShape /\ race' \in BOOLEAN /\ (race => race')
  <1>1. race' \in BOOLEAN /\ (race => race')
    BY DEF StopThen, Shape
  <1>2. Ended(S, s) \in SessionMap
    BY EndedShape
  <1>3. CASE S[s].owns
    <2> DEFINE u == RedisTask(S, T, s, "release", then)
    <2>1. {u} \in TaskSet
      BY OneRedisTask
    <2>2. sess' = Ended(S, s) /\ tasks' = T \cup {u}
          /\ UNCHANGED <<mapped, creds, line, beats, processes>>
      BY <1>3 DEF StopThen
    <2> HIDE DEF u
    <2> QED
      BY <1>1, <1>2, <2>1, <2>2, TasksAdded
      DEF SessionShape, RestShape, Shape, processes
  <1>4. CASE ~S[s].owns
    <2>1. After(s, then, Ended(S, s), T, beats) /\ beats \in SUBSET Sessions
      BY <1>4 DEF StopThen, Shape
    <2> QED
      BY <1>1, <1>2, <2>1, AfterShape
  <1> QED
    BY <1>3, <1>4

LEMMA ManagerSpawnShape ==
    ASSUME Shape, NEW T \in TaskSet, ManagerSpawn(T)
    PROVE  /\ sess' \in SessionMap /\ tasks' \in TaskSet
           /\ mapped' \in Sessions \cup {Nobody}
  <1>1. CASE mapped # Nobody
    BY <1>1 DEF ManagerSpawn, Shape
  <1>2. CASE mapped = Nobody
    <2>1. /\ Spawned("spawn", sess, T) /\ "spawn" \in Continuations
          /\ sess \in SessionMap
      BY <1>2 DEF ManagerSpawn, Continuations, Shape
    <2> QED
      BY <2>1, SpawnedShape
  <1> QED
    BY <1>1, <1>2

LEMMA ManagerStopShape ==
    ASSUME Shape, NEW then \in Continuations, NEW T \in TaskSet,
           ManagerStop(then, T)
    PROVE  SessionShape /\ RestShape /\ race' \in BOOLEAN /\ (race => race')
  <1>0. /\ sess \in SessionMap /\ beats \in SUBSET Sessions /\ race \in BOOLEAN
        /\ line \in [status : Status, enabled : BOOLEAN] /\ creds \in BOOLEAN
        /\ mapped \in Sessions \cup {Nobody}
    BY DEF Shape
  <1>1. CASE mapped # Nobody
    BY <1>0, <1>1, StopThenShape DEF ManagerStop
  <1>2. CASE mapped = Nobody /\ then = "exit"
    <2>1. ProcessGone(FALSE, sess, T, beats) /\ UNCHANGED <<creds, line, race>>
      BY <1>2 DEF ManagerStop
    <2> QED
      BY <1>0, <2>1, ProcessGoneShape DEF RestShape
  <1>3. CASE mapped = Nobody /\ then # "exit"
    <2>1. After(Nobody, then, sess, T, beats) /\ UNCHANGED race
      BY <1>3 DEF ManagerStop
    <2> QED
      BY <1>0, <2>1, AfterShape
  <1> QED
    BY <1>1, <1>2, <1>3

\* A task of a session, and the tasks without it.
LEMMA TaskFacts ==
    ASSUME Shape, NEW t \in tasks
    PROVE  /\ t \in TaskRow /\ t.s \in Sessions \cup {Nobody}
           /\ t.then \in Continuations /\ (t.at \notin Route => t.s \in Sessions)
           /\ t.at \in Steps /\ t.n \in Int
           /\ tasks \ {t} \in TaskSet
  <1>1. tasks \in TaskSet /\ t \in TaskRow /\ tasks \ {t} \in SUBSET tasks
    BY DEF Shape, TaskSet
  <1> QED
    BY <1>1, TasksDropped DEF TaskRow

LEMMA SetStatusShape ==
    ASSUME Shape, NEW t \in tasks, NEW status \in Status, NEW more \in TaskSet,
           SetStatus(t, status, more)
    PROVE  /\ SessionShape
           /\ line' \in [status : Status, enabled : BOOLEAN]
           /\ mapped' \in Sessions \cup {Nobody}
           /\ worker' \in {"up", "closing", "down"}
           /\ cli' \in {"off", "pair", "send", "logout"}
  <1>0. /\ sess \in SessionMap /\ beats \in SUBSET Sessions
        /\ line \in [status : Status, enabled : BOOLEAN]
        /\ tasks \ {t} \in TaskSet
    BY TaskFacts DEF Shape
  <1>1. CASE line.status = "DELETED"
    <2>1. PICK inCli \in BOOLEAN : inCli = InCli(sess[t.s])
      BY DEF InCli
    <2>2. ProcessGone(inCli, sess, tasks \ {t}, beats) /\ UNCHANGED line
      BY <1>1, <2>1 DEF SetStatus
    <2> QED
      BY <1>0, <2>2, ProcessGoneShape
  <1>2. CASE line.status # "DELETED"
    <2>1. /\ line' = [line EXCEPT !.status = status]
          /\ tasks' = (tasks \ {t}) \cup more
          /\ UNCHANGED <<sess, mapped, beats, processes>>
      BY <1>2 DEF SetStatus
    <2>2. tasks' \in TaskSet
      BY <1>0, <2>1, TasksAdded
    <2> QED
      BY <1>0, <2>1, <2>2 DEF SessionShape, Shape, processes
  <1> QED
    BY <1>1, <1>2

LEMMA HandleCloseShape ==
    ASSUME Shape, NEW s \in Sessions, NEW i \in Slots, NEW decision,
           HandleClose(s, i, decision)
    PROVE  sess' \in SessionMap /\ tasks' \in TaskSet
  <1> DEFINE closed == [sess EXCEPT ![s].conn[i] = "none"]
             reacts == [closed EXCEPT ![s].ready = FALSE]
  <1>0. sess \in SessionMap /\ tasks \in TaskSet
    BY DEF Shape
  <1>1. closed \in SessionMap
    <2>1. [sess[s] EXCEPT !.conn[i] = "none"] \in SessionRecord
      BY <1>0 DEF SessionMap, SessionRecord
    <2> QED
      BY <1>0, <2>1 DEF SessionMap
  <1>2. reacts \in SessionMap
    <2> HIDE DEF closed
    <2>1. [closed[s] EXCEPT !.ready = FALSE] \in SessionRecord
      BY <1>1 DEF SessionMap, SessionRecord
    <2> QED
      BY <1>1, <2>1 DEF SessionMap
  <1>3. {Task(s, "banWrite", "none")} \in TaskSet
        /\ {Task(s, "lastWrite", "none")} \in TaskSet
    BY OneTask DEF Steps, Route, Continuations
  <1>4. \/ sess' = closed /\ UNCHANGED tasks
        \/ sess' = reacts /\ tasks' = tasks \cup {Task(s, "banWrite", "none")}
        \/ sess' = reacts /\ tasks' = tasks \cup {Task(s, "lastWrite", "none")}
        \/ Schedule(s, reacts, tasks)
    BY DEF HandleClose
  <1> HIDE DEF closed, reacts
  <1> QED
    BY <1>0, <1>1, <1>2, <1>3, <1>4, TasksAdded, ScheduleShape

LEMMA SpendShape ==
    ASSUME Shape,
           \/ Spend("requests", MaxRequests) \/ Spend("drops", MaxDrops)
           \/ Spend("lapses", MaxLapses) \/ Spend("crashes", MaxCrashes)
    PROVE  used' \in [requests : 0..MaxRequests, drops : 0..MaxDrops,
                      lapses : 0..MaxLapses, crashes : 0..MaxCrashes]
  <1>1. {MaxRequests, MaxDrops, MaxLapses, MaxCrashes} \subseteq Nat
    BY FleetAssumption
  <1> QED
    BY <1>1 DEF Spend, Shape

LEMMA ShapeOfStart ==
    ASSUME Shape, NEW t \in tasks, Acquire(t) \/ OpenSocket(t)
    PROVE  Shape' /\ (race => race')
  <1>0. /\ t.s \in Sessions /\ t.then \in Continuations /\ tasks \ {t} \in TaskSet
        /\ sess \in SessionMap /\ beats \in SUBSET Sessions
    BY TaskFacts DEF Shape, Acquire, OpenSocket, Route
  <1> DEFINE s == t.s
             T == Answered(t)
             refused == [sess EXCEPT ![s].owns = FALSE]
             granted == [sess EXCEPT ![s].owns = TRUE]
             wiped == [refused EXCEPT ![s].stopped = TRUE]
  <1>1. refused \in SessionMap /\ granted \in SessionMap /\ wiped \in SessionMap
    <2>1. ASSUME NEW b \in BOOLEAN
          PROVE  [sess EXCEPT ![s].owns = b] \in SessionMap
      <3>1. sess[s] \in SessionRecord
        BY <1>0 DEF SessionMap
      <3>2. [sess[s] EXCEPT !.owns = b] \in SessionRecord
        BY <3>1, BitSet
      <3> QED
        BY <1>0, <3>2, Replaced
    <2>2. wiped \in SessionMap
      <3> HIDE DEF refused
      <3>1. refused \in SessionMap
        BY <2>1 DEF refused
      <3>2. refused[s] \in SessionRecord
        BY <1>0, <3>1 DEF SessionMap
      <3>3. [refused[s] EXCEPT !.stopped = TRUE] \in SessionRecord
        BY <3>2, BitSet
      <3> QED
        BY <1>0, <3>1, <3>3, Replaced
    <2> QED
      BY <2>1, <2>2
  <1>2. T \in TaskSet
    BY AnsweredTasks
  <1>3. /\ {Task(s, "files", t.then)} \in TaskSet
        /\ {Task(s, "logout", "none")} \in TaskSet
    <2>1. {"files", "logout"} \subseteq Steps \ Route /\ "none" \in Continuations
      BY DEF Steps, Starting, Route, Continuations
    <2> QED
      BY <1>0, <2>1, OneTask
  <1>4. CASE Acquire(t)
    <2> HIDE DEF T, refused, granted, wiped
    <2>1. /\ UNCHANGED <<line, creds, used, race>>
          /\ \/ /\ owner' = s /\ beats' = beats \cup {s}
                /\ sess' = granted /\ tasks' = T \cup {Task(s, "files", t.then)}
                /\ UNCHANGED <<mapped, processes>>
             \/ /\ sess' = refused /\ tasks' = T
                /\ UNCHANGED <<owner, beats, mapped, processes>>
             \/ /\ Schedule(s, refused, T)
                /\ UNCHANGED <<owner, beats, mapped, processes>>
             \/ /\ sess' = wiped /\ tasks' = T \cup {Task(s, "logout", "none")}
                /\ UNCHANGED <<owner, beats, mapped, processes>>
             \/ ProcessGone(TRUE, refused, T, beats) /\ UNCHANGED owner
      BY <1>4 DEF Acquire, T, refused, granted, wiped
    <2>2. SessionShape /\ owner' \in Sessions \cup {Nobody}
          /\ mapped' \in Sessions \cup {Nobody}
          /\ worker' \in {"up", "closing", "down"}
          /\ cli' \in {"off", "pair", "send", "logout"}
      <3>1. CASE ProcessGone(TRUE, refused, T, beats) /\ UNCHANGED owner
        BY <1>0, <1>1, <1>2, <3>1, ProcessGoneShape DEF Shape
      <3>2. CASE Schedule(s, refused, T)
                 /\ UNCHANGED <<owner, beats, mapped, processes>>
        BY <1>0, <1>1, <1>2, <3>2, ScheduleShape DEF Shape, SessionShape, processes
      <3> QED
        BY <1>0, <1>1, <1>2, <1>3, <2>1, <3>1, <3>2, TasksAdded
        DEF Shape, SessionShape, processes
    <2> QED
      BY <2>1, <2>2 DEF Shape, SessionShape
  <1>5. CASE OpenSocket(t)
    <2> DEFINE wipes == t.then = "cli" /\ cli = "logout"
               opened(i) == [sess EXCEPT ![s].sock = i, ![s].conn[i] =
                                IF creds THEN "connecting" ELSE "pairing",
                                ![s].stopped = @ \/ wipes]
    <2>1. PICK i \in Slots : sess' = opened(i)
      BY <1>5 DEF OpenSocket
    <2>2. opened(i) \in SessionMap
      <3> DEFINE c == IF creds THEN "connecting" ELSE "pairing"
                 b == sess[s].stopped \/ wipes
                 r == [sess[s] EXCEPT !.sock = i, !.conn[i] = c, !.stopped = b]
      <3>1. c \in LiveConn /\ b \in BOOLEAN
        <4>1. sess[s].stopped \in BOOLEAN
          BY <1>0 DEF SessionMap, SessionRecord
        <4> QED
          BY <4>1 DEF LiveConn
      <3>2. opened(i) = [sess EXCEPT ![s] = r]
        BY <1>0 DEF SessionMap, SessionRecord
      <3>3. r \in SessionRecord
        <4> HIDE DEF b, c
        <4> DEFINE r1 == [sess[s] EXCEPT !.sock = i]
                   r2 == [r1 EXCEPT !.conn[i] = c]
        <4>1. r1 \in SessionRecord
          BY <1>0, <3>1, SlotSet DEF SessionMap
        <4>2. r2 \in SessionRecord
          <5> HIDE DEF r1
          <5> QED
            BY <3>1, <4>1, SlotSet
        <4>3. r = [r2 EXCEPT !.stopped = b]
          BY <1>0 DEF SessionMap, SessionRecord
        <4> HIDE DEF r, r2
        <4> QED
          BY <3>1, <4>2, <4>3, BitSet
      <3> HIDE DEF r
      <3> QED
        BY <1>0, <3>2, <3>3 DEF SessionMap
    <2>3. tasks' \in TaskSet
      <3>1. \/ tasks' = (tasks \ {t}) \cup {Task(s, "logout", "none")}
            \/ tasks' = (tasks \ {t}) \cup {}
        BY <1>5 DEF OpenSocket
      <3> QED
        BY <1>0, <1>3, <3>1, TasksAdded, NoTask
    <2> QED
      BY <1>5, <2>1, <2>2, <2>3 DEF OpenSocket, Shape, processes
  <1> QED
    BY <1>4, <1>5

LEMMA ShapeOfWrites ==
    ASSUME Shape, NEW t \in tasks, Writes(t)
    PROVE  Shape' /\ (race => race')
  <1>0. t.s \in Sessions /\ creds \in BOOLEAN
    BY TaskFacts DEF Shape, Writes, Route
  <1>1. PICK status \in Status, more \in TaskSet : SetStatus(t, status, more)
    <2>1. /\ {Task(t.s, "openReady", "none")} \in TaskSet
          /\ {Task(t.s, "arm", "none")} \in TaskSet
          /\ {Task(t.s, "lastStop", "none")} \in TaskSet
      BY <1>0, OneTask DEF Steps, Reconnecting, Route, Continuations
    <2> QED
      BY <2>1, NoTask DEF Writes, Status
  <1>2. creds' \in BOOLEAN /\ UNCHANGED <<owner, used, race>>
    BY <1>0 DEF Writes
  <1> QED
    BY <1>1, <1>2, SetStatusShape DEF Shape, SessionShape

LEMMA ShapeOfReady ==
    ASSUME Shape, NEW t \in tasks, OpenReady(t) \/ Arm(t)
    PROVE  Shape' /\ (race => race')
  <1>0. /\ t.s \in Sessions /\ tasks \ {t} \in TaskSet
        /\ sess \in SessionMap /\ beats \in SUBSET Sessions
    BY TaskFacts DEF Shape, OpenReady, Arm, Route
  <1> DEFINE ready == [sess EXCEPT ![t.s].ready = TRUE]
             armed == [sess EXCEPT ![t.s].timer = TRUE,
                                   ![t.s].loose = @ \/ sess[t.s].timer]
  <1>1. ready \in SessionMap
    BY <1>0 DEF SessionMap, SessionRecord
  <1>2. armed \in SessionMap
    <2> DEFINE b == sess[t.s].loose \/ sess[t.s].timer
               r == [sess[t.s] EXCEPT !.timer = TRUE, !.loose = b]
    <2>1. b \in BOOLEAN
      <3>1. sess[t.s].loose \in BOOLEAN /\ sess[t.s].timer \in BOOLEAN
        BY <1>0 DEF SessionMap, SessionRecord
      <3> QED
        BY <3>1
    <2>2. armed = [sess EXCEPT ![t.s] = r]
      BY <1>0 DEF SessionMap, SessionRecord
    <2>3. r \in SessionRecord
      <3> DEFINE r1 == [sess[t.s] EXCEPT !.timer = TRUE]
      <3> HIDE DEF b
      <3>1. r1 \in SessionRecord
        BY <1>0, BitSet DEF SessionMap
      <3>2. r = [r1 EXCEPT !.loose = b]
        BY <1>0 DEF SessionMap, SessionRecord
      <3> HIDE DEF r, r1
      <3> QED
        BY <2>1, <3>1, <3>2, BitSet
    <2> HIDE DEF r
    <2> QED
      BY <1>0, <2>2, <2>3 DEF SessionMap
  <1> HIDE DEF ready, armed
  <1>3. CASE OpenReady(t)
    <2>1. {Task(t.s, "sending", "none")} \in TaskSet
      <3>1. "sending" \in Steps \ Route /\ "none" \in Continuations
        BY DEF Steps, Route, Continuations
      <3> QED
        BY <1>0, <3>1, OneTask
    <2>2. /\ UNCHANGED <<line, creds, owner, used, race>>
          /\ \/ ProcessGone(TRUE, ready, tasks \ {t}, beats)
             \/ /\ sess' = ready /\ UNCHANGED <<beats, mapped, processes>>
                /\ \/ tasks' = (tasks \ {t}) \cup {Task(t.s, "sending", "none")}
                   \/ tasks' = tasks \ {t}
      BY <1>3 DEF OpenReady, ready
    <2>3. SessionShape /\ mapped' \in Sessions \cup {Nobody}
          /\ worker' \in {"up", "closing", "down"}
          /\ cli' \in {"off", "pair", "send", "logout"}
      <3>1. CASE ProcessGone(TRUE, ready, tasks \ {t}, beats)
        BY <1>0, <1>1, <3>1, ProcessGoneShape
      <3>2. CASE /\ sess' = ready /\ UNCHANGED <<beats, mapped, processes>>
                 /\ \/ tasks' = (tasks \ {t}) \cup {Task(t.s, "sending", "none")}
                    \/ tasks' = tasks \ {t}
        <4>1. tasks' \in TaskSet
          BY <1>0, <2>1, <3>2, TasksAdded
        <4> QED
          BY <1>0, <1>1, <3>2, <4>1 DEF Shape, SessionShape, processes
      <3> QED
        BY <2>2, <3>1, <3>2
    <2> QED
      BY <2>2, <2>3 DEF Shape, SessionShape
  <1>4. CASE Arm(t)
    BY <1>0, <1>2, <1>4 DEF Arm, Shape, processes, armed
  <1> QED
    BY <1>3, <1>4

LEMMA ShapeOfStops ==
    ASSUME Shape, NEW t \in tasks, Release(t) \/ Stops(t)
    PROVE  Shape' /\ (race => race')
  <1>0. /\ t.s \in Sessions /\ t.then \in Continuations /\ tasks \ {t} \in TaskSet
        /\ sess \in SessionMap /\ beats \in SUBSET Sessions
    BY TaskFacts DEF Shape, Release, Stops, Route
  <1>1. CASE Release(t)
    <2> DEFINE freed == [sess EXCEPT ![t.s].owns = FALSE]
    <2>1. freed \in SessionMap
      <3>1. [sess[t.s] EXCEPT !.owns = FALSE] \in SessionRecord
        BY <1>0, BitSet DEF SessionMap
      <3> QED
        BY <1>0, <3>1, Replaced
    <2>2. After(t.s, t.then, freed, Answered(t), beats \ {t.s})
      BY <1>1 DEF Release
    <2>3. Answered(t) \in TaskSet /\ beats \ {t.s} \in SUBSET Sessions
      BY <1>0, AnsweredTasks
    <2> HIDE DEF freed
    <2>4. SessionShape /\ RestShape
      BY <1>0, <2>1, <2>2, <2>3, AfterShape
    <2>5. /\ owner' \in Sessions \cup {Nobody} /\ race' \in BOOLEAN
          /\ (race => race') /\ UNCHANGED used
      BY <1>1 DEF Release, Shape
    <2> QED
      BY <2>4, <2>5 DEF Shape, SessionShape, RestShape
  <1>2. CASE Stops(t)
    <2>1. PICK then \in Continuations : StopThen(t.s, then, sess, tasks \ {t})
      BY <1>2 DEF Stops, Continuations
    <2>2. SessionShape /\ RestShape /\ race' \in BOOLEAN /\ (race => race')
      BY <1>0, <2>1, StopThenShape
    <2> QED
      BY <1>2, <2>2 DEF Stops, Shape, SessionShape, RestShape
  <1> QED
    BY <1>1, <1>2

LEMMA ShapeOfRoutes ==
    ASSUME Shape, NEW t \in tasks, RouteGoesOn(t) \/ HealthAct(t)
    PROVE  Shape' /\ (race => race')
  <1> DEFINE T == tasks \ {t}
  <1>0. /\ T \in TaskSet /\ sess \in SessionMap /\ beats \in SUBSET Sessions
        /\ t.then \in Continuations /\ mapped \in Sessions \cup {Nobody}
        /\ race \in BOOLEAN /\ "respawn" \in Continuations
    BY TaskFacts DEF Shape, Continuations
  <1> HIDE DEF T
  <1>1. UNCHANGED <<owner, used>>
    BY DEF RouteGoesOn, HealthAct
  <1>2. CASE ManagerSpawn(T) /\ UNCHANGED <<line, creds, beats, processes, race>>
    BY <1>0, <1>1, <1>2, ManagerSpawnShape DEF Shape, processes
  <1>3. CASE ManagerStop(t.then, T)
    BY <1>0, <1>1, <1>3, ManagerStopShape DEF Shape, SessionShape, RestShape
  <1>4. CASE /\ line' = [line EXCEPT !.status = "DELETED"]
             /\ tasks' = T
             /\ UNCHANGED <<sess, mapped, creds, beats, processes, race>>
    BY <1>0, <1>1, <1>4 DEF Shape, processes, Status
  <1>5. CASE mapped # Nobody /\ StopThen(mapped, "respawn", sess, T)
    BY <1>0, <1>1, <1>5, StopThenShape DEF Shape, SessionShape, RestShape
  <1>6. CASE ProcessGone(FALSE, sess, T, beats) /\ UNCHANGED <<line, creds, race>>
    BY <1>0, <1>1, <1>6, ProcessGoneShape DEF Shape, SessionShape
  <1>7. CASE /\ tasks' = T /\ UNCHANGED <<beats, mapped, sess, processes>>
             /\ UNCHANGED <<line, creds, race>>
    BY <1>0, <1>1, <1>7 DEF Shape, processes
  <1>8. CASE RouteGoesOn(t)
    BY <1>2, <1>3, <1>4, <1>8 DEF RouteGoesOn, T
  <1>9. CASE HealthAct(t)
    BY <1>2, <1>5, <1>6, <1>7, <1>9 DEF HealthAct, T
  <1> QED
    BY <1>8, <1>9

LEMMA ShapeOfTimers ==
    ASSUME Shape, NEW s \in Sessions, Timers(s) \/ CloseQr(s)
    PROVE  Shape' /\ (race => race')
  <1>0. sess \in SessionMap /\ tasks \in TaskSet /\ sess[s] \in SessionRecord
    BY DEF Shape, SessionMap
  <1>1. ASSUME NEW loose \in BOOLEAN, TimerFires(s, loose)
        PROVE  Shape' /\ (race => race')
    <2>1. tasks' \in TaskSet
      <3>1. "timer" \in Continuations
        BY DEF Continuations
      <3> HIDE DEF Continuations
      <3>2. {StartTask(sess, tasks, s, "timer")} \in TaskSet
        BY <1>0, <3>1, StartShape
      <3> QED
        BY <1>0, <1>1, <3>2, TasksAdded DEF TimerFires
    <2>2. sess' \in SessionMap
      <3> DEFINE l == sess[s].loose /\ ~loose
                 m == sess[s].timer /\ loose
                 r1 == [sess[s] EXCEPT !.stopped = FALSE]
                 r2 == [r1 EXCEPT !.loose = l]
                 r3 == [r2 EXCEPT !.timer = m]
      <3>1. l \in BOOLEAN /\ m \in BOOLEAN
        OBVIOUS
      <3>2. sess' = [sess EXCEPT ![s] = r3]
        BY <1>0, <1>1 DEF TimerFires, SessionMap, SessionRecord
      <3> HIDE DEF l, m
      <3>3. r1 \in SessionRecord
        BY <1>0, BitSet
      <3> HIDE DEF r1
      <3>4. r2 \in SessionRecord
        BY <3>1, <3>3, BitSet
      <3> HIDE DEF r2
      <3>5. r3 \in SessionRecord
        BY <3>1, <3>4, BitSet
      <3> QED
        BY <1>0, <3>2, <3>5, Replaced
    <2> QED
      BY <1>1, <2>1, <2>2 DEF TimerFires, Shape, processes
  <1>2. CASE CloseQr(s)
    <2>1. StopThen(s, "none", sess, tasks) /\ UNCHANGED <<owner, used>>
          /\ "none" \in Continuations
      BY <1>2 DEF CloseQr, Continuations
    <2> QED
      BY <1>0, <2>1, StopThenShape DEF Shape, SessionShape, RestShape
  <1> QED
    BY <1>1, <1>2 DEF Timers

LEMMA ShapeOfSockets ==
    ASSUME Shape, NEW s \in Sessions, NEW i \in Slots,
           \/ SocketQr(s, i) \/ SocketScanned(s, i) \/ SocketOpen(s, i)
           \/ \E d \in Decisions : SocketClose(s, i, d)
    PROVE  Shape' /\ (race => race')
  <1>0. /\ sess \in SessionMap /\ tasks \in TaskSet /\ sess[s] \in SessionRecord
        /\ "none" \in Continuations
        /\ {"qrWrite", "lastWrite", "openWrite"} \subseteq Steps \ Route
    BY DEF Shape, SessionMap, Continuations, Steps, Route
  <1>1. CASE SocketQr(s, i)
    <2> DEFINE q == IF sess[s].qrs > MaxQr THEN sess[s].qrs ELSE sess[s].qrs + 1
               r == [sess[s] EXCEPT !.qrs = q]
    <2>1. q \in 0..MaxQr + 1
      BY <1>0, Numbers DEF SessionRecord
    <2>2. sess' = [sess EXCEPT ![s] = r]
      BY <1>1 DEF SocketQr
    <2> HIDE DEF q
    <2>3. r \in SessionRecord
      BY <1>0, <2>1 DEF SessionRecord
    <2>4. /\ {Task(s, "lastWrite", "none")} \in TaskSet
          /\ {Task(s, "qrWrite", "none")} \in TaskSet
      BY <1>0, OneTask
    <2>5. tasks' \in TaskSet
      <3>1. \/ tasks' = tasks \cup {Task(s, "lastWrite", "none")}
            \/ tasks' = tasks \cup {Task(s, "qrWrite", "none")}
        BY <1>1 DEF SocketQr
      <3> QED
        BY <1>0, <2>4, <3>1, TasksAdded
    <2> HIDE DEF r
    <2>6. sess' \in SessionMap
      BY <1>0, <2>2, <2>3, Replaced
    <2> QED
      BY <1>1, <2>5, <2>6 DEF SocketQr, Shape, processes
  <1>2. CASE SocketOpen(s, i)
    <2> DEFINE r1 == [sess[s] EXCEPT !.conn[i] = "open"]
               r2 == [r1 EXCEPT !.attempts = 0]
               r3 == [r2 EXCEPT !.qrs = 0]
    <2>1. r1 \in SessionRecord
      BY <1>0, SlotSet DEF LiveConn
    <2>2. sess' = [sess EXCEPT ![s] = r3]
      BY <1>0, <1>2 DEF SocketOpen, SessionMap, SessionRecord
    <2> HIDE DEF r1
    <2>3. r2 \in SessionRecord
      BY <2>1, CounterSet
    <2> HIDE DEF r2
    <2>7. r3 \in SessionRecord
      BY <2>3, CounterSet
    <2>4. {Task(s, "openWrite", "none")} \in TaskSet
      BY <1>0, OneTask
    <2>5. tasks' \in TaskSet
      BY <1>0, <1>2, <2>4, TasksAdded DEF SocketOpen
    <2> HIDE DEF r3
    <2>6. sess' \in SessionMap
      BY <1>0, <2>2, <2>7, Replaced
    <2> QED
      BY <1>2, <2>5, <2>6 DEF SocketOpen, Shape, processes
  <1>3. CASE SocketScanned(s, i)
    <2>1. HandleClose(s, i, "RECONNECT")
      BY <1>3 DEF SocketScanned
    <2> QED
      BY <1>3, <2>1, HandleCloseShape DEF SocketScanned, Shape, processes
  <1>4. ASSUME NEW d \in Decisions, SocketClose(s, i, d)
        PROVE  Shape' /\ (race => race')
    <2>1. HandleClose(s, i, d) /\ UNCHANGED <<line, creds, owner, beats, mapped,
                                              processes, race>>
      BY <1>4 DEF SocketClose
    <2>2. UNCHANGED used \/ Spend("drops", MaxDrops)
      BY <1>4 DEF SocketClose
    <2>3. used' \in [requests : 0..MaxRequests, drops : 0..MaxDrops,
                     lapses : 0..MaxLapses, crashes : 0..MaxCrashes]
      BY <2>2, SpendShape DEF Shape
    <2> QED
      BY <2>1, <2>3, HandleCloseShape DEF Shape, processes
  <1> QED
    BY <1>1, <1>2, <1>3, <1>4

LEMMA ShapeOfRequests ==
    ASSUME Shape, Pause \/ Resume \/ Reconnect \/ OpenQr \/ Remove
    PROVE  Shape' /\ (race => race')
  <1>0. /\ sess \in SessionMap /\ tasks \in TaskSet
        /\ {"none", "unmap", "respawn", "repair"} \subseteq Continuations
        /\ {"stop", "spawn", "delete"} \subseteq Route
        /\ "logout" \in Steps \ Route
    BY DEF Shape, Continuations, Route, Steps
  <1>1. used' \in [requests : 0..MaxRequests, drops : 0..MaxDrops,
                   lapses : 0..MaxLapses, crashes : 0..MaxCrashes]
    BY SpendShape
    DEF Pause, Resume, SetEnabled, Reconnect, OpenQr, Remove, Request
  <1>2. ASSUME NEW on \in BOOLEAN, SetEnabled(on)
        PROVE  Shape' /\ (race => race')
    <2>1. /\ {Task(Nobody, "spawn", "none")} \in TaskSet
          /\ {Task(Nobody, "stop", "unmap")} \in TaskSet
      BY <1>0, OneRouteTask
    <2>2. tasks' \in TaskSet
      BY <1>0, <1>2, <2>1, TasksAdded DEF SetEnabled
    <2> QED
      BY <1>1, <1>2, <2>2 DEF SetEnabled, Shape, processes
  <1>3. ASSUME NEW then \in Continuations, ManagerStop(then, tasks), UNCHANGED owner
        PROVE  Shape' /\ (race => race')
    BY <1>0, <1>1, <1>3, ManagerStopShape DEF Shape, SessionShape, RestShape
  <1>4. CASE Remove
    <2>1. CASE mapped = Nobody
      <3>1. {Task(Nobody, "delete", "none")} \in TaskSet
        BY <1>0, OneRouteTask
      <3>2. tasks' \in TaskSet
        BY <1>0, <1>4, <2>1, <3>1, TasksAdded DEF Remove
      <3> QED
        BY <1>1, <1>4, <2>1, <3>2 DEF Remove, Shape, processes
    <2>2. CASE mapped # Nobody
      <3>1. mapped \in Sessions
        BY <2>2 DEF Shape
      <3>2. {Task(mapped, "logout", "none")} \in TaskSet
        BY <1>0, <3>1, OneTask
      <3>3. tasks' \in TaskSet
        BY <1>0, <1>4, <2>2, <3>2, TasksAdded DEF Remove
      <3>4. sess' \in SessionMap
        <4>1. [sess[mapped] EXCEPT !.stopped = TRUE] \in SessionRecord
          BY <1>0, <3>1, BitSet DEF SessionMap
        <4>2. sess' = [sess EXCEPT ![mapped] =
                         [sess[mapped] EXCEPT !.stopped = TRUE]]
          BY <1>4, <2>2 DEF Remove
        <4> QED
          BY <1>0, <3>1, <4>1, <4>2, Replaced
      <3> QED
        BY <1>1, <1>4, <3>3, <3>4 DEF Remove, Shape, processes
    <2> QED
      BY <2>1, <2>2
  <1> QED
    BY <1>0, <1>2, <1>3, <1>4 DEF Pause, Resume, Reconnect, OpenQr

LEMMA ShapeOfProcesses ==
    ASSUME Shape,
           \/ Boot \/ WorkerCrash \/ Shutdown \/ CliGivesUp
           \/ \E job \in {"pair", "send", "logout"} : CliStarts(job)
    PROVE  Shape' /\ (race => race')
  <1>0. /\ sess \in SessionMap /\ tasks \in TaskSet /\ beats \in SUBSET Sessions
        /\ {"none", "boot", "cli", "exit"} \subseteq Continuations
        /\ "stop" \in Route
    BY DEF Shape, Continuations, Route
  <1>1. CASE Boot
    <2>1. \/ Spawned("boot", sess, tasks) \/ UNCHANGED <<sess, tasks, mapped>>
      BY <1>1 DEF Boot
    <2>2. sess' \in SessionMap /\ tasks' \in TaskSet
          /\ mapped' \in Sessions \cup {Nobody}
      BY <1>0, <2>1, SpawnedShape DEF Shape
    <2> QED
      BY <1>1, <2>2 DEF Boot, Shape
  <1>2. CASE WorkerCrash
    <2>1. ProcessGone(FALSE, sess, tasks, beats) /\ Spend("crashes", MaxCrashes)
      BY <1>2 DEF WorkerCrash
    <2> QED
      BY <1>0, <1>2, <2>1, ProcessGoneShape, SpendShape
      DEF WorkerCrash, Shape, SessionShape
  <1>3. CASE Shutdown
    <2>1. Spend("crashes", MaxCrashes) /\ {Task(Nobody, "stop", "exit")} \in TaskSet
      BY <1>0, <1>3, OneRouteTask DEF Shutdown
    <2>2. tasks' \in TaskSet
      BY <1>0, <1>3, <2>1, TasksAdded DEF Shutdown
    <2> QED
      BY <1>3, <2>1, <2>2, SpendShape DEF Shutdown, Shape
  <1>4. CASE CliGivesUp
    <2>1. ProcessGone(TRUE, sess, tasks, beats)
      BY <1>4 DEF CliGivesUp
    <2> QED
      BY <1>0, <1>4, <2>1, ProcessGoneShape DEF CliGivesUp, Shape, SessionShape
  <1>5. ASSUME NEW job \in {"pair", "send", "logout"}, CliStarts(job)
        PROVE  Shape' /\ (race => race')
    <2>1. Spend("requests", MaxRequests) /\ Opened("cli", "cli", sess, tasks)
      BY <1>5 DEF CliStarts
    <2>2. sess' \in SessionMap /\ tasks' \in TaskSet
      BY <1>0, <2>1, OpenedShape DEF Hosts
    <2> QED
      BY <1>5, <2>1, <2>2, SpendShape DEF CliStarts, Shape
  <1> QED
    BY <1>1, <1>2, <1>3, <1>4, <1>5

LEMMA ShapeOfClock ==
    ASSUME Shape, KeyExpires \/ KeyLapses \/ HealthRead
    PROVE  Shape' /\ (race => race')
  <1>1. CASE KeyExpires
    BY <1>1 DEF KeyExpires, Shape, processes
  <1>2. CASE KeyLapses
    BY <1>2, SpendShape DEF KeyLapses, Shape, processes
  <1>3. CASE HealthRead
    <2>1. {Task(Nobody, "checking", "none")} \in TaskSet /\ tasks \in TaskSet
      BY OneRouteTask DEF Route, Continuations, Shape
    <2>2. tasks' \in TaskSet
      BY <1>3, <2>1, TasksAdded DEF HealthRead
    <2> QED
      BY <1>3, <2>2 DEF HealthRead, Shape, processes
  <1> QED
    BY <1>1, <1>2, <1>3

LEMMA ShapeInit ==
    ASSUME FleetInit
    PROVE  Shape
  <1>1. sess \in SessionMap
    BY BlankRecord DEF FleetInit, SessionMap
  <1>2. {MaxRequests, MaxDrops, MaxLapses, MaxCrashes} \subseteq Nat
    BY FleetAssumption
  <1>3. line \in [status : Status, enabled : BOOLEAN]
    BY DEF FleetInit, Status
  <1>4. used \in [requests : 0..MaxRequests, drops : 0..MaxDrops,
                  lapses : 0..MaxLapses, crashes : 0..MaxCrashes]
    BY <1>2 DEF FleetInit
  <1> QED
    BY <1>1, <1>3, <1>4, NoTask DEF FleetInit, Shape

\* The shape is kept by every step, and a race that was met is not forgotten.
LEMMA ShapeNext ==
    ASSUME Shape, [FleetNext]_fleetVars
    PROVE  Shape' /\ (race => race')
  <1>1. CASE UNCHANGED fleetVars
    BY <1>1 DEF fleetVars, Shape
  <1>2. ASSUME NEW t \in tasks, TaskStep(t)
        PROVE  Shape' /\ (race => race')
    BY <1>2, ShapeOfStart, ShapeOfWrites, ShapeOfReady, ShapeOfStops,
       ShapeOfRoutes DEF TaskStep
  <1>3. CASE FleetStep
    BY <1>2, <1>3, ShapeOfTimers, ShapeOfSockets, ShapeOfRequests,
       ShapeOfProcesses, ShapeOfClock DEF FleetStep
  <1> QED
    BY <1>1, <1>3 DEF FleetNext

-----------------------------------------------------------------------------
(* What one session is made of, as long as no race was met: its record r,  *)
(* the steps A that its handlers wait at, and whether its renewal runs (b). *)

Opening == Starting \cup Reconnecting
Ops(T, s) == {t.at : t \in {u \in T : u.s = s}}
Opens(A) ==
    "acquire" \in A \/ "files" \in A \/ "reconWrite" \in A \/ "arm" \in A
\* The handlers that end by giving the ownership up, or by opening a socket.
Sustains(A) ==
    \/ "files" \in A \/ "reconWrite" \in A \/ "arm" \in A
    \/ "lastWrite" \in A \/ "lastStop" \in A \/ "banWrite" \in A
    \/ "release" \in A \/ "logout" \in A
Live(r) == LiveSlots(r) # {}
Busy(r, A) == Live(r) \/ r.timer \/ Opens(A)

Fine(r, A, b) ==
    /\ r.host = "none" => r = Blank("none") /\ A = {}
    /\ LiveSlots(r) \subseteq {r.sock} /\ ~r.loose
    /\ Live(r) => ~r.timer
    /\ (Live(r) \/ r.timer) => ~Opens(A)
    /\ "acquire" \in A => ~r.owns
    /\ (Live(r) \/ "files" \in A) => r.owns
    /\ r.owns <=> b
    /\ r.owns => Live(r) \/ r.timer \/ Sustains(A)
    /\ "release" \in A => ~Busy(r, A)
    /\ r.stopped => ~Busy(r, A) \/ "logout" \in A

\* One handler of a session at most is on its way to a socket.
Lone(T, s) ==
    \A t, u \in T : (/\ t.s = s /\ t.at \in Opening
                     /\ u.s = s /\ u.at \in Opening) => t = u
Sound(S, T, B) ==
    \A s \in Sessions : Fine(S[s], Ops(T, s), s \in B) /\ Lone(T, s)

\* The manager's map holds the managed session that is at work, if any.
MapFits(S, T, m) ==
    \A s \in Sessions :
        /\ S[s].host = "managed" /\ Busy(S[s], Ops(T, s)) => m = s
        /\ m = s => S[s].host = "managed"
\* A worker that is down has no session, no map and no request under way.
DownFits(S, T, m, w) ==
    w = "down" => /\ m = Nobody
                  /\ \A s \in Sessions : S[s].host \in {"none", "cli"}
                  /\ \A t \in T : t.s # Nobody
\* What only the manager does after a stop() is never asked for by the CLI.
Managerial == {"respawn", "repair", "remove"}
ThenFits(S, T) ==
    \A t \in T : t.at = "release" /\ t.then \in Managerial => S[t.s].host # "cli"
Held(S, T, m, w) == MapFits(S, T, m) /\ DownFits(S, T, m, w) /\ ThenFits(S, T)
\* The key belongs to the session that believes to own it.
KeyFits ==
    used.lapses = 0 => \A s \in Sessions : sess[s].owns => owner = s

Core ==
    /\ Sound(sess, tasks, beats) /\ Held(sess, tasks, mapped, worker)
    /\ KeyFits
CoreInv == Shape /\ (race \/ Core)

LEMMA OpensIs ==
    ASSUME NEW T, NEW s
    PROVE  Opens(Ops(T, s)) <=> \E t \in T : t.s = s /\ t.at \in Opening
  BY DEF Opens, Ops, Opening, Starting, Reconnecting

\* The tasks M are the tasks T without t.
Dropped(M, T, t) ==
    /\ \A o \in Sessions \ {t.s} : Ops(M, o) = Ops(T, o)
    /\ Ops(M, t.s) \subseteq Ops(T, t.s)
    /\ Ops(T, t.s) \subseteq Ops(M, t.s) \cup {t.at}
    /\ t.at \in Opening => ~Opens(Ops(M, t.s))
    /\ \A o \in Sessions : Lone(M, o)
Covers(M, T) ==
    \A u \in M : \E v \in T : v.s = u.s /\ v.at = u.at /\ v.then = u.then

LEMMA ShiftDrops ==
    ASSUME NEW T, NEW t \in T, NEW M, NEW f, Shifts(f, T \ {t}, M),
           \A o \in Sessions : Lone(T, o), t \in TaskRow
    PROVE  Dropped(M, T, t) /\ Covers(M, T)
  <1>1. ASSUME NEW v \in M
        PROVE  \E u \in T \ {t} : v = f[u] /\ v.s = u.s /\ v.at = u.at
                                  /\ v.then = u.then
    BY DEF Shifts
  <1>2. ASSUME NEW u \in T \ {t}
        PROVE  f[u] \in M /\ f[u].s = u.s /\ f[u].at = u.at
    BY DEF Shifts
  <1>3. Covers(M, T)
    BY <1>1 DEF Covers
  <1>4. \A o \in Sessions \ {t.s} : Ops(M, o) = Ops(T, o)
    <2> TAKE o \in Sessions \ {t.s}
    <2>1. ASSUME NEW x \in Ops(M, o) PROVE x \in Ops(T, o)
      BY <1>1, <2>1 DEF Ops
    <2>2. ASSUME NEW x \in Ops(T, o) PROVE x \in Ops(M, o)
      BY <1>2, <2>2 DEF Ops
    <2> QED
      BY <2>1, <2>2
  <1>5. Ops(M, t.s) \subseteq Ops(T, t.s)
    BY <1>1 DEF Ops
  <1>6. Ops(T, t.s) \subseteq Ops(M, t.s) \cup {t.at}
    <2>1. ASSUME NEW x \in Ops(T, t.s) PROVE x \in Ops(M, t.s) \cup {t.at}
      <3>1. PICK u \in T : u.s = t.s /\ x = u.at
        BY <2>1 DEF Ops
      <3>2. CASE u = t
        BY <3>1, <3>2
      <3>3. CASE u # t
        BY <1>2, <3>1, <3>3 DEF Ops
      <3> QED
        BY <3>2, <3>3
    <2> QED
      BY <2>1
  <1>7. \A o \in Sessions : Lone(M, o)
    <2> SUFFICES ASSUME NEW o \in Sessions, NEW v \in M, NEW w \in M,
                        v.s = o, v.at \in Opening, w.s = o, w.at \in Opening
                 PROVE  v = w
      BY DEF Lone
    <2>1. PICK u \in T \ {t} : v = f[u] /\ u.s = o /\ u.at \in Opening
      BY <1>1
    <2>2. PICK z \in T \ {t} : w = f[z] /\ z.s = o /\ z.at \in Opening
      BY <1>1
    <2> QED
      BY <2>1, <2>2 DEF Lone
  <1>8. t.at \in Opening => ~Opens(Ops(M, t.s))
    <2> SUFFICES ASSUME t.at \in Opening, Opens(Ops(M, t.s)) PROVE FALSE
      OBVIOUS
    <2>1. PICK v \in M : v.s = t.s /\ v.at \in Opening
      BY OpensIs
    <2>2. PICK u \in T \ {t} : u.s = t.s /\ u.at \in Opening
      BY <1>1, <2>1
    <2>3. t.s \in Sessions
      BY DEF TaskRow, Opening, Starting, Reconnecting, Route
    <2> QED
      BY <2>2, <2>3 DEF Lone
  <1> QED
    BY <1>3, <1>4, <1>5, <1>6, <1>7, <1>8 DEF Dropped

\* The two ways a handler leaves its await.
LEMMA TaskDropped ==
    ASSUME Shape, Sound(sess, tasks, beats), NEW t \in tasks
    PROVE  /\ Dropped(tasks \ {t}, tasks, t) /\ Covers(tasks \ {t}, tasks)
           /\ Dropped(Answered(t), tasks, t) /\ Covers(Answered(t), tasks)
  <1>1. t \in TaskRow /\ \A o \in Sessions : Lone(tasks, o)
    BY TaskFacts DEF Sound
  <1>2. Shifts([u \in tasks \ {t} |-> u], tasks \ {t}, tasks \ {t})
    BY DEF Shifts
  <1>3. PICK f : Shifts(f, tasks \ {t}, Answered(t))
    BY AnsweredTasks
  <1> HIDE DEF Shifts
  <1> QED
    BY <1>1, <1>2, <1>3, ShiftDrops

LEMMA TaskAdded ==
    ASSUME NEW T, NEW u, u.s \in Sessions, \A o \in Sessions : Lone(T, o),
           u.at \in Opening => ~Opens(Ops(T, u.s))
    PROVE  /\ Ops(T \cup {u}, u.s) = Ops(T, u.s) \cup {u.at}
           /\ \A o \in Sessions \ {u.s} : Ops(T \cup {u}, o) = Ops(T, o)
           /\ \A o \in Sessions : Lone(T \cup {u}, o)
  <1>1. Ops(T \cup {u}, u.s) = Ops(T, u.s) \cup {u.at}
    BY DEF Ops
  <1>2. \A o \in Sessions \ {u.s} : Ops(T \cup {u}, o) = Ops(T, o)
    BY DEF Ops
  <1>3. ASSUME NEW o \in Sessions PROVE Lone(T \cup {u}, o)
    <2>1. u.at \in Opening => ~\E t \in T : t.s = u.s /\ t.at \in Opening
      BY OpensIs
    <2>2. \A t, v \in T : (/\ t.s = o /\ t.at \in Opening
                           /\ v.s = o /\ v.at \in Opening) => t = v
      BY DEF Lone
    <2> QED
      BY <2>1, <2>2 DEF Lone
  <1> QED
    BY <1>1, <1>2, <1>3

LEMMA RouteAdded ==
    ASSUME NEW T, NEW u, u.s = Nobody, \A o \in Sessions : Lone(T, o)
    PROVE  \A o \in Sessions : Ops(T \cup {u}, o) = Ops(T, o) /\ Lone(T \cup {u}, o)
  <1> TAKE o \in Sessions
  <1>1. o # Nobody
    BY Numbers
  <1>2. Ops(T \cup {u}, o) = Ops(T, o)
    BY <1>1 DEF Ops
  <1>3. Lone(T \cup {u}, o)
    BY <1>1 DEF Lone
  <1> QED
    BY <1>2, <1>3

LEMMA HeldFrame ==
    ASSUME NEW S, NEW T, NEW N, NEW M, NEW m, NEW w, Held(S, T, m, w),
           M \subseteq TaskRow,
           \A o \in Sessions :
               /\ N[o].host = S[o].host
               /\ Busy(N[o], Ops(M, o)) => Busy(S[o], Ops(T, o)),
           \A u \in M : u.at = "release" \/ u.s = Nobody =>
               \E v \in T : v.s = u.s /\ v.at = u.at /\ v.then = u.then
    PROVE  Held(N, M, m, w)
  <1>1. MapFits(N, M, m)
    BY DEF Held, MapFits
  <1>2. DownFits(N, M, m, w)
    BY DEF Held, DownFits
  <1>3. ThenFits(N, M)
    <2> SUFFICES ASSUME NEW u \in M, u.at = "release", u.then \in Managerial
                 PROVE  N[u.s].host # "cli"
      BY DEF ThenFits
    <2>1. u.s \in Sessions
      BY DEF TaskRow, Route
    <2>2. PICK v \in T : v.s = u.s /\ v.at = u.at /\ v.then = u.then
      OBVIOUS
    <2> QED
      BY <2>1, <2>2 DEF Held, ThenFits
  <1> QED
    BY <1>1, <1>2, <1>3 DEF Held

\* One session takes a step: the others see nothing of it.
LEMMA LocalStep ==
    ASSUME Shape, Core, Shape', NEW s \in Sessions, NEW M \in TaskSet,
           Covers(M, tasks),
           \A o \in Sessions \ {s} :
               /\ sess'[o] = sess[o] /\ (o \in beats' <=> o \in beats)
               /\ Ops(tasks', o) = Ops(tasks, o),
           \A o \in Sessions : Lone(tasks', o),
           sess'[s].host = sess[s].host,
           Fine(sess'[s], Ops(tasks', s), s \in beats'),
           Busy(sess'[s], Ops(tasks', s)) => Busy(sess[s], Ops(tasks, s)),
           \A u \in tasks' : u.at = "release" \/ u.s = Nobody => u \in M,
           UNCHANGED <<mapped, worker>>, KeyFits'
    PROVE  Core'
  <1>1. Sound(sess', tasks', beats')
    <2> SUFFICES ASSUME NEW o \in Sessions
                 PROVE  Fine(sess'[o], Ops(tasks', o), o \in beats')
      BY DEF Sound
    <2>1. CASE o = s
      BY <2>1
    <2>2. CASE o # s
      <3>1. Fine(sess[o], Ops(tasks, o), o \in beats)
        BY DEF Core, Sound
      <3>2. o \in beats' <=> o \in beats
        BY <2>2
      <3>3. sess'[o] = sess[o] /\ Ops(tasks', o) = Ops(tasks, o)
        BY <2>2
      <3>4. Fine(sess[o], Ops(tasks, o), o \in beats')
        BY <3>1, <3>2 DEF Fine
      <3> QED
        BY <3>3, <3>4
    <2> QED
      BY <2>1, <2>2
  <1>2. Held(sess', tasks', mapped', worker')
    <2>1. Held(sess, tasks, mapped', worker')
      BY DEF Core
    <2>2. tasks' \subseteq TaskRow
      BY DEF Shape, TaskSet
    <2>3. \A o \in Sessions :
               /\ sess'[o].host = sess[o].host
               /\ Busy(sess'[o], Ops(tasks', o)) => Busy(sess[o], Ops(tasks, o))
      OBVIOUS
    <2>4. \A u \in tasks' : u.at = "release" \/ u.s = Nobody =>
               \E v \in tasks : v.s = u.s /\ v.at = u.at /\ v.then = u.then
      BY DEF Covers
    <2> QED
      BY <2>1, <2>2, <2>3, <2>4, HeldFrame
  <1> QED
    BY <1>1, <1>2 DEF Core

-----------------------------------------------------------------------------
(* What the operators that handlers share make of sound sessions *)

LEMMA EndedIs ==
    ASSUME NEW S \in SessionMap, NEW s \in Sessions,
           LiveSlots(S[s]) \subseteq {S[s].sock}, ~S[s].loose
    PROVE  /\ ~Live(Ended(S, s)[s]) /\ ~Ended(S, s)[s].timer
           /\ ~Ended(S, s)[s].loose /\ LiveSlots(Ended(S, s)[s]) = {}
           /\ Ended(S, s)[s].owns = S[s].owns
           /\ Ended(S, s)[s].host = S[s].host
           /\ \A o \in Sessions \ {s} : Ended(S, s)[o] = S[o]
  <1> DEFINE c == [i \in Slots |-> IF i = S[s].sock THEN "none" ELSE S[s].conn[i]]
             r == [S[s] EXCEPT !.stopped = TRUE, !.timer = FALSE, !.sock = 0,
                               !.conn = c]
  <1>1. Ended(S, s) = [S EXCEPT ![s] = r]
    BY DEF Ended
  <1>2. S[s] \in SessionRecord
    BY DEF SessionMap
  <1>3. /\ r.conn = c /\ ~r.timer /\ r.loose = S[s].loose
        /\ r.owns = S[s].owns /\ r.host = S[s].host
    BY <1>2 DEF SessionRecord
  <1>4. LiveSlots(r) = {}
    <2>1. ASSUME NEW i \in Slots PROVE c[i] \notin LiveConn
      BY DEF LiveConn, LiveSlots
    <2> HIDE DEF c, r
    <2> QED
      BY <1>3, <2>1 DEF LiveSlots
  <1> HIDE DEF r
  <1> QED
    BY <1>1, <1>3, <1>4 DEF SessionMap, Live

\* A session that a handler of its own stops, or that its host stops.
LEMMA EndedSound ==
    ASSUME NEW S \in SessionMap, NEW T, NEW B, NEW s \in Sessions,
           \A o \in Sessions \ {s} : Fine(S[o], Ops(T, o), o \in B),
           \A o \in Sessions : Lone(T, o),
           S[s].host # "none", LiveSlots(S[s]) \subseteq {S[s].sock},
           ~S[s].loose, ~Opens(Ops(T, s)), S[s].owns <=> s \in B,
           S[s].owns => "release" \in Ops(T, s)
    PROVE  Sound(Ended(S, s), T, B) /\ ~Busy(Ended(S, s)[s], Ops(T, s))
  <1> DEFINE E == Ended(S, s)
  <1>1. /\ ~Live(E[s]) /\ ~E[s].timer /\ ~E[s].loose /\ LiveSlots(E[s]) = {}
        /\ E[s].owns = S[s].owns /\ E[s].host = S[s].host
        /\ \A o \in Sessions \ {s} : E[o] = S[o]
    BY EndedIs
  <1> HIDE DEF E
  <1>2. ~Busy(E[s], Ops(T, s))
    BY <1>1 DEF Busy
  <1>3. Fine(E[s], Ops(T, s), s \in B)
    BY <1>1, <1>2 DEF Fine, Opens, Sustains
  <1>4. \A o \in Sessions \ {s} : Fine(E[o], Ops(T, o), o \in B)
    BY <1>1
  <1> QED
    BY <1>2, <1>3, <1>4 DEF Sound, E

LEMMA KeptIs ==
    ASSUME NEW S \in SessionMap, NEW T, NEW B, NEW entry, NEW o \in Sessions
    PROVE  LET K == Kept(S, T, B, entry) IN
           \/ K[o] = S[o]
           \/ /\ K[o] = Blank("none") /\ Ops(T, o) = {} /\ o # entry /\ o \notin B
              /\ \A t \in T : t.s # o
  BY DEF Kept, Ops

\* To forget what nothing refers to changes nothing.
LEMMA KeptSound ==
    ASSUME NEW S \in SessionMap, NEW T \in TaskSet, NEW B, NEW entry, NEW m, NEW w,
           Sound(S, T, B), Held(S, T, m, w), m = entry \/ m = Nobody
    PROVE  /\ Sound(Kept(S, T, B, entry), T, B)
           /\ Held(Kept(S, T, B, entry), T, m, w)
           /\ \A o \in Sessions :
                 /\ Kept(S, T, B, entry)[o].owns => S[o].owns
                 /\ Kept(S, T, B, entry)[o].host \in {S[o].host, "none"}
                 /\ Busy(Kept(S, T, B, entry)[o], Ops(T, o)) =>
                       Busy(S[o], Ops(T, o))
  <1> DEFINE K == Kept(S, T, B, entry)
             N == Blank("none")
  <1>1. ASSUME NEW o \in Sessions
        PROVE  \/ K[o] = S[o]
               \/ /\ K[o] = N /\ Ops(T, o) = {} /\ o # entry /\ o \notin B
                  /\ \A t \in T : t.s # o
    BY KeptIs
  <1>2. /\ N.host = "none" /\ LiveSlots(N) = {} /\ ~N.owns
        /\ ~N.timer /\ ~N.loose /\ ~N.stopped
    BY BlankRecord
  <1> HIDE DEF K, N
  <1>3. Fine(N, {}, FALSE) /\ ~Busy(N, {})
    BY <1>2 DEF Fine, Busy, Live, Opens, N
  <1>4. Sound(K, T, B)
    <2> SUFFICES ASSUME NEW o \in Sessions
                 PROVE  Fine(K[o], Ops(T, o), o \in B) /\ Lone(T, o)
      BY DEF Sound
    <2>1. CASE K[o] = S[o]
      BY <2>1 DEF Sound
    <2>2. CASE K[o] = N /\ Ops(T, o) = {} /\ o \notin B
      <3>1. Fine(N, {}, o \in B)
        BY <1>3, <2>2 DEF Fine
      <3> QED
        BY <2>2, <3>1 DEF Sound
    <2> QED
      BY <1>1, <2>1, <2>2
  <1>5. \A o \in Sessions :
           /\ K[o].owns => S[o].owns
           /\ K[o].host \in {S[o].host, "none"}
           /\ Busy(K[o], Ops(T, o)) => Busy(S[o], Ops(T, o))
    BY <1>1, <1>2, <1>3
  <1>6. MapFits(K, T, m)
    <2> SUFFICES ASSUME NEW o \in Sessions
                 PROVE  /\ (/\ K[o].host = "managed"
                            /\ Busy(K[o], Ops(T, o))) => m = o
                        /\ m = o => K[o].host = "managed"
      BY DEF MapFits
    <2>1. /\ S[o].host = "managed" /\ Busy(S[o], Ops(T, o)) => m = o
          /\ m = o => S[o].host = "managed"
      BY DEF Held, MapFits
    <2>2. m = o => o = entry
      BY Numbers
    <2>3. K[o] = S[o] \/ (K[o] = N /\ Ops(T, o) = {} /\ o # entry)
      BY <1>1
    <2> QED
      BY <1>2, <1>3, <2>1, <2>2, <2>3
  <1>7. DownFits(K, T, m, w)
    BY <1>5 DEF Held, DownFits
  <1>8. ThenFits(K, T)
    <2> SUFFICES ASSUME NEW t \in T, t.at = "release", t.then \in Managerial
                 PROVE  K[t.s].host # "cli"
      BY DEF ThenFits
    <2>1. t.s \in Sessions
      BY DEF TaskSet, TaskRow, Route
    <2> QED
      BY <1>1, <2>1 DEF Held, ThenFits
  <1> QED
    BY <1>4, <1>5, <1>6, <1>7, <1>8 DEF Held, K

\* Renewals that have not been started yet are not among them.
Renewed(B) == B \subseteq beats

\* A new session is at its first await, and was nobody before.
LEMMA OpenedSound ==
    ASSUME NEW host \in Hosts, NEW then \in Continuations,
           NEW S \in SessionMap, NEW T \in TaskSet, NEW B,
           Renewed(B), Sound(S, T, B), Opened(host, then, S, T)
    PROVE  /\ Sound(sess', tasks', B)
           /\ \E n \in Sessions :
                 /\ n = NewId(S, T) /\ n # mapped
                 /\ sess'[n].host = host /\ ~sess'[n].owns
                 /\ \A t \in T : t.s # n
                 /\ \A o \in Sessions \ {n} :
                       sess'[o] = S[o] /\ Ops(tasks', o) = Ops(T, o)
           /\ \A u \in tasks' \ T : u.at = "acquire" /\ u.s \in Sessions
  <1> DEFINE n == NewId(S, T)
             N == [S EXCEPT ![n] = Blank(host)]
             u == StartTask(N, T, n, then)
             R == Blank(host)
  <1>1. n \in Sessions /\ n \in Fresh(S, T)
    BY OpenedShape
  <1>2. sess' = N /\ tasks' = T \cup {u}
    BY DEF Opened
  <1>3. /\ R \in SessionRecord /\ R.host = host /\ LiveSlots(R) = {} /\ ~R.owns
        /\ ~R.timer /\ ~R.loose /\ ~R.stopped
    BY BlankRecord DEF Hosts
  <1>4. n \notin B /\ n # mapped /\ \A t \in T : t.s # n
    BY <1>1 DEF Fresh, Unreferenced, Renewed
  <1> HIDE DEF n, R
  <1>5. N \in SessionMap /\ N[n] = R /\ \A o \in Sessions \ {n} : N[o] = S[o]
    BY <1>1, <1>3, Replaced DEF R
  <1> HIDE DEF N
  <1>6. u.s = n /\ u.at = "acquire"
    BY <1>3, <1>5, StartIs
  <1> HIDE DEF u
  <1>7. Ops(T, n) = {}
    BY <1>4 DEF Ops
  <1>8. \A o \in Sessions : Lone(T, o)
    BY DEF Sound
  <1>9. /\ Ops(tasks', n) = {"acquire"}
        /\ \A o \in Sessions \ {n} : Ops(tasks', o) = Ops(T, o)
        /\ \A o \in Sessions : Lone(tasks', o)
    <2>1. u.at \in Opening => ~Opens(Ops(T, u.s))
      BY <1>6, <1>7 DEF Opens
    <2>2. /\ Ops(T \cup {u}, u.s) = Ops(T, u.s) \cup {u.at}
          /\ \A o \in Sessions \ {u.s} : Ops(T \cup {u}, o) = Ops(T, o)
          /\ \A o \in Sessions : Lone(T \cup {u}, o)
      BY <1>1, <1>6, <1>8, <2>1, TaskAdded
    <2> QED
      BY <1>2, <1>6, <1>7, <2>2
  <1>10. Fine(R, {"acquire"}, n \in B)
    BY <1>3, <1>4 DEF Fine, Live, Busy, Opens, Hosts
  <1>11. Sound(sess', tasks', B)
    <2> SUFFICES ASSUME NEW o \in Sessions
                 PROVE  Fine(sess'[o], Ops(tasks', o), o \in B)
      BY <1>9 DEF Sound
    <2>1. CASE o = n
      BY <1>2, <1>5, <1>9, <1>10, <2>1
    <2>2. CASE o # n
      BY <1>2, <1>5, <1>9, <2>2 DEF Sound
    <2> QED
      BY <2>1, <2>2
  <1>12. \A v \in tasks' \ T : v.at = "acquire" /\ v.s \in Sessions
    BY <1>1, <1>2, <1>6
  <1> QED
    BY <1>1, <1>2, <1>3, <1>4, <1>5, <1>9, <1>11, <1>12 DEF n

\* No session of the manager is at work.
Quiet(S, T) ==
    \A o \in Sessions : ~(S[o].host = "managed" /\ Busy(S[o], Ops(T, o)))

\* It goes into the map when the map was empty, or when no session that the
\* manager started was at work.
LEMMA OpenedHeld ==
    ASSUME NEW host \in Hosts, NEW then \in Continuations,
           NEW S \in SessionMap, NEW T \in TaskSet, NEW B,
           Renewed(B), Sound(S, T, B), Opened(host, then, S, T),
           NEW w, w # "down" \/ host = "cli", NEW m, NEW v, Held(S, T, m, v),
           w = "down" => v = "down",
           \/ host # "managed" /\ mapped' = m /\ m \in {mapped, Nobody}
           \/ host = "managed" /\ mapped' = NewId(S, T) /\ Quiet(S, T)
    PROVE  /\ Sound(sess', tasks', B) /\ Held(sess', tasks', mapped', w)
           /\ \A o \in Sessions : sess'[o].owns => S[o].owns
  <1>1. Sound(sess', tasks', B)
    BY OpenedSound
  <1>2. PICK n \in Sessions :
           /\ n = NewId(S, T) /\ n # mapped
           /\ sess'[n].host = host /\ ~sess'[n].owns
           /\ \A t \in T : t.s # n
           /\ \A o \in Sessions \ {n} :
                 sess'[o] = S[o] /\ Ops(tasks', o) = Ops(T, o)
    BY OpenedSound
  <1>3. \A u \in tasks' \ T : u.at = "acquire" /\ u.s \in Sessions
    BY OpenedSound
  <1>4. MapFits(sess', tasks', mapped')
    <2> SUFFICES ASSUME NEW o \in Sessions
                 PROVE  /\ (/\ sess'[o].host = "managed"
                            /\ Busy(sess'[o], Ops(tasks', o))) => mapped' = o
                        /\ mapped' = o => sess'[o].host = "managed"
      BY DEF MapFits
    <2>1. /\ (S[o].host = "managed" /\ Busy(S[o], Ops(T, o))) => m = o
          /\ m = o => S[o].host = "managed"
      BY DEF Held, MapFits
    <2>2. CASE o = n
      BY <1>2, <2>2, Numbers
    <2>3. CASE o # n
      <3>1. sess'[o] = S[o] /\ Ops(tasks', o) = Ops(T, o)
        BY <1>2, <2>3
      <3> QED
        BY <1>2, <2>1, <2>3, <3>1 DEF Quiet
    <2> QED
      BY <2>2, <2>3
  <1>5. DownFits(sess', tasks', mapped', w)
    <2> SUFFICES ASSUME w = "down"
                 PROVE  /\ mapped' = Nobody
                        /\ \A o \in Sessions : sess'[o].host \in {"none", "cli"}
                        /\ \A t \in tasks' : t.s # Nobody
      BY DEF DownFits
    <2>1. /\ m = Nobody /\ \A o \in Sessions : S[o].host \in {"none", "cli"}
          /\ \A t \in T : t.s # Nobody
      BY DEF Held, DownFits
    <2> QED
      BY <1>2, <1>3, <2>1, Numbers
  <1>6. ThenFits(sess', tasks')
    <2> SUFFICES ASSUME NEW t \in tasks', t.at = "release", t.then \in Managerial
                 PROVE  sess'[t.s].host # "cli"
      BY DEF ThenFits
    <2>1. t \in T
      BY <1>3
    <2>2. t.s \in Sessions
      BY <2>1 DEF TaskSet, TaskRow, Route
    <2> QED
      BY <1>2, <2>1, <2>2 DEF Held, ThenFits
  <1>7. \A o \in Sessions : sess'[o].owns => S[o].owns
    BY <1>2
  <1> QED
    BY <1>1, <1>4, <1>5, <1>6, <1>7 DEF Held

\* The end of a process takes its sessions away, in any condition, and leaves
\* those of the other process as they are.
LEMMA ProcessGoneHeld ==
    ASSUME NEW inCli \in BOOLEAN, NEW S \in SessionMap, NEW T \in TaskSet, NEW B,
           ProcessGone(inCli, S, T, B), Held(S, T, mapped, worker),
           \A o \in Sessions :
               \/ S[o].host # "none" /\ InCli(S[o]) = inCli
               \/ Fine(S[o], Ops(T, o), o \in B),
           \A o \in Sessions : Lone(T, o)
    PROVE  /\ Sound(sess', tasks', beats') /\ Held(sess', tasks', mapped', worker')
           /\ \A o \in Sessions : sess'[o].owns => S[o].owns
  <1> DEFINE Its(o) == S[o].host # "none" /\ InCli(S[o]) = inCli
             N == Blank("none")
  <1>1. /\ \A o \in Sessions : sess'[o] = IF Its(o) THEN N ELSE S[o]
        /\ tasks' = {t \in T : IF t.s = Nobody THEN inCli ELSE ~Its(t.s)}
        /\ \A o \in Sessions : o \in beats' <=> (o \in B /\ ~Its(o))
        /\ mapped' = IF inCli THEN mapped ELSE Nobody
        /\ worker' = IF inCli THEN worker ELSE "down"
    BY DEF ProcessGone
  <1>2. /\ N.host = "none" /\ LiveSlots(N) = {} /\ ~N.owns
        /\ ~N.timer /\ ~N.loose /\ ~N.stopped
    BY BlankRecord
  <1> HIDE DEF N
  <1>3. Fine(N, {}, FALSE) /\ ~Busy(N, {})
    BY <1>2 DEF Fine, Busy, Live, Opens, N
  <1>4. ASSUME NEW o \in Sessions, Its(o)
        PROVE  sess'[o] = N /\ Ops(tasks', o) = {} /\ o \notin beats'
    BY <1>1, <1>4, Numbers DEF Ops
  <1>5. ASSUME NEW o \in Sessions, ~Its(o)
        PROVE  /\ sess'[o] = S[o] /\ Ops(tasks', o) = Ops(T, o)
               /\ o \in beats' <=> o \in B
    <2>1. o # Nobody
      BY Numbers
    <2>2. \A t \in T : t.s = o => t \in tasks'
      BY <1>1, <1>5, <2>1
    <2>3. tasks' \subseteq T
      BY <1>1
    <2> QED
      BY <1>1, <1>5, <2>2, <2>3 DEF Ops
  <1>6. \A o \in Sessions : Lone(tasks', o)
    <2>1. tasks' \subseteq T
      BY <1>1
    <2> QED
      BY <2>1 DEF Lone
  <1>7. Sound(sess', tasks', beats')
    <2> SUFFICES ASSUME NEW o \in Sessions
                 PROVE  Fine(sess'[o], Ops(tasks', o), o \in beats')
      BY <1>6 DEF Sound
    <2>1. CASE Its(o)
      <3>1. Fine(N, {}, o \in beats')
        BY <1>3, <1>4, <2>1 DEF Fine
      <3> QED
        BY <1>4, <2>1, <3>1
    <2>2. CASE ~Its(o)
      <3>1. Fine(S[o], Ops(T, o), o \in B)
        BY <2>2
      <3>2. Fine(S[o], Ops(T, o), o \in beats')
        BY <1>5, <2>2, <3>1 DEF Fine
      <3> QED
        BY <1>5, <2>2, <3>2
    <2> QED
      BY <2>1, <2>2
  <1>8. MapFits(sess', tasks', mapped')
    <2> SUFFICES ASSUME NEW o \in Sessions
                 PROVE  /\ (/\ sess'[o].host = "managed"
                            /\ Busy(sess'[o], Ops(tasks', o))) => mapped' = o
                        /\ mapped' = o => sess'[o].host = "managed"
      BY DEF MapFits
    <2>1. /\ (S[o].host = "managed" /\ Busy(S[o], Ops(T, o))) => mapped = o
          /\ mapped = o => S[o].host = "managed"
      BY DEF Held, MapFits
    <2>2. CASE Its(o)
      <3>1. mapped' # o
        BY <1>1, <2>1, <2>2, Numbers DEF InCli
      <3> QED
        BY <1>2, <1>4, <2>2, <3>1
    <2>3. CASE ~Its(o)
      <3>1. mapped' = o => mapped = o
        BY <1>1, Numbers
      <3>2. S[o].host = "managed" => inCli
        BY <2>3 DEF InCli
      <3> QED
        BY <1>1, <1>5, <2>1, <2>3, <3>1, <3>2
    <2> QED
      BY <2>2, <2>3
  <1>9. DownFits(sess', tasks', mapped', worker')
    <2>1. CASE inCli
      <3>1. DownFits(S, T, mapped, worker)
        BY DEF Held
      <3>2. \A o \in Sessions : sess'[o].host \in {S[o].host, "none"}
        BY <1>1, <1>2
      <3> QED
        BY <1>1, <2>1, <3>1, <3>2 DEF DownFits
    <2>2. CASE ~inCli
      <3>1. \A o \in Sessions : sess'[o].host \in {"none", "cli"}
        BY <1>1, <1>2, <2>2 DEF InCli
      <3> QED
        BY <1>1, <2>2, <3>1 DEF DownFits
    <2> QED
      BY <2>1, <2>2
  <1>10. ThenFits(sess', tasks')
    <2> SUFFICES ASSUME NEW t \in tasks', t.at = "release", t.then \in Managerial
                 PROVE  sess'[t.s].host # "cli"
      BY DEF ThenFits
    <2>1. t \in T
      BY <1>1
    <2>2. t.s \in Sessions
      BY <2>1 DEF TaskSet, TaskRow, Route
    <2> QED
      BY <1>1, <1>2, <2>1, <2>2 DEF Held, ThenFits
  <1>11. \A o \in Sessions : sess'[o].owns => S[o].owns
    BY <1>1, <1>2
  <1> QED
    BY <1>7, <1>8, <1>9, <1>10, <1>11 DEF Held

LEMMA QuietHeld ==
    ASSUME NEW S, NEW T, NEW m, NEW w, Held(S, T, m, w), Quiet(S, T)
    PROVE  Held(S, T, Nobody, w)
  <1>1. MapFits(S, T, Nobody)
    BY Numbers DEF Quiet, MapFits
  <1>2. DownFits(S, T, Nobody, w)
    BY DEF Held, DownFits
  <1> QED
    BY <1>1, <1>2 DEF Held

\* What the caller of stop() does once no session that it takes out of the map
\* is at work.
Unmaps(r, then) ==
    \/ then \in {"unmap", "respawn", "repair", "remove"}
    \/ then = "terminal" /\ r.host = "managed"

LEMMA AfterHeld ==
    ASSUME Shape, NEW s, NEW then \in Continuations,
           NEW S \in SessionMap, NEW T \in TaskSet, NEW B, Renewed(B),
           Sound(S, T, B), Held(S, T, mapped, worker),
           Unmaps(S[s], then) => Quiet(S, T),
           then \in Managerial => worker # "down",
           After(s, then, S, T, B)
    PROVE  /\ Sound(sess', tasks', beats') /\ Held(sess', tasks', mapped', worker')
           /\ \A o \in Sessions : sess'[o].owns => S[o].owns
  <1> DEFINE K == Kept(S, T, B, Nobody)
  <1>1. CASE /\ sess' = Kept(S, T, B, mapped) /\ tasks' = T /\ beats' = B
             /\ UNCHANGED <<mapped, processes>>
    BY <1>1, KeptSound DEF processes
  <1>2. ASSUME Unmaps(S[s], then)
        PROVE  /\ K \in SessionMap /\ Sound(K, T, B) /\ Held(K, T, Nobody, worker)
               /\ Quiet(K, T) /\ \A o \in Sessions : K[o].owns => S[o].owns
    <2>1. Held(S, T, Nobody, worker)
      BY <1>2, QuietHeld
    <2>2. K \in SessionMap
      BY KeptShape
    <2>3. /\ Sound(K, T, B) /\ Held(K, T, Nobody, worker)
          /\ \A o \in Sessions :
                /\ K[o].owns => S[o].owns
                /\ K[o].host \in {S[o].host, "none"}
                /\ Busy(K[o], Ops(T, o)) => Busy(S[o], Ops(T, o))
      BY <2>1, KeptSound
    <2> HIDE DEF K
    <2>4. ASSUME NEW o \in Sessions
          PROVE  ~(K[o].host = "managed" /\ Busy(K[o], Ops(T, o)))
      <3>1. ~(S[o].host = "managed" /\ Busy(S[o], Ops(T, o)))
        BY <1>2 DEF Quiet
      <3>2. K[o].host = "managed" => S[o].host = "managed"
        BY <2>3
      <3>3. Busy(K[o], Ops(T, o)) => Busy(S[o], Ops(T, o))
        BY <2>3
      <3> QED
        BY <3>1, <3>2, <3>3
    <2> QED
      BY <2>2, <2>3, <2>4 DEF Quiet
  <1>3. CASE /\ Unmaps(S[s], then) /\ mapped' = Nobody
             /\ sess' = K /\ tasks' = T /\ beats' = B /\ UNCHANGED processes
    BY <1>2, <1>3 DEF processes
  <1>4. CASE /\ then = "respawn" /\ Spawned("spawn", K, T)
             /\ beats' = B /\ UNCHANGED processes
    <2>1. Unmaps(S[s], then) /\ then \in Managerial
      BY <1>4 DEF Unmaps, Managerial
    <2>2. /\ K \in SessionMap /\ Sound(K, T, B) /\ Held(K, T, Nobody, worker)
          /\ Quiet(K, T) /\ \A o \in Sessions : K[o].owns => S[o].owns
      BY <1>2, <2>1
    <2>3. /\ Opened("managed", "spawn", K, T) /\ mapped' = NewId(K, T)
          /\ worker' = worker /\ worker # "down" /\ beats' = B
      BY <1>4, <2>1 DEF Spawned, processes
    <2> HIDE DEF K
    <2>4. /\ Sound(sess', tasks', B) /\ Held(sess', tasks', mapped', worker)
          /\ \A o \in Sessions : sess'[o].owns => K[o].owns
      <3>1. "managed" \in Hosts /\ "spawn" \in Continuations
        BY DEF Hosts, Continuations
      <3> QED
        BY <2>2, <2>3, <3>1, OpenedHeld
    <2> QED
      BY <2>2, <2>3, <2>4
  <1>5. CASE /\ then = "repair" /\ Opened("qr", "qr", K, T)
             /\ beats' = B /\ mapped' = Nobody /\ UNCHANGED processes
    <2>1. Unmaps(S[s], then) /\ then \in Managerial
      BY <1>5 DEF Unmaps, Managerial
    <2>2. /\ K \in SessionMap /\ Sound(K, T, B) /\ Held(K, T, Nobody, worker)
          /\ Quiet(K, T) /\ \A o \in Sessions : K[o].owns => S[o].owns
      BY <1>2, <2>1
    <2>3. /\ Opened("qr", "qr", K, T) /\ mapped' = Nobody
          /\ worker' = worker /\ worker # "down" /\ beats' = B
      BY <1>5, <2>1 DEF processes
    <2> HIDE DEF K
    <2>4. /\ Sound(sess', tasks', B) /\ Held(sess', tasks', mapped', worker)
          /\ \A o \in Sessions : sess'[o].owns => K[o].owns
      <3>1. "qr" \in Hosts /\ "qr" \in Continuations /\ "qr" # "managed"
        BY DEF Hosts, Continuations
      <3> QED
        BY <2>2, <2>3, <3>1, OpenedHeld
    <2> QED
      BY <2>2, <2>3, <2>4
  <1>6. CASE /\ then = "remove" /\ sess' = K
             /\ tasks' = T \cup {Task(Nobody, "delete", "none")}
             /\ beats' = B /\ mapped' = Nobody /\ UNCHANGED processes
    <2> DEFINE u == Task(Nobody, "delete", "none")
    <2>1. Unmaps(S[s], then) /\ then \in Managerial
      BY <1>6 DEF Unmaps, Managerial
    <2>2. /\ Sound(K, T, B) /\ Held(K, T, Nobody, worker)
          /\ \A o \in Sessions : K[o].owns => S[o].owns
      BY <1>2, <2>1
    <2>3. u.s = Nobody /\ u.at # "release"
      BY DEF Task
    <2>4. sess' = K /\ tasks' = T \cup {u} /\ beats' = B /\ mapped' = Nobody
          /\ worker' = worker /\ worker # "down"
      BY <1>6, <2>1 DEF processes
    <2> HIDE DEF K, u
    <2>5. \A o \in Sessions : Ops(tasks', o) = Ops(T, o) /\ Lone(tasks', o)
      BY <2>2, <2>3, <2>4, RouteAdded DEF Sound
    <2>6. Sound(K, tasks', B)
      BY <2>2, <2>5 DEF Sound
    <2>7. Held(K, tasks', Nobody, worker)
      <3>1. MapFits(K, tasks', Nobody)
        BY <2>2, <2>5 DEF Held, MapFits
      <3>2. ThenFits(K, tasks')
        BY <2>2, <2>3, <2>4 DEF Held, ThenFits
      <3> QED
        BY <2>4, <3>1, <3>2 DEF Held, DownFits
    <2> QED
      BY <2>2, <2>4, <2>6, <2>7
  <1>7. ASSUME NEW inCli \in BOOLEAN, ProcessGone(inCli, S, T, B)
        PROVE  /\ Sound(sess', tasks', beats')
               /\ Held(sess', tasks', mapped', worker')
               /\ \A o \in Sessions : sess'[o].owns => S[o].owns
    <2>1. \A o \in Sessions : Fine(S[o], Ops(T, o), o \in B) /\ Lone(T, o)
      BY DEF Sound
    <2> QED
      BY <1>7, <2>1, ProcessGoneHeld
  <1>8. PICK inCli \in BOOLEAN : inCli = InCli(S[s])
    BY DEF InCli
  <1> HIDE DEF K
  <1> QED
    BY <1>1, <1>3, <1>4, <1>5, <1>6, <1>7, <1>8 DEF After, Unmaps, K

\* T is what stop() finds of the tasks: all of them, or all but its caller's.
Before(T, s) ==
    /\ \A o \in Sessions \ {s} : Ops(T, o) = Ops(tasks, o)
    /\ Ops(T, s) \subseteq Ops(tasks, s)
    /\ \A o \in Sessions : Lone(T, o)
    /\ Covers(T, tasks)

\* stop(), which is asked for only while it races with nothing.
LEMMA StopThenHeld ==
    ASSUME Shape, Core, NEW s \in Sessions, sess[s].host # "none",
           NEW T \in TaskSet, Before(T, s), NEW then \in Continuations,
           then \in Managerial => sess[s].host # "cli",
           StopThen(s, then, sess, T), ~race'
    PROVE  /\ Sound(sess', tasks', beats') /\ Held(sess', tasks', mapped', worker')
           /\ \A o \in Sessions : sess'[o].owns => sess[o].owns
  <1> DEFINE E == Ended(sess, s)
  <1>1. /\ ~race /\ ~(~sess[s].owns /\ Displaces(s, then)) /\ ~Opens(Ops(T, s))
    <2>1. ~\E t \in T : t.s = s /\ t.at \in Opening
      BY DEF StopThen, Opening
    <2> QED
      BY <2>1, OpensIs DEF StopThen
  <1>2. /\ sess \in SessionMap /\ E \in SessionMap
        /\ LiveSlots(sess[s]) \subseteq {sess[s].sock}
        /\ ~sess[s].loose /\ (sess[s].owns <=> s \in beats)
    BY EndedShape DEF Shape, Core, Sound, Fine
  <1>3. /\ E[s].owns = sess[s].owns /\ E[s].host = sess[s].host
        /\ \A o \in Sessions \ {s} : E[o] = sess[o]
    BY <1>2, EndedIs
  <1>4. \A o \in Sessions \ {s} : Fine(sess[o], Ops(T, o), o \in beats)
    BY DEF Core, Sound, Before
  <1>5. \A o \in Sessions : Lone(T, o)
    BY DEF Before
  <1> HIDE DEF E
  <1>6. Held(E, T, mapped, worker) /\ ~Busy(E[s], Ops(T, s))
    <2>1. ~Live(E[s]) /\ ~E[s].timer
      BY <1>2, EndedIs DEF E
    <2>2. ~Busy(E[s], Ops(T, s))
      BY <1>1, <2>1 DEF Busy
    <2>3. \A o \in Sessions :
             /\ E[o].host = sess[o].host
             /\ Busy(E[o], Ops(T, o)) => Busy(sess[o], Ops(tasks, o))
      BY <1>3, <2>2 DEF Before
    <2>4. /\ Held(sess, tasks, mapped, worker) /\ T \subseteq TaskRow
          /\ \A u \in T : \E v \in tasks : v.s = u.s /\ v.at = u.at
                                            /\ v.then = u.then
      BY DEF Core, TaskSet, Before, Covers
    <2> QED
      BY <2>2, <2>3, <2>4, HeldFrame
  <1>7. CASE sess[s].owns
    <2> DEFINE u == RedisTask(sess, T, s, "release", then)
               M == T \cup {u}
    <2>1. u.s = s /\ u.at = "release" /\ u.then = then
      BY DEF RedisTask, Task
    <2>2. sess' = E /\ tasks' = M /\ beats' = beats
          /\ mapped' = mapped /\ worker' = worker
      BY <1>7 DEF StopThen, E, processes
    <2> HIDE DEF u
    <2>3. /\ Ops(M, s) = Ops(T, s) \cup {"release"}
          /\ \A o \in Sessions \ {s} : Ops(M, o) = Ops(T, o)
          /\ \A o \in Sessions : Lone(M, o)
      <3>1. u.at \in Opening => ~Opens(Ops(T, u.s))
        BY <1>1, <2>1
      <3>2. u.s \in Sessions
        BY <2>1
      <3> QED
        BY <1>5, <2>1, <3>1, <3>2, TaskAdded
    <2> HIDE DEF M
    <2>4. ~Opens(Ops(M, s)) /\ "release" \in Ops(M, s)
      BY <1>1, <2>3 DEF Opens
    <2>5. \A o \in Sessions \ {s} : Fine(sess[o], Ops(M, o), o \in beats)
      BY <1>4, <2>3
    <2>6. Sound(E, M, beats) /\ ~Busy(E[s], Ops(M, s))
      BY <1>2, <2>3, <2>4, <2>5, EndedSound DEF E
    <2>7. Held(E, M, mapped, worker)
      <3>1. MapFits(E, M, mapped)
        <4> SUFFICES ASSUME NEW o \in Sessions
                     PROVE  /\ (/\ E[o].host = "managed"
                                /\ Busy(E[o], Ops(M, o))) => mapped = o
                            /\ mapped = o => E[o].host = "managed"
          BY DEF MapFits
        <4>1. /\ (/\ E[o].host = "managed"
                  /\ Busy(E[o], Ops(T, o))) => mapped = o
              /\ mapped = o => E[o].host = "managed"
          BY <1>6 DEF Held, MapFits
        <4>2. Busy(E[o], Ops(M, o)) => Busy(E[o], Ops(T, o))
          BY <2>3, <2>6
        <4> QED
          BY <4>1, <4>2
      <3>2. DownFits(E, M, mapped, worker)
        BY <1>6, <2>1, Numbers DEF Held, DownFits, M
      <3>3. ThenFits(E, M)
        BY <1>3, <1>6, <2>1 DEF Held, ThenFits, M
      <3> QED
        BY <3>1, <3>2, <3>3 DEF Held
    <2>8. \A o \in Sessions : E[o].owns => sess[o].owns
      BY <1>3
    <2> QED
      BY <2>2, <2>6, <2>7, <2>8
  <1>8. CASE ~sess[s].owns
    <2>1. After(s, then, E, T, beats) /\ ~Displaces(s, then) /\ Renewed(beats)
      BY <1>1, <1>8 DEF StopThen, E, Renewed
    <2>2. Sound(E, T, beats)
      BY <1>1, <1>2, <1>4, <1>5, <1>8, EndedSound DEF E
    <2>3. ASSUME Unmaps(E[s], then) PROVE Quiet(E, T)
      <3>1. mapped \in {s, Nobody}
        BY <1>3, <2>1, <2>3 DEF Displaces, Unmaps
      <3>2. ASSUME NEW o \in Sessions, E[o].host = "managed", Busy(E[o], Ops(T, o))
            PROVE  FALSE
        <4>1. mapped = o
          BY <1>6, <3>2 DEF Held, MapFits
        <4>2. o = s
          BY <3>1, <4>1, Numbers
        <4> QED
          BY <1>6, <3>2, <4>2
      <3> QED
        BY <3>2 DEF Quiet
    <2>4. then \in Managerial => worker # "down"
      BY DEF Core, Held, DownFits
    <2>5. /\ Sound(sess', tasks', beats') /\ Held(sess', tasks', mapped', worker')
          /\ \A o \in Sessions : sess'[o].owns => E[o].owns
      BY <1>2, <1>6, <2>1, <2>2, <2>3, <2>4, AfterHeld
    <2> QED
      BY <1>3, <2>5
  <1> QED
    BY <1>7, <1>8

-----------------------------------------------------------------------------
(* Every step keeps the core.  First the steps that end in stop(). *)

\* All that Fine reads of a record, but the flags owns and stopped.
Same(q, r) ==
    /\ q.host = r.host /\ LiveSlots(q) = LiveSlots(r) /\ q.sock = r.sock
    /\ q.timer = r.timer /\ q.loose = r.loose

LEMMA FlagSet ==
    ASSUME NEW r \in SessionRecord, NEW b \in BOOLEAN
    PROVE  /\ Same([r EXCEPT !.owns = b], r)
           /\ [r EXCEPT !.owns = b].owns = b
           /\ [r EXCEPT !.owns = b].stopped = r.stopped
           /\ Same([r EXCEPT !.stopped = b], r)
           /\ [r EXCEPT !.stopped = b].stopped = b
           /\ [r EXCEPT !.stopped = b].owns = r.owns
           /\ Same([r EXCEPT !.ready = b], r)
           /\ [r EXCEPT !.ready = b].owns = r.owns
           /\ [r EXCEPT !.ready = b].stopped = r.stopped
  <1>1. /\ Same([r EXCEPT !.owns = b], r) /\ [r EXCEPT !.owns = b].owns = b
        /\ [r EXCEPT !.owns = b].stopped = r.stopped
    BY DEF SessionRecord, Same, LiveSlots
  <1>2. /\ Same([r EXCEPT !.stopped = b], r) /\ [r EXCEPT !.stopped = b].stopped = b
        /\ [r EXCEPT !.stopped = b].owns = r.owns
    BY DEF SessionRecord, Same, LiveSlots
  <1>3. /\ Same([r EXCEPT !.ready = b], r)
        /\ [r EXCEPT !.ready = b].owns = r.owns
        /\ [r EXCEPT !.ready = b].stopped = r.stopped
    BY DEF SessionRecord, Same, LiveSlots
  <1> QED
    BY <1>1, <1>2, <1>3

LEMMA KeyKept ==
    ASSUME Core, UNCHANGED owner, used'.lapses = 0 => used.lapses = 0,
           \A o \in Sessions : sess'[o].owns => sess[o].owns
    PROVE  KeyFits'
  BY DEF Core, KeyFits

LEMMA LapsesGrow ==
    ASSUME Shape,
           \/ UNCHANGED used \/ Spend("requests", MaxRequests)
           \/ Spend("drops", MaxDrops) \/ Spend("crashes", MaxCrashes)
    PROVE  used'.lapses = 0 => used.lapses = 0
  BY DEF Shape, Spend

LEMMA CoreIs ==
    ASSUME Sound(sess', tasks', beats'), Held(sess', tasks', mapped', worker'),
           KeyFits'
    PROVE  Core'
  BY DEF Core

LEMMA HasHost ==
    ASSUME Core, NEW t \in tasks, t.s \in Sessions
    PROVE  sess[t.s].host # "none" /\ t.at \in Ops(tasks, t.s)
  <1>1. t.at \in Ops(tasks, t.s)
    BY DEF Ops
  <1> QED
    BY <1>1 DEF Core, Sound, Fine

LEMMA ReleaseKeeps ==
    ASSUME Shape, Core, NEW t \in tasks, Release(t), ~race'
    PROVE  Core'
  <1> DEFINE s == t.s
             q == [sess[s] EXCEPT !.owns = FALSE]
             S == [sess EXCEPT ![s] = q]
             T == Answered(t)
             B == beats \ {s}
  <1>1. /\ s \in Sessions /\ t.then \in Continuations /\ t.at = "release"
        /\ sess \in SessionMap /\ sess[s] \in SessionRecord
    BY TaskFacts DEF Shape, SessionMap, Release, Route
  <1>2. sess[s].host # "none" /\ "release" \in Ops(tasks, s)
    BY <1>1, HasHost
  <1>3. /\ Dropped(T, tasks, t) /\ Covers(T, tasks) /\ T \in TaskSet
    BY TaskDropped, AnsweredTasks DEF Core
  <1>4. Same(q, sess[s]) /\ ~q.owns /\ q.stopped = sess[s].stopped
    BY <1>1, FlagSet
  <1>5. q \in SessionRecord
    BY <1>1, BitSet
  <1>6. After(s, t.then, S, T, B) /\ ~Displaces(s, t.then) /\ ~race
        /\ owner' = (IF owner = s THEN Nobody ELSE owner) /\ used' = used
    BY DEF Release
  <1> HIDE DEF q, T
  <1>7. S \in SessionMap /\ S[s] = q /\ \A o \in Sessions \ {s} : S[o] = sess[o]
    BY <1>1, <1>5, Replaced
  <1> HIDE DEF S
  <1>8. Fine(sess[s], Ops(tasks, s), s \in beats) /\ ~Busy(sess[s], Ops(tasks, s))
    BY <1>1, <1>2 DEF Core, Sound, Fine
  <1>9. ~Busy(q, Ops(T, s))
    BY <1>3, <1>4, <1>8 DEF Busy, Dropped, Same, Live, Opens
  <1>10. Fine(q, Ops(T, s), FALSE)
    BY <1>1, <1>2, <1>3, <1>4, <1>8, <1>9
    DEF Fine, Same, Busy, Live, Dropped, Opens
  <1>11. Sound(S, T, B)
    <2> SUFFICES ASSUME NEW o \in Sessions
                 PROVE  Fine(S[o], Ops(T, o), o \in B)
      BY <1>3 DEF Sound, Dropped
    <2>1. CASE o = s
      <3>1. Fine(q, Ops(T, s), s \in B)
        BY <1>10 DEF Fine
      <3> QED
        BY <1>7, <2>1, <3>1
    <2>2. CASE o # s
      <3>1. Fine(sess[o], Ops(tasks, o), o \in beats)
        BY DEF Core, Sound
      <3>2. Fine(sess[o], Ops(tasks, o), o \in B)
        BY <2>2, <3>1 DEF Fine
      <3> QED
        BY <1>3, <1>7, <2>2, <3>2 DEF Dropped
    <2> QED
      BY <2>1, <2>2
  <1>12. Held(S, T, mapped, worker)
    <2>1. \A o \in Sessions :
             /\ S[o].host = sess[o].host
             /\ Busy(S[o], Ops(T, o)) => Busy(sess[o], Ops(tasks, o))
      BY <1>3, <1>4, <1>7, <1>9 DEF Dropped, Same
    <2>2. /\ Held(sess, tasks, mapped, worker) /\ T \subseteq TaskRow
          /\ \A u \in T : \E v \in tasks : v.s = u.s /\ v.at = u.at
                                            /\ v.then = u.then
      BY <1>3 DEF Core, TaskSet, Covers
    <2> QED
      BY <2>1, <2>2, HeldFrame
  <1>13. ASSUME Unmaps(S[s], t.then) PROVE Quiet(S, T)
    <2>1. mapped \in {s, Nobody}
      BY <1>4, <1>6, <1>7, <1>13 DEF Displaces, Unmaps, Same
    <2>2. ASSUME NEW o \in Sessions, S[o].host = "managed", Busy(S[o], Ops(T, o))
          PROVE  FALSE
      <3>1. mapped = o
        BY <1>12, <2>2 DEF Held, MapFits
      <3>2. o = s
        BY <2>1, <3>1, Numbers
      <3> QED
        BY <1>7, <1>9, <2>2, <3>2
    <2> QED
      BY <2>2 DEF Quiet
  <1>14. t.then \in Managerial => worker # "down"
    BY <1>1, <1>2 DEF Core, Held, DownFits, ThenFits
  <1>15. Renewed(B)
    BY DEF Renewed
  <1> HIDE DEF s, B
  <1>16. /\ Sound(sess', tasks', beats') /\ Held(sess', tasks', mapped', worker')
         /\ \A o \in Sessions : sess'[o].owns => S[o].owns
    BY <1>1, <1>3, <1>6, <1>7, <1>11, <1>12, <1>13, <1>14, <1>15, AfterHeld
  <1>17. KeyFits'
    <2> SUFFICES ASSUME used.lapses = 0, NEW o \in Sessions, sess'[o].owns
                 PROVE  owner' = o
      BY <1>6 DEF KeyFits
    <2>1. S[o].owns
      BY <1>16
    <2>2. o # s /\ sess[o].owns
      BY <1>4, <1>7, <2>1
    <2>3. owner = o
      BY <2>2 DEF Core, KeyFits
    <2> QED
      BY <1>6, <2>2, <2>3
  <1> QED
    BY <1>16, <1>17, CoreIs

LEMMA StopsKeeps ==
    ASSUME Shape, Core, NEW t \in tasks, Stops(t), ~race'
    PROVE  Core'
  <1> DEFINE T == tasks \ {t}
  <1>1. t.s \in Sessions /\ T \in TaskSet
    BY TaskFacts DEF Stops, Route
  <1>2. sess[t.s].host # "none"
    BY <1>1, HasHost
  <1>3. Before(T, t.s)
    BY TaskDropped DEF Core, Dropped, Before
  <1>4. PICK then \in Continuations :
           /\ StopThen(t.s, then, sess, T)
           /\ then \in Managerial => sess[t.s].host # "cli"
    BY DEF Stops, Continuations, Managerial, InCli
  <1> HIDE DEF T
  <1>5. /\ Sound(sess', tasks', beats') /\ Held(sess', tasks', mapped', worker')
        /\ \A o \in Sessions : sess'[o].owns => sess[o].owns
    BY <1>1, <1>2, <1>3, <1>4, StopThenHeld
  <1>6. KeyFits'
    BY <1>5, KeyKept DEF Stops
  <1> QED
    BY <1>5, <1>6, CoreIs

\* The tasks of the sessions are as they were; those of the routes may not be.
Intact(T) ==
    /\ \A o \in Sessions : Ops(T, o) = Ops(tasks, o) /\ Lone(T, o)
    /\ Covers(T, tasks)

LEMMA IntactHeld ==
    ASSUME Core, NEW T \in TaskSet, Intact(T)
    PROVE  /\ Sound(sess, T, beats) /\ Held(sess, T, mapped, worker)
           /\ \A s \in Sessions : Before(T, s)
  <1>1. Sound(sess, T, beats)
    BY DEF Core, Sound, Intact
  <1>2. Held(sess, T, mapped, worker)
    <2>1. \A o \in Sessions :
             /\ sess[o].host = sess[o].host
             /\ Busy(sess[o], Ops(T, o)) => Busy(sess[o], Ops(tasks, o))
      BY DEF Intact
    <2>2. /\ Held(sess, tasks, mapped, worker) /\ T \subseteq TaskRow
          /\ \A u \in T : \E v \in tasks : v.s = u.s /\ v.at = u.at
                                            /\ v.then = u.then
      BY DEF Core, TaskSet, Covers, Intact
    <2> QED
      BY <2>1, <2>2, HeldFrame
  <1>3. \A s \in Sessions : Before(T, s)
    BY DEF Intact, Before
  <1> QED
    BY <1>1, <1>2, <1>3

LEMMA AllIntact ==
    ASSUME Shape, Core
    PROVE  /\ Intact(tasks) /\ tasks \in TaskSet
           /\ \A t \in tasks :
                 t.s = Nobody => /\ Intact(tasks \ {t}) /\ worker # "down"
                                 /\ tasks \ {t} \in TaskSet
  <1>1. Intact(tasks) /\ tasks \in TaskSet
    BY DEF Core, Sound, Intact, Covers, Shape
  <1>2. ASSUME NEW t \in tasks, t.s = Nobody
        PROVE  /\ Intact(tasks \ {t}) /\ worker # "down"
               /\ tasks \ {t} \in TaskSet
    <2>1. Dropped(tasks \ {t}, tasks, t) /\ Covers(tasks \ {t}, tasks)
      BY TaskDropped DEF Core
    <2>2. \A o \in Sessions : o # t.s
      BY <1>2, Numbers
    <2>3. Intact(tasks \ {t})
      BY <2>1, <2>2 DEF Dropped, Intact
    <2>4. worker # "down"
      BY <1>2 DEF Core, Held, DownFits
    <2> QED
      BY <2>3, <2>4, TaskFacts
  <1> QED
    BY <1>1, <1>2

LEMMA ManagerSpawnHeld ==
    ASSUME Shape, Core, NEW T \in TaskSet, Intact(T), worker # "down",
           ManagerSpawn(T), UNCHANGED <<beats, worker>>
    PROVE  /\ Sound(sess', tasks', beats') /\ Held(sess', tasks', mapped', worker')
           /\ \A o \in Sessions : sess'[o].owns => sess[o].owns
  <1>1. Sound(sess, T, beats) /\ Held(sess, T, mapped, worker)
    BY IntactHeld
  <1>2. CASE mapped # Nobody
    BY <1>1, <1>2 DEF ManagerSpawn
  <1>3. CASE mapped = Nobody
    <2>1. Opened("managed", "spawn", sess, T) /\ mapped' = NewId(sess, T)
      BY <1>3 DEF ManagerSpawn, Spawned
    <2>2. Quiet(sess, T)
      BY <1>1, <1>3, Numbers DEF Held, MapFits, Quiet
    <2>3. "managed" \in Hosts /\ "spawn" \in Continuations /\ sess \in SessionMap
          /\ Renewed(beats)
      BY DEF Hosts, Continuations, Shape, Renewed
    <2>4. /\ Sound(sess', tasks', beats) /\ Held(sess', tasks', mapped', worker)
          /\ \A o \in Sessions : sess'[o].owns => sess[o].owns
      BY <1>1, <2>1, <2>2, <2>3, OpenedHeld
    <2> QED
      BY <2>4
  <1> QED
    BY <1>2, <1>3

LEMMA ManagerStopHeld ==
    ASSUME Shape, Core, NEW T \in TaskSet, Intact(T), worker # "down",
           NEW then \in Continuations, ManagerStop(then, T), ~race'
    PROVE  /\ Sound(sess', tasks', beats') /\ Held(sess', tasks', mapped', worker')
           /\ \A o \in Sessions : sess'[o].owns => sess[o].owns
  <1>1. Sound(sess, T, beats) /\ Held(sess, T, mapped, worker)
    BY IntactHeld
  <1>2. sess \in SessionMap /\ Renewed(beats) /\ mapped \in Sessions \cup {Nobody}
    BY DEF Shape, Renewed
  <1>3. CASE mapped # Nobody
    <2>1. mapped \in Sessions /\ StopThen(mapped, then, sess, T)
      BY <1>2, <1>3 DEF ManagerStop
    <2>2. sess[mapped].host = "managed" /\ Before(T, mapped)
      BY <2>1, IntactHeld DEF Core, Held, MapFits
    <2> QED
      BY <2>1, <2>2, StopThenHeld
  <1>4. CASE mapped = Nobody /\ then = "exit"
    <2>1. ProcessGone(FALSE, sess, T, beats)
      BY <1>4 DEF ManagerStop
    <2>2. \A o \in Sessions : Fine(sess[o], Ops(T, o), o \in beats) /\ Lone(T, o)
      BY <1>1 DEF Sound
    <2> QED
      BY <1>1, <1>2, <2>1, <2>2, ProcessGoneHeld
  <1>5. CASE mapped = Nobody /\ then # "exit"
    <2>1. After(Nobody, then, sess, T, beats)
      BY <1>5 DEF ManagerStop
    <2>2. Quiet(sess, T)
      BY <1>1, <1>5, Numbers DEF Held, MapFits, Quiet
    <2> QED
      BY <1>1, <1>2, <2>1, <2>2, AfterHeld
  <1> QED
    BY <1>3, <1>4, <1>5

LEMMA RoutesKeep ==
    ASSUME Shape, Core, NEW t \in tasks, RouteGoesOn(t) \/ HealthAct(t), ~race'
    PROVE  Core'
  <1> DEFINE T == tasks \ {t}
             Goal == /\ Sound(sess', tasks', beats')
                     /\ Held(sess', tasks', mapped', worker')
                     /\ \A o \in Sessions : sess'[o].owns => sess[o].owns
  <1>1. t.s = Nobody /\ t \in TaskRow /\ t.then \in Continuations
    BY TaskFacts DEF RouteGoesOn, HealthAct, TaskRow, Route
  <1>2. Intact(T) /\ T \in TaskSet /\ worker # "down"
    BY <1>1, AllIntact
  <1>3. Sound(sess, T, beats) /\ Held(sess, T, mapped, worker)
        /\ \A s \in Sessions : Before(T, s)
    BY <1>2, IntactHeld
  <1>4. UNCHANGED <<owner, used>>
    BY DEF RouteGoesOn, HealthAct
  <1> HIDE DEF T
  <1>5. CASE ManagerSpawn(T) /\ UNCHANGED <<beats, processes>>
    <2>1. UNCHANGED <<beats, worker>>
      BY <1>5 DEF processes
    <2>2. Goal
      BY <1>2, <1>5, <2>1, ManagerSpawnHeld
    <2>3. KeyFits'
      BY <1>4, <2>2, KeyKept
    <2> QED
      BY <2>2, <2>3, CoreIs
  <1>6. CASE ManagerStop(t.then, T)
    <2>1. Goal
      BY <1>1, <1>2, <1>6, ManagerStopHeld
    <2>2. KeyFits'
      BY <1>4, <2>1, KeyKept
    <2> QED
      BY <2>1, <2>2, CoreIs
  <1>7. CASE tasks' = T /\ UNCHANGED <<sess, mapped, beats, processes>>
    <2>1. Goal
      BY <1>3, <1>7 DEF processes
    <2>2. KeyFits'
      BY <1>4, <2>1, KeyKept
    <2> QED
      BY <2>1, <2>2, CoreIs
  <1>8. CASE mapped # Nobody /\ StopThen(mapped, "respawn", sess, T)
    <2>1. mapped \in Sessions /\ "respawn" \in Continuations
      BY <1>8 DEF Shape, Continuations
    <2>2. sess[mapped].host = "managed"
      BY <2>1 DEF Core, Held, MapFits
    <2>3. Goal
      BY <1>2, <1>3, <1>8, <2>1, <2>2, StopThenHeld
    <2>4. KeyFits'
      BY <1>4, <2>3, KeyKept
    <2> QED
      BY <2>3, <2>4, CoreIs
  <1>9. CASE ProcessGone(FALSE, sess, T, beats)
    <2>1. \A o \in Sessions : Fine(sess[o], Ops(T, o), o \in beats) /\ Lone(T, o)
      BY <1>3 DEF Sound
    <2>2. sess \in SessionMap
      BY DEF Shape
    <2>3. Goal
      BY <1>2, <1>3, <1>9, <2>1, <2>2, ProcessGoneHeld
    <2>4. KeyFits'
      BY <1>4, <2>3, KeyKept
    <2> QED
      BY <2>3, <2>4, CoreIs
  <1>10. CASE RouteGoesOn(t)
    BY <1>5, <1>6, <1>7, <1>10 DEF RouteGoesOn, T
  <1>11. CASE HealthAct(t)
    BY <1>5, <1>7, <1>8, <1>9, <1>11 DEF HealthAct, T
  <1> QED
    BY <1>10, <1>11

LEMMA RouteTaskKeeps ==
    ASSUME Shape, Core, NEW at, at # "release", NEW then,
           tasks' = tasks \cup {Task(Nobody, at, then)}, worker' # "down",
           UNCHANGED <<sess, beats, mapped, owner>>,
           used'.lapses = 0 => used.lapses = 0
    PROVE  Core'
  <1> DEFINE u == Task(Nobody, at, then)
  <1>0. u.s = Nobody /\ u.at # "release" /\ tasks' = tasks \cup {u}
    BY DEF Task
  <1> HIDE DEF u
  <1>1. \A o \in Sessions : Ops(tasks', o) = Ops(tasks, o) /\ Lone(tasks', o)
    BY <1>0, RouteAdded DEF Core, Sound
  <1>2. Sound(sess', tasks', beats')
    BY <1>1 DEF Core, Sound
  <1>3. MapFits(sess', tasks', mapped')
    BY <1>1 DEF Core, Held, MapFits
  <1>4. ThenFits(sess', tasks')
    BY <1>0 DEF Core, Held, ThenFits
  <1>5. Held(sess', tasks', mapped', worker')
    BY <1>3, <1>4 DEF Held, DownFits
  <1>6. KeyFits'
    BY KeyKept
  <1> QED
    BY <1>2, <1>5, <1>6, CoreIs

LEMMA CloseQrKeeps ==
    ASSUME Shape, Core, NEW s \in Sessions, CloseQr(s), ~race'
    PROVE  Core'
  <1>1. /\ sess[s].host = "qr" /\ StopThen(s, "none", sess, tasks)
        /\ UNCHANGED <<owner, used>> /\ "none" \in Continuations
        /\ "none" \notin Managerial
    BY DEF CloseQr, Continuations, Managerial
  <1>2. Before(tasks, s) /\ tasks \in TaskSet
    BY AllIntact, IntactHeld
  <1>3. /\ Sound(sess', tasks', beats') /\ Held(sess', tasks', mapped', worker')
        /\ \A o \in Sessions : sess'[o].owns => sess[o].owns
    BY <1>1, <1>2, StopThenHeld
  <1>4. KeyFits'
    BY <1>1, <1>3, KeyKept
  <1> QED
    BY <1>3, <1>4, CoreIs

\* logoutAndWipe: the session in the map is stopped, with all of it to come.
LEMMA RemoveKeeps ==
    ASSUME Shape, Core, Shape', Remove, mapped # Nobody
    PROVE  Core'
  <1> DEFINE s == mapped
             q == [sess[s] EXCEPT !.stopped = TRUE]
             u == Task(s, "logout", "none")
  <1>1. s \in Sessions /\ sess \in SessionMap /\ sess[s] \in SessionRecord
    BY DEF Shape, SessionMap
  <1>2. /\ sess' = [sess EXCEPT ![s] = q] /\ tasks' = tasks \cup {u}
        /\ UNCHANGED <<owner, beats, mapped, worker>>
    BY DEF Remove, processes
  <1>3. /\ Same(q, sess[s]) /\ q.stopped = TRUE /\ q.owns = sess[s].owns
        /\ q \in SessionRecord
    BY <1>1, FlagSet, BitSet
  <1>4. u.s = s /\ u.at = "logout"
    BY DEF Task
  <1>5. sess[s].host = "managed"
    BY <1>1 DEF Core, Held, MapFits
  <1> HIDE DEF q, u
  <1>6. sess'[s] = q /\ \A o \in Sessions \ {s} : sess'[o] = sess[o]
    BY <1>1, <1>2, <1>3, Replaced
  <1>7. /\ Ops(tasks', s) = Ops(tasks, s) \cup {"logout"}
        /\ \A o \in Sessions \ {s} : Ops(tasks', o) = Ops(tasks, o)
        /\ \A o \in Sessions : Lone(tasks', o)
    <2>1. u.at \in Opening => ~Opens(Ops(tasks, u.s))
      BY <1>4 DEF Opening, Starting, Reconnecting
    <2>2. \A o \in Sessions : Lone(tasks, o)
      BY DEF Core, Sound
    <2>3. u.s \in Sessions
      BY <1>1, <1>4
    <2>4. /\ Ops(tasks \cup {u}, u.s) = Ops(tasks, u.s) \cup {u.at}
          /\ \A o \in Sessions \ {u.s} : Ops(tasks \cup {u}, o) = Ops(tasks, o)
          /\ \A o \in Sessions : Lone(tasks \cup {u}, o)
      BY <2>1, <2>2, <2>3, TaskAdded
    <2> QED
      BY <1>2, <1>4, <2>4
  <1>8. Fine(sess[s], Ops(tasks, s), s \in beats)
    BY <1>1 DEF Core, Sound
  <1>9. Busy(q, Ops(tasks', s)) => Busy(sess[s], Ops(tasks, s))
    BY <1>3, <1>7 DEF Busy, Same, Live, Opens
  <1>10. Fine(q, Ops(tasks', s), s \in beats)
    BY <1>3, <1>5, <1>7, <1>8, <1>9
    DEF Fine, Same, Live, Busy, Opens, Sustains
  <1>11. KeyFits'
    <2>1. used'.lapses = 0 => used.lapses = 0
      BY LapsesGrow DEF Remove, Request
    <2>2. \A o \in Sessions : sess'[o].owns => sess[o].owns
      BY <1>3, <1>6
    <2> QED
      BY <1>2, <2>1, <2>2, KeyKept
  <1>12. /\ Covers(tasks, tasks) /\ tasks \in TaskSet
         /\ \A v \in tasks' : v.at = "release" \/ v.s = Nobody => v \in tasks
    BY <1>1, <1>2, <1>4, Numbers DEF Covers, Shape
  <1>13. /\ Fine(sess'[s], Ops(tasks', s), s \in beats')
         /\ Busy(sess'[s], Ops(tasks', s)) => Busy(sess[s], Ops(tasks, s))
         /\ sess'[s].host = sess[s].host /\ UNCHANGED <<mapped, worker>>
         /\ \A o \in Sessions \ {s} :
               /\ sess'[o] = sess[o] /\ (o \in beats' <=> o \in beats)
               /\ Ops(tasks', o) = Ops(tasks, o)
    BY <1>2, <1>3, <1>6, <1>7, <1>9, <1>10 DEF Same
  <1> HIDE DEF s
  <1> QED
    BY <1>1, <1>7, <1>11, <1>12, <1>13, LocalStep

LEMMA RequestsKeep ==
    ASSUME Shape, Core, Shape', ~race',
           Pause \/ Resume \/ Reconnect \/ OpenQr \/ Remove
    PROVE  Core'
  <1>1. worker # "down" /\ (used'.lapses = 0 => used.lapses = 0)
    BY LapsesGrow
    DEF Pause, Resume, SetEnabled, Reconnect, OpenQr, Remove, Request, Serving
  <1>2. ASSUME NEW on \in BOOLEAN, SetEnabled(on)
        PROVE  Core'
    <2>1. \/ tasks' = tasks \cup {Task(Nobody, "spawn", "none")}
          \/ tasks' = tasks \cup {Task(Nobody, "stop", "unmap")}
      BY <1>2 DEF SetEnabled
    <2>2. UNCHANGED <<sess, beats, mapped, owner, worker>>
      BY <1>2 DEF SetEnabled, processes
    <2> QED
      BY <1>1, <2>1, <2>2, RouteTaskKeeps
  <1>3. ASSUME NEW then \in Continuations, ManagerStop(then, tasks), UNCHANGED owner
        PROVE  Core'
    <2>1. Intact(tasks) /\ tasks \in TaskSet
      BY AllIntact
    <2>2. /\ Sound(sess', tasks', beats')
          /\ Held(sess', tasks', mapped', worker')
          /\ \A o \in Sessions : sess'[o].owns => sess[o].owns
      BY <1>1, <1>3, <2>1, ManagerStopHeld
    <2>3. KeyFits'
      BY <1>1, <1>3, <2>2, KeyKept
    <2> QED
      BY <2>2, <2>3, CoreIs
  <1>4. CASE Remove /\ mapped = Nobody
    <2>1. tasks' = tasks \cup {Task(Nobody, "delete", "none")}
      BY <1>4 DEF Remove
    <2>2. UNCHANGED <<sess, beats, mapped, owner, worker>>
      BY <1>4 DEF Remove, processes
    <2> QED
      BY <1>1, <2>1, <2>2, RouteTaskKeeps
  <1>5. {"respawn", "repair"} \subseteq Continuations
    BY DEF Continuations
  <1> QED
    BY <1>2, <1>3, <1>4, <1>5, RemoveKeeps DEF Pause, Resume, Reconnect, OpenQr

LEMMA ProcessEnds ==
    ASSUME Shape, Core, NEW inCli \in BOOLEAN, NEW S \in SessionMap,
           NEW T \in TaskSet, ProcessGone(inCli, S, T, beats),
           Held(S, T, mapped, worker),
           \A o \in Sessions :
               \/ S[o].host # "none" /\ InCli(S[o]) = inCli
               \/ Fine(S[o], Ops(T, o), o \in beats),
           \A o \in Sessions : Lone(T, o),
           \A o \in Sessions : S[o].owns => sess[o].owns,
           UNCHANGED owner, used'.lapses = 0 => used.lapses = 0
    PROVE  Core'
  <1>1. /\ Sound(sess', tasks', beats') /\ Held(sess', tasks', mapped', worker')
        /\ \A o \in Sessions : sess'[o].owns => S[o].owns
    BY ProcessGoneHeld
  <1>2. KeyFits'
    BY <1>1, KeyKept
  <1> QED
    BY <1>1, <1>2, CoreIs

LEMMA ProcessesKeep ==
    ASSUME Shape, Core, Shape',
           \/ Boot \/ WorkerCrash \/ Shutdown \/ CliGivesUp
           \/ \E job \in {"pair", "send", "logout"} : CliStarts(job)
    PROVE  Core'
  <1>1. /\ Sound(sess, tasks, beats) /\ Held(sess, tasks, mapped, worker)
        /\ sess \in SessionMap /\ tasks \in TaskSet /\ Renewed(beats)
    BY DEF Core, Shape, Renewed
  <1>2. UNCHANGED owner /\ (used'.lapses = 0 => used.lapses = 0)
    BY LapsesGrow DEF Boot, WorkerCrash, Shutdown, CliGivesUp, CliStarts
  <1>3. CASE Boot
    <2>1. worker = "down" /\ worker' # "down" /\ UNCHANGED beats
      BY <1>3 DEF Boot
    <2>2. mapped = Nobody
      BY <1>1, <2>1 DEF Held, DownFits
    <2>3. CASE Spawned("boot", sess, tasks)
      <3>1. Opened("managed", "boot", sess, tasks) /\ mapped' = NewId(sess, tasks)
        BY <2>3 DEF Spawned
      <3>2. Quiet(sess, tasks)
        BY <1>1, <2>2, Numbers DEF Held, MapFits, Quiet
      <3>3. "managed" \in Hosts /\ "boot" \in Continuations
        BY DEF Hosts, Continuations
      <3>4. /\ Sound(sess', tasks', beats)
            /\ Held(sess', tasks', mapped', worker')
            /\ \A o \in Sessions : sess'[o].owns => sess[o].owns
        BY <1>1, <2>1, <3>1, <3>2, <3>3, OpenedHeld
      <3>5. KeyFits'
        BY <1>2, <3>4, KeyKept
      <3> QED
        BY <2>1, <3>4, <3>5, CoreIs
    <2>4. CASE UNCHANGED <<sess, tasks, mapped>>
      <3>1. Held(sess', tasks', mapped', worker')
        BY <1>1, <2>1, <2>4 DEF Held, DownFits
      <3>2. KeyFits'
        BY <1>2, <2>4, KeyKept
      <3> QED
        BY <1>1, <2>1, <2>4, <3>1, <3>2, CoreIs
    <2> QED
      BY <1>3, <2>3, <2>4 DEF Boot
  <1>4. ASSUME NEW inCli \in BOOLEAN, ProcessGone(inCli, sess, tasks, beats)
        PROVE  Core'
    <2>1. \A o \in Sessions :
             Fine(sess[o], Ops(tasks, o), o \in beats) /\ Lone(tasks, o)
      BY <1>1 DEF Sound
    <2> QED
      BY <1>1, <1>2, <1>4, <2>1, ProcessEnds
  <1>5. CASE Shutdown
    <2>1. tasks' = tasks \cup {Task(Nobody, "stop", "exit")} /\ worker' # "down"
          /\ UNCHANGED <<sess, beats, mapped, owner>>
      BY <1>5 DEF Shutdown
    <2> QED
      BY <1>2, <2>1, RouteTaskKeeps
  <1>6. ASSUME NEW job \in {"pair", "send", "logout"}, CliStarts(job)
        PROVE  Core'
    <2>1. /\ Opened("cli", "cli", sess, tasks)
          /\ UNCHANGED <<beats, mapped, worker>>
      BY <1>6 DEF CliStarts
    <2>2. "cli" \in Hosts /\ "cli" \in Continuations /\ "cli" # "managed"
      BY DEF Hosts, Continuations
    <2>3. /\ Sound(sess', tasks', beats)
          /\ Held(sess', tasks', mapped', worker)
          /\ \A o \in Sessions : sess'[o].owns => sess[o].owns
      BY <1>1, <2>1, <2>2, OpenedHeld
    <2>4. KeyFits'
      BY <1>2, <2>3, KeyKept
    <2> QED
      BY <2>1, <2>3, <2>4, CoreIs
  <1> QED
    BY <1>3, <1>4, <1>5, <1>6 DEF WorkerCrash, CliGivesUp

LEMMA ClockKeeps ==
    ASSUME Shape, Core, Shape', KeyExpires \/ KeyLapses \/ HealthRead
    PROVE  Core'
  <1>1. CASE KeyExpires \/ KeyLapses
    <2>1. UNCHANGED <<sess, tasks, beats, mapped, worker>>
      BY <1>1 DEF KeyExpires, KeyLapses, processes
    <2>2. KeyFits'
      <3>1. CASE KeyLapses
        <4>1. used'.lapses # 0
          BY <3>1 DEF KeyLapses, Spend, Shape
        <4> QED
          BY <4>1 DEF KeyFits
      <3>2. CASE KeyExpires
        <4>1. owner \notin beats /\ owner # Nobody /\ UNCHANGED <<sess, used>>
          BY <3>2 DEF KeyExpires
        <4>2. \A o \in Sessions : sess[o].owns => o \in beats
          BY DEF Core, Sound, Fine
        <4> QED
          BY <4>1, <4>2 DEF Core, KeyFits
      <3> QED
        BY <1>1, <3>1, <3>2
    <2> QED
      BY <2>1, <2>2 DEF Core
  <1>2. CASE HealthRead
    <2>1. /\ tasks' = tasks \cup {Task(Nobody, "checking", "none")}
          /\ worker' # "down" /\ UNCHANGED <<sess, beats, mapped, owner, used>>
      BY <1>2 DEF HealthRead, Serving, processes
    <2> QED
      BY <2>1, RouteTaskKeeps
  <1> QED
    BY <1>1, <1>2

-----------------------------------------------------------------------------
(* Then the steps of one session. *)

\* N is M and, for session s, handlers that wait at X.
Adds(N, M, s, X) ==
    /\ Ops(N, s) = Ops(M, s) \cup X
    /\ \A o \in Sessions \ {s} : Ops(N, o) = Ops(M, o)
    /\ \A o \in Sessions : Lone(N, o)
    /\ \A u \in N : u.at = "release" \/ u.s = Nobody => u \in M

LEMMA AddsNone ==
    ASSUME NEW M, NEW s \in Sessions, \A o \in Sessions : Lone(M, o)
    PROVE  Adds(M, M, s, {})
  BY DEF Adds

LEMMA AddsTask ==
    ASSUME NEW M, NEW u, u.s \in Sessions, \A o \in Sessions : Lone(M, o),
           u.at # "release", u.at \in Opening => ~Opens(Ops(M, u.s))
    PROVE  Adds(M \cup {u}, M, u.s, {u.at})
  <1>1. /\ Ops(M \cup {u}, u.s) = Ops(M, u.s) \cup {u.at}
        /\ \A o \in Sessions \ {u.s} : Ops(M \cup {u}, o) = Ops(M, o)
        /\ \A o \in Sessions : Lone(M \cup {u}, o)
    BY TaskAdded
  <1>2. u.s # Nobody
    BY Numbers
  <1> QED
    BY <1>1, <1>2 DEF Adds

LEMMA AddsOne ==
    ASSUME NEW M, NEW s \in Sessions, \A o \in Sessions : Lone(M, o),
           NEW at, at # "release", at \in Opening => ~Opens(Ops(M, s)), NEW then
    PROVE  Adds(M \cup {Task(s, at, then)}, M, s, {at})
  <1> DEFINE u == Task(s, at, then)
  <1>1. u.s = s /\ u.at = at
    BY DEF Task
  <1> HIDE DEF u
  <1>2. Adds(M \cup {u}, M, u.s, {u.at})
    BY <1>1, AddsTask
  <1>3. Adds(M \cup {u}, M, s, {at})
    BY <1>1, <1>2
  <1> QED
    BY <1>3 DEF u

LEMMA SessionStep ==
    ASSUME Shape, Core, Shape', NEW s \in Sessions, NEW M \in TaskSet,
           Before(M, s), NEW X, Adds(tasks', M, s, X),
           NEW q \in SessionRecord, sess' = [sess EXCEPT ![s] = q],
           q.host = sess[s].host,
           \A o \in Sessions \ {s} : o \in beats' <=> o \in beats,
           Fine(q, Ops(M, s) \cup X, s \in beats'),
           Busy(q, Ops(M, s) \cup X) => Busy(sess[s], Ops(tasks, s)),
           UNCHANGED <<mapped, worker>>, KeyFits'
    PROVE  Core'
  <1>1. sess \in SessionMap
    BY DEF Shape
  <1>2. sess'[s] = q /\ \A o \in Sessions \ {s} : sess'[o] = sess[o]
    BY <1>1, Replaced
  <1>3. /\ Ops(tasks', s) = Ops(M, s) \cup X
        /\ \A o \in Sessions \ {s} : Ops(tasks', o) = Ops(tasks, o)
        /\ \A o \in Sessions : Lone(tasks', o)
        /\ \A u \in tasks' : u.at = "release" \/ u.s = Nobody => u \in M
        /\ Covers(M, tasks)
    BY DEF Adds, Before
  <1>4. /\ sess'[s].host = sess[s].host
        /\ Fine(sess'[s], Ops(tasks', s), s \in beats')
        /\ Busy(sess'[s], Ops(tasks', s)) => Busy(sess[s], Ops(tasks, s))
    BY <1>2, <1>3
  <1>5. \A o \in Sessions \ {s} :
           /\ sess'[o] = sess[o] /\ (o \in beats' <=> o \in beats)
           /\ Ops(tasks', o) = Ops(tasks, o)
    BY <1>2, <1>3
  <1> QED
    BY <1>3, <1>4, <1>5, LocalStep

\* A session that only changes what its handlers are at.
LEMMA FineFrame ==
    ASSUME NEW r, NEW A, NEW b, Fine(r, A, b), NEW q, NEW N,
           q.host # "none", Same(q, r), q.owns = r.owns,
           q.stopped => r.stopped \/ "logout" \in N,
           Opens(N) => Opens(A), Sustains(A) => Sustains(N),
           "acquire" \in N => "acquire" \in A, "files" \in N => "files" \in A,
           "release" \in N => "release" \in A, "logout" \in A => "logout" \in N
    PROVE  Fine(q, N, b) /\ (Busy(q, N) => Busy(r, A))
  <1>1. Live(q) <=> Live(r)
    BY DEF Same, Live
  <1>2. Busy(q, N) => Busy(r, A)
    BY <1>1 DEF Busy, Same
  <1>3. Fine(q, N, b)
    BY <1>1, <1>2 DEF Fine, Same
  <1> QED
    BY <1>2, <1>3

\* The facts about the handler that takes a step, and its session.
LEMMA StepFacts ==
    ASSUME Shape, Core, NEW t \in tasks, t.at \notin Route
    PROVE  /\ t.s \in Sessions /\ sess[t.s] \in SessionRecord
           /\ t.then \in Continuations
           /\ sess[t.s].host # "none" /\ t.at \in Ops(tasks, t.s)
           /\ Fine(sess[t.s], Ops(tasks, t.s), t.s \in beats)
           /\ tasks \ {t} \in TaskSet /\ Answered(t) \in TaskSet
           /\ Before(tasks \ {t}, t.s) /\ Before(Answered(t), t.s)
           /\ Dropped(tasks \ {t}, tasks, t) /\ Dropped(Answered(t), tasks, t)
           /\ \A o \in Sessions : Lone(tasks \ {t}, o) /\ Lone(Answered(t), o)
  <1>1. t.s \in Sessions /\ tasks \ {t} \in TaskSet /\ t.then \in Continuations
    BY TaskFacts
  <1>2. sess[t.s] \in SessionRecord
    BY <1>1 DEF Shape, SessionMap
  <1>3. sess[t.s].host # "none" /\ t.at \in Ops(tasks, t.s)
    BY <1>1, HasHost
  <1>4. Fine(sess[t.s], Ops(tasks, t.s), t.s \in beats)
    BY <1>1 DEF Core, Sound
  <1>5. /\ Dropped(tasks \ {t}, tasks, t) /\ Covers(tasks \ {t}, tasks)
        /\ Dropped(Answered(t), tasks, t) /\ Covers(Answered(t), tasks)
    BY TaskDropped DEF Core
  <1>6. Before(tasks \ {t}, t.s) /\ Before(Answered(t), t.s)
    BY <1>5 DEF Before, Dropped
  <1> QED
    BY <1>1, <1>2, <1>3, <1>4, <1>5, <1>6, AnsweredTasks DEF Before

\* The ownership of the others is not touched by a step of one session.
LEMMA SessionKeeps ==
    ASSUME Shape, Core, Shape', NEW s \in Sessions, NEW M \in TaskSet,
           Before(M, s), NEW X, Adds(tasks', M, s, X),
           NEW q \in SessionRecord, sess' = [sess EXCEPT ![s] = q],
           q.host = sess[s].host, q.owns => sess[s].owns,
           Fine(q, Ops(M, s) \cup X, s \in beats),
           Busy(q, Ops(M, s) \cup X) => Busy(sess[s], Ops(tasks, s)),
           UNCHANGED <<owner, beats, mapped, worker>>,
           used'.lapses = 0 => used.lapses = 0
    PROVE  Core'
  <1>1. sess \in SessionMap
    BY DEF Shape
  <1>2. \A o \in Sessions : sess'[o].owns => sess[o].owns
    BY <1>1, Replaced
  <1>3. KeyFits'
    BY <1>2, KeyKept
  <1>4. /\ \A o \in Sessions \ {s} : o \in beats' <=> o \in beats
        /\ Fine(q, Ops(M, s) \cup X, s \in beats')
        /\ UNCHANGED <<mapped, worker>>
    OBVIOUS
  <1> QED
    BY <1>3, <1>4, SessionStep

\* A step of one session takes its process down.
LEMMA SessionEnds ==
    ASSUME Shape, Core, NEW s \in Sessions, NEW T \in TaskSet, Before(T, s),
           NEW q \in SessionRecord, NEW inCli \in BOOLEAN,
           ProcessGone(inCli, [sess EXCEPT ![s] = q], T, beats),
           q.host = sess[s].host, q.owns => sess[s].owns,
           Busy(q, Ops(T, s)) => Busy(sess[s], Ops(tasks, s)),
           \/ q.host # "none" /\ InCli(q) = inCli
           \/ Fine(q, Ops(T, s), s \in beats),
           UNCHANGED <<owner, used>>
    PROVE  Core'
  <1> DEFINE S == [sess EXCEPT ![s] = q]
  <1>1. sess \in SessionMap
    BY DEF Shape
  <1>2. S \in SessionMap /\ S[s] = q /\ \A o \in Sessions \ {s} : S[o] = sess[o]
    BY <1>1, Replaced
  <1>3. ProcessGone(inCli, S, T, beats)
    OBVIOUS
  <1> HIDE DEF S
  <1>4. \A o \in Sessions :
           /\ S[o].host = sess[o].host /\ (S[o].owns => sess[o].owns)
           /\ Busy(S[o], Ops(T, o)) => Busy(sess[o], Ops(tasks, o))
    BY <1>2 DEF Before
  <1>5. Held(S, T, mapped, worker)
    <2>1. /\ Held(sess, tasks, mapped, worker) /\ T \subseteq TaskRow
          /\ \A u \in T : \E v \in tasks : v.s = u.s /\ v.at = u.at
                                            /\ v.then = u.then
      BY DEF Core, TaskSet, Before, Covers
    <2> QED
      BY <1>4, <2>1, HeldFrame
  <1>6. ASSUME NEW o \in Sessions
        PROVE  \/ S[o].host # "none" /\ InCli(S[o]) = inCli
               \/ Fine(S[o], Ops(T, o), o \in beats)
    <2>1. CASE o = s
      BY <1>2, <2>1
    <2>2. CASE o # s
      <3>1. Fine(sess[o], Ops(tasks, o), o \in beats)
        BY DEF Core, Sound
      <3> QED
        BY <1>2, <2>2, <3>1 DEF Before
    <2> QED
      BY <2>1, <2>2
  <1>7. \A o \in Sessions : Lone(T, o)
    BY DEF Before
  <1> QED
    BY <1>2, <1>3, <1>4, <1>5, <1>6, <1>7, ProcessEnds

\* What scheduleReconnect makes of the session, and the write it goes on to.
Tried(r) ==
    IF r.attempts >= MaxAttempts THEN r ELSE [r EXCEPT !.attempts = @ + 1]
Reaction(r) == IF r.attempts >= MaxAttempts THEN "lastWrite" ELSE "reconWrite"

LEMMA TriedIs ==
    ASSUME NEW r \in SessionRecord
    PROVE  /\ Tried(r) \in SessionRecord /\ Same(Tried(r), r)
           /\ Tried(r).owns = r.owns /\ Tried(r).stopped = r.stopped
           /\ Reaction(r) \in {"lastWrite", "reconWrite"}
  <1>1. CASE r.attempts >= MaxAttempts
    BY <1>1 DEF Tried, Reaction, Same
  <1>2. CASE ~(r.attempts >= MaxAttempts)
    <2> DEFINE q == [r EXCEPT !.attempts = @ + 1]
    <2>1. q \in SessionRecord
      BY <1>2, Numbers DEF SessionRecord
    <2>2. Same(q, r) /\ q.owns = r.owns /\ q.stopped = r.stopped
      BY DEF SessionRecord, Same, LiveSlots
    <2>3. Tried(r) = q /\ Reaction(r) = "reconWrite"
      BY <1>2 DEF Tried, Reaction
    <2> HIDE DEF q
    <2> QED
      BY <2>1, <2>2, <2>3
  <1> QED
    BY <1>1, <1>2

LEMMA ScheduleIs ==
    ASSUME sess \in SessionMap, NEW s \in Sessions, NEW r \in SessionRecord,
           NEW M, \A o \in Sessions : Lone(M, o), ~Opens(Ops(M, s)),
           Schedule(s, [sess EXCEPT ![s] = r], M)
    PROVE  /\ sess' = [sess EXCEPT ![s] = Tried(r)]
           /\ Adds(tasks', M, s, {Reaction(r)})
  <1> DEFINE S == [sess EXCEPT ![s] = r]
  <1>1. S[s] = r /\ DOMAIN S = Sessions
    BY DEF SessionMap
  <1>2. tasks' = M \cup {Task(s, Reaction(r), "none")}
    BY <1>1 DEF Schedule, Reaction
  <1>3. Reaction(r) # "release"
    BY DEF Reaction
  <1>4. sess' = [sess EXCEPT ![s] = Tried(r)]
    <2>1. CASE r.attempts >= MaxAttempts
      BY <1>1, <2>1 DEF Schedule, Tried
    <2>2. CASE ~(r.attempts >= MaxAttempts)
      BY <1>1, <2>2 DEF Schedule, Tried, SessionMap
    <2> QED
      BY <2>1, <2>2
  <1> QED
    BY <1>2, <1>3, <1>4, AddsOne

\* What a handler that waits at "acquire" says of its session.
LEMMA AtAcquire ==
    ASSUME NEW r, NEW A, NEW N, NEW b, Fine(r, A, b), "acquire" \in A,
           N \subseteq A, A \subseteq N \cup {"acquire"}, ~Opens(N)
    PROVE  /\ Busy(r, A) /\ ~Live(r) /\ ~r.timer /\ ~r.owns /\ "release" \notin A
           /\ r.stopped => "logout" \in N
  <1>1. Opens(A) /\ Busy(r, A)
    BY DEF Opens, Busy
  <1>2. ~Live(r) /\ ~r.timer /\ ~r.owns /\ "release" \notin A
    BY <1>1 DEF Fine
  <1>3. r.stopped => "logout" \in A
    BY <1>1 DEF Fine
  <1> QED
    BY <1>1, <1>2, <1>3

\* The ownership is granted: nobody else believes to have it.
LEMMA GrantKeeps ==
    ASSUME Shape, Core, Shape', NEW t \in tasks, t.at = "acquire", owner = Nobody,
           owner' = t.s, beats' = beats \cup {t.s},
           sess' = [sess EXCEPT ![t.s].owns = TRUE],
           tasks' = Answered(t) \cup {Task(t.s, "files", t.then)},
           UNCHANGED <<mapped, worker, used>>
    PROVE  Core'
  <1> DEFINE s == t.s
             M == Answered(t)
             A == Ops(tasks, s)
             N == Ops(M, s)
             r == sess[s]
             q == [r EXCEPT !.owns = TRUE]
  <1>1. "acquire" \notin Route /\ "acquire" \in Opening
    BY DEF Route, Opening, Starting
  <1>2. /\ s \in Sessions /\ r \in SessionRecord /\ r.host # "none"
        /\ "acquire" \in A /\ Fine(r, A, s \in beats) /\ M \in TaskSet
        /\ Before(M, s) /\ Dropped(M, tasks, t)
        /\ \A o \in Sessions : Lone(M, o)
    BY <1>1, StepFacts
  <1>3. N \subseteq A /\ A \subseteq N \cup {"acquire"} /\ ~Opens(N)
    BY <1>1, <1>2 DEF Dropped
  <1>4. sess' = [sess EXCEPT ![s] = q]
    BY <1>2 DEF Shape, SessionMap
  <1>5. q \in SessionRecord /\ Same(q, r) /\ q.owns = TRUE /\ q.stopped = r.stopped
    BY <1>2, BitSet, FlagSet
  <1>6. Adds(tasks', M, s, {"files"})
    <2>1. "files" # "release"
      OBVIOUS
    <2> QED
      BY <1>2, <1>3, <2>1, AddsOne
  <1>7. /\ sess \in SessionMap
        /\ \A o \in Sessions \ {s} : o \in beats' <=> o \in beats
    BY DEF Shape
  <1>8. s \in beats' /\ mapped' = mapped /\ worker' = worker
    OBVIOUS
  <1> HIDE DEF q, r, M, A, N
  <1>9. /\ Busy(r, A) /\ ~Live(r) /\ ~r.timer /\ "release" \notin A
        /\ r.stopped => "logout" \in N
    BY <1>2, <1>3, AtAcquire
  <1>10. Fine(q, N \cup {"files"}, TRUE)
    BY <1>2, <1>3, <1>5, <1>9
    DEF Fine, Same, Live, Busy, Opens, Sustains
  <1>11. KeyFits'
    <2> SUFFICES ASSUME used.lapses = 0, NEW o \in Sessions, sess'[o].owns
                 PROVE  owner' = o
      BY DEF KeyFits
    <2>1. CASE o = s
      BY <2>1
    <2>2. CASE o # s
      <3>1. sess[o].owns
        BY <1>2, <1>4, <1>5, <1>7, <2>2, Replaced
      <3>2. owner = o
        BY <3>1 DEF Core, KeyFits
      <3> QED
        BY <3>2, Numbers
    <2> QED
      BY <2>1, <2>2
  <1>12. /\ Fine(q, Ops(M, s) \cup {"files"}, s \in beats')
         /\ Busy(q, Ops(M, s) \cup {"files"}) => Busy(sess[s], Ops(tasks, s))
         /\ q.host = sess[s].host
    BY <1>5, <1>8, <1>9, <1>10 DEF N, A, r, Same, Fine
  <1> QED
    BY <1>2, <1>4, <1>5, <1>6, <1>7, <1>8, <1>11, <1>12, SessionStep

\* It is refused, and what called start() reacts to that.
LEMMA RefusalKeeps ==
    ASSUME Shape, Core, Shape', NEW t \in tasks, Acquire(t), owner # Nobody
    PROVE  Core'
  <1> DEFINE s == t.s
             M == Answered(t)
             A == Ops(tasks, s)
             N == Ops(M, s)
             r == sess[s]
             q == [r EXCEPT !.owns = FALSE]
             p == [q EXCEPT !.stopped = TRUE]
  <1>1. "acquire" \notin Route /\ "acquire" \in Opening /\ t.at = "acquire"
    BY DEF Route, Opening, Starting, Acquire
  <1>2. /\ s \in Sessions /\ r \in SessionRecord /\ r.host # "none"
        /\ "acquire" \in A /\ Fine(r, A, s \in beats) /\ M \in TaskSet
        /\ Before(M, s) /\ Dropped(M, tasks, t)
        /\ \A o \in Sessions : Lone(M, o)
    BY <1>1, StepFacts
  <1>3. N \subseteq A /\ A \subseteq N \cup {"acquire"} /\ ~Opens(N)
    BY <1>1, <1>2 DEF Dropped
  <1>4. /\ sess \in SessionMap
        /\ [sess EXCEPT ![s].owns = FALSE] = [sess EXCEPT ![s] = q]
    BY <1>2 DEF Shape, SessionMap
  <1>5. q \in SessionRecord /\ Same(q, r) /\ q.owns = FALSE /\ q.stopped = r.stopped
    BY <1>2, BitSet, FlagSet
  <1>6. p \in SessionRecord /\ Same(p, q) /\ p.owns = q.owns /\ p.stopped = TRUE
    BY <1>5, BitSet, FlagSet
  <1>7. \/ UNCHANGED <<owner, beats, mapped, worker, used>>
        \/ /\ ProcessGone(TRUE, [sess EXCEPT ![s] = q], M, beats)
           /\ UNCHANGED <<owner, used>>
    BY <1>4 DEF Acquire, processes
  <1>8. \/ sess' = [sess EXCEPT ![s] = q] /\ tasks' = M
        \/ Schedule(s, [sess EXCEPT ![s] = q], M)
        \/ /\ sess' = [[sess EXCEPT ![s] = q] EXCEPT ![s].stopped = TRUE]
           /\ tasks' = M \cup {Task(s, "logout", "none")}
        \/ /\ ProcessGone(TRUE, [sess EXCEPT ![s] = q], M, beats)
           /\ UNCHANGED <<owner, used>>
    BY <1>4 DEF Acquire
  <1>9. sess' = [[sess EXCEPT ![s] = q] EXCEPT ![s].stopped = TRUE]
           => sess' = [sess EXCEPT ![s] = p]
    BY <1>2, <1>4 DEF SessionMap
  <1> HIDE DEF p, q, r, M, A, N
  <1>10. /\ Busy(r, A) /\ ~Live(r) /\ ~r.timer /\ ~r.owns /\ "release" \notin A
         /\ r.stopped => "logout" \in N
    BY <1>2, <1>3, AtAcquire
  <1>11. Opens(A)
    BY <1>2 DEF Opens
  <1>12. ASSUME NEW g \in SessionRecord, Same(g, r), g.owns = r.owns, NEW X,
                g.stopped => r.stopped \/ "logout" \in N \cup X,
                "files" \notin X, "acquire" \notin X, "release" \notin X
         PROVE  /\ Fine(g, N \cup X, s \in beats)
                /\ Busy(g, N \cup X) => Busy(r, A)
    <2>1. Sustains(A) => Sustains(N \cup X)
      BY <1>3 DEF Sustains
    <2>2. /\ "acquire" \in N \cup X => "acquire" \in A
          /\ "files" \in N \cup X => "files" \in A
          /\ "release" \in N \cup X => "release" \in A
          /\ "logout" \in A => "logout" \in N \cup X
      BY <1>3, <1>12
    <2>3. g.host # "none"
      BY <1>2, <1>12 DEF Same, r
    <2> QED
      BY <1>2, <1>11, <1>12, <2>1, <2>2, <2>3, FineFrame
  <1>13. ASSUME NEW g \in SessionRecord, Same(g, r), g.owns = r.owns, NEW X,
                g.stopped => r.stopped \/ "logout" \in N \cup X,
                "files" \notin X, "acquire" \notin X, "release" \notin X,
                sess' = [sess EXCEPT ![s] = g], Adds(tasks', M, s, X),
                UNCHANGED <<owner, beats, mapped, worker, used>>
         PROVE  Core'
    <2>1. /\ Fine(g, N \cup X, s \in beats)
          /\ Busy(g, N \cup X) => Busy(r, A)
      BY <1>12, <1>13
    <2>2. g.host = sess[s].host /\ (g.owns => sess[s].owns)
      BY <1>13 DEF Same, r
    <2>3. /\ Fine(g, Ops(M, s) \cup X, s \in beats)
          /\ Busy(g, Ops(M, s) \cup X) => Busy(sess[s], Ops(tasks, s))
      BY <2>1 DEF N, A, r
    <2> QED
      BY <1>2, <1>13, <2>2, <2>3, SessionKeeps
  <1>14. Same(q, r) /\ q.owns = r.owns /\ q.stopped = r.stopped
    <2>1. r.owns \in BOOLEAN
      BY <1>2 DEF SessionRecord
    <2> QED
      BY <1>5, <1>10, <2>1
  <1>15. CASE /\ ProcessGone(TRUE, [sess EXCEPT ![s] = q], M, beats)
              /\ UNCHANGED <<owner, used>>
    <2>1. Fine(q, N \cup {}, s \in beats) /\ (Busy(q, N \cup {}) => Busy(r, A))
      BY <1>5, <1>12, <1>14
    <2>2. /\ Fine(q, Ops(M, s), s \in beats)
          /\ Busy(q, Ops(M, s)) => Busy(sess[s], Ops(tasks, s))
      BY <2>1 DEF N, A, r
    <2>3. q.host = sess[s].host /\ (q.owns => sess[s].owns)
      BY <1>14 DEF Same, r
    <2> QED
      BY <1>2, <1>5, <1>15, <2>2, <2>3, SessionEnds
  <1>16. CASE sess' = [sess EXCEPT ![s] = q] /\ tasks' = M
    <2>1. CASE UNCHANGED <<owner, beats, mapped, worker, used>>
      <3>1. Adds(tasks', M, s, {})
        BY <1>2, <1>16, AddsNone
      <3> QED
        BY <1>5, <1>13, <1>14, <1>16, <2>1, <3>1
    <2> QED
      BY <1>7, <1>15, <2>1
  <1>17. CASE /\ sess' = [[sess EXCEPT ![s] = q] EXCEPT ![s].stopped = TRUE]
              /\ tasks' = M \cup {Task(s, "logout", "none")}
    <2>1. CASE UNCHANGED <<owner, beats, mapped, worker, used>>
      <3>1. "logout" # "release" /\ "logout" \notin Opening
        BY DEF Opening, Starting, Reconnecting
      <3>2. Adds(tasks', M, s, {"logout"})
        BY <1>2, <1>17, <3>1, AddsOne
      <3>3. Same(p, r) /\ p.owns = r.owns /\ "logout" \in N \cup {"logout"}
        BY <1>6, <1>14 DEF Same
      <3> QED
        BY <1>6, <1>9, <1>13, <1>17, <2>1, <3>2, <3>3
    <2> QED
      BY <1>7, <1>15, <2>1
  <1>18. CASE Schedule(s, [sess EXCEPT ![s] = q], M)
    <2>1. CASE UNCHANGED <<owner, beats, mapped, worker, used>>
      <3> DEFINE g == Tried(q)
                 X == {Reaction(q)}
      <3>1. ~Opens(Ops(M, s))
        BY <1>3 DEF N
      <3>2. sess' = [sess EXCEPT ![s] = g] /\ Adds(tasks', M, s, X)
        BY <1>2, <1>4, <1>5, <1>18, <3>1, ScheduleIs
      <3>3. /\ g \in SessionRecord /\ Same(g, q) /\ g.owns = q.owns
            /\ g.stopped = q.stopped /\ Reaction(q) \in {"lastWrite", "reconWrite"}
        BY <1>5, TriedIs
      <3>4. "files" \notin X /\ "acquire" \notin X /\ "release" \notin X
        BY <3>3
      <3> HIDE DEF g, X
      <3>5. Same(g, r) /\ g.owns = r.owns /\ (g.stopped => r.stopped)
        BY <1>14, <3>3 DEF Same
      <3> QED
        BY <1>13, <2>1, <3>2, <3>3, <3>4, <3>5
    <2> QED
      BY <1>7, <1>15, <2>1
  <1> QED
    BY <1>8, <1>15, <1>16, <1>17, <1>18

LEMMA AcquireKeeps ==
    ASSUME Shape, Core, Shape', NEW t \in tasks, Acquire(t)
    PROVE  Core'
  <1>1. CASE owner # Nobody
    BY <1>1, RefusalKeeps
  <1>2. CASE owner = Nobody
    <2>1. /\ t.at = "acquire" /\ owner' = t.s /\ beats' = beats \cup {t.s}
          /\ sess' = [sess EXCEPT ![t.s].owns = TRUE]
          /\ tasks' = Answered(t) \cup {Task(t.s, "files", t.then)}
          /\ UNCHANGED <<mapped, worker, used>>
      BY <1>2 DEF Acquire, processes
    <2> QED
      BY <1>2, <2>1, GrantKeeps
  <1> QED
    BY <1>1, <1>2

\* The record q with handlers at N can follow r with handlers at A: it opens no
\* socket that was not coming, and what sustained the ownership still does.
Follows(q, N, r, A) ==
    /\ q.host # "none" /\ Same(q, r) /\ q.owns = r.owns
    /\ q.stopped => r.stopped \/ "logout" \in N
    /\ (Opens(N) => Opens(A)) /\ (Sustains(A) => Sustains(N))
    /\ \A x \in {"acquire", "files", "release"} : x \in N => x \in A
    /\ "logout" \in A => "logout" \in N

LEMMA FollowKeeps ==
    ASSUME Shape, Core, Shape', NEW s \in Sessions, NEW M \in TaskSet,
           Before(M, s), NEW X, Adds(tasks', M, s, X),
           NEW q \in SessionRecord, sess' = [sess EXCEPT ![s] = q],
           Follows(q, Ops(M, s) \cup X, sess[s], Ops(tasks, s)),
           UNCHANGED <<owner, beats, mapped, worker>>,
           used'.lapses = 0 => used.lapses = 0
    PROVE  Core'
  <1> DEFINE r == sess[s]
             A == Ops(tasks, s)
             N == Ops(M, s) \cup X
  <1>1. Follows(q, N, r, A) /\ Fine(r, A, s \in beats)
    BY DEF Core, Sound
  <1> HIDE DEF r, A, N
  <1>2. Fine(q, N, s \in beats) /\ (Busy(q, N) => Busy(r, A))
    <2>1. /\ q.host # "none" /\ Same(q, r) /\ q.owns = r.owns
          /\ q.stopped => r.stopped \/ "logout" \in N
          /\ (Opens(N) => Opens(A)) /\ (Sustains(A) => Sustains(N))
          /\ ("acquire" \in N => "acquire" \in A)
          /\ ("files" \in N => "files" \in A)
          /\ ("release" \in N => "release" \in A)
          /\ ("logout" \in A => "logout" \in N)
      BY <1>1 DEF Follows
    <2> QED
      BY <1>1, <2>1, FineFrame
  <1>3. /\ Fine(q, Ops(M, s) \cup X, s \in beats)
        /\ Busy(q, Ops(M, s) \cup X) => Busy(sess[s], Ops(tasks, s))
        /\ q.host = sess[s].host /\ (q.owns => sess[s].owns)
    BY <1>1, <1>2 DEF N, A, r, Follows, Same
  <1> QED
    BY <1>3, SessionKeeps

LEMMA OpenSocketKeeps ==
    ASSUME Shape, Core, Shape', NEW t \in tasks, OpenSocket(t)
    PROVE  Core'
  <1> DEFINE s == t.s
             M == tasks \ {t}
             A == Ops(tasks, s)
             N == Ops(M, s)
             r == sess[s]
             wipes == t.then = "cli" /\ cli = "logout"
             X == IF wipes THEN {"logout"} ELSE {}
             c == IF creds THEN "connecting" ELSE "pairing"
             b == r.stopped \/ wipes
  <1>1. "files" \notin Route /\ "files" \in Opening /\ t.at = "files"
    BY DEF Route, Opening, Starting, OpenSocket
  <1>2. /\ s \in Sessions /\ r \in SessionRecord /\ r.host # "none"
        /\ "files" \in A /\ Fine(r, A, s \in beats) /\ M \in TaskSet
        /\ Before(M, s) /\ Dropped(M, tasks, t)
        /\ \A o \in Sessions : Lone(M, o)
    BY <1>1, StepFacts
  <1>3. N \subseteq A /\ A \subseteq N \cup {"files"} /\ ~Opens(N)
    BY <1>1, <1>2 DEF Dropped
  <1>4. PICK i \in Slots :
           sess' = [sess EXCEPT ![s].sock = i, ![s].conn[i] = c,
                                ![s].stopped = @ \/ wipes]
    BY DEF OpenSocket
  <1> DEFINE r1 == [r EXCEPT !.sock = i]
             r2 == [r1 EXCEPT !.conn[i] = c]
             q == [r2 EXCEPT !.stopped = b]
  <1>5. c \in LiveConn /\ b \in BOOLEAN /\ sess \in SessionMap
    BY <1>2 DEF LiveConn, SessionRecord, Shape
  <1>6. sess' = [sess EXCEPT ![s] = q]
    BY <1>2, <1>4, <1>5 DEF SessionMap, SessionRecord
  <1> HIDE DEF c, b
  <1>7. r1 \in SessionRecord /\ r2 \in SessionRecord
    <2>1. r1 \in SessionRecord
      BY <1>2, <1>5, SlotSet
    <2> HIDE DEF r1
    <2> QED
      BY <1>5, <2>1, SlotSet
  <1>8. q \in SessionRecord
    <2> HIDE DEF r2
    <2> QED
      BY <1>5, <1>7, BitSet
  <1>9. /\ q.host = r.host /\ q.sock = i /\ q.timer = r.timer /\ q.loose = r.loose
        /\ q.owns = r.owns /\ q.stopped = b
    BY <1>2 DEF SessionRecord
  <1>10. q.conn[i] = c /\ \A j \in Slots \ {i} : q.conn[j] = r.conn[j]
    BY <1>2 DEF SessionRecord
  <1>11. b => r.stopped \/ "logout" \in X
    BY DEF b
  <1>12. Adds(tasks', M, s, X)
    <2>1. CASE wipes
      <3>1. "logout" # "release" /\ "logout" \notin Opening
        BY DEF Opening, Starting, Reconnecting
      <3>2. tasks' = M \cup {Task(s, "logout", "none")}
        BY <2>1 DEF OpenSocket
      <3> QED
        BY <1>2, <2>1, <3>1, <3>2, AddsOne
    <2>2. CASE ~wipes
      <3>1. tasks' = M \cup {}
        BY <2>2 DEF OpenSocket
      <3>2. tasks' = M
        BY <3>1
      <3> QED
        BY <1>2, <2>2, <3>2, AddsNone
    <2> QED
      BY <2>1, <2>2
  <1>13. /\ "logout" \in N => "logout" \in A
         /\ X \subseteq {"logout"}
         /\ UNCHANGED <<owner, beats, mapped, worker, used>>
    BY <1>3 DEF OpenSocket, processes
  <1> HIDE DEF q, r, M, A, N, X
  <1>14. Opens(A) /\ Busy(r, A)
    BY <1>2 DEF Opens, Busy
  <1>15. /\ ~Live(r) /\ ~r.timer /\ ~r.loose /\ r.owns /\ "release" \notin A
         /\ (r.owns <=> s \in beats)
    BY <1>2, <1>14 DEF Fine
  <1>16. r.stopped => "logout" \in N
    BY <1>2, <1>3, <1>14 DEF Fine
  <1>17. LiveSlots(q) = {i}
    BY <1>5, <1>10, <1>15 DEF Live, LiveSlots
  <1>18. ~Opens(N \cup X)
    BY <1>3, <1>13 DEF Opens
  <1>19. Fine(q, N \cup X, s \in beats)
    <2>1. Live(q)
      BY <1>17 DEF Live
    <2>2. "acquire" \notin N \cup X /\ "release" \notin N \cup X
      BY <1>3, <1>13, <1>15, <1>18 DEF Opens
    <2>3. b => "logout" \in N \cup X
      BY <1>11, <1>16
    <2> QED
      BY <1>2, <1>9, <1>15, <1>17, <1>18, <2>1, <2>2, <2>3 DEF Fine
  <1>20. /\ Fine(q, Ops(M, s) \cup X, s \in beats)
         /\ Busy(q, Ops(M, s) \cup X) => Busy(sess[s], Ops(tasks, s))
         /\ q.host = sess[s].host /\ (q.owns => sess[s].owns)
    BY <1>9, <1>14, <1>19 DEF N, A, r
  <1> QED
    BY <1>2, <1>6, <1>8, <1>12, <1>13, <1>20, SessionKeeps

LEMMA StartAt ==
    ASSUME NEW S, NEW T, NEW s, NEW then
    PROVE  /\ S[s].owns => StartTask(S, T, s, then).at = "files"
           /\ ~S[s].owns => StartTask(S, T, s, then).at = "acquire"
  BY DEF StartTask, RedisTask, Task

\* The timer fires: a session that waits for it does nothing else.
LEMMA TimerKeeps ==
    ASSUME Shape, Core, Shape', NEW s \in Sessions, NEW loose \in BOOLEAN,
           TimerFires(s, loose)
    PROVE  Core'
  <1> DEFINE A == Ops(tasks, s)
             r == sess[s]
             u == StartTask(sess, tasks, s, "timer")
             r1 == [r EXCEPT !.stopped = FALSE]
             r2 == [r1 EXCEPT !.loose = FALSE]
             q == [r2 EXCEPT !.timer = FALSE]
  <1>1. /\ sess \in SessionMap /\ r \in SessionRecord /\ tasks \in TaskSet
        /\ Fine(r, A, s \in beats) /\ Before(tasks, s)
        /\ \A o \in Sessions : Lone(tasks, o)
    BY AllIntact, IntactHeld DEF Shape, SessionMap, Core, Sound
  <1>2. ~loose /\ r.timer = TRUE /\ r.loose = FALSE
    BY <1>1 DEF TimerFires, Fine, SessionRecord
  <1>3. sess' = [sess EXCEPT ![s] = q]
    BY <1>1, <1>2 DEF TimerFires, SessionMap, SessionRecord
  <1>4. q \in SessionRecord
    <2>1. r1 \in SessionRecord
      BY <1>1, BitSet
    <2> HIDE DEF r1
    <2>2. r2 \in SessionRecord
      BY <2>1, BitSet
    <2> HIDE DEF r2
    <2> QED
      BY <2>2, BitSet
  <1>5. /\ q.host = r.host /\ q.owns = r.owns /\ q.stopped = FALSE
        /\ q.loose = FALSE /\ q.timer = FALSE
        /\ LiveSlots(q) = LiveSlots(r) /\ q.sock = r.sock
    BY <1>1 DEF SessionRecord, LiveSlots
  <1>6. /\ "timer" \in Continuations /\ tasks' = tasks \cup {u}
        /\ UNCHANGED <<owner, beats, mapped, worker, used>>
    BY DEF Continuations, TimerFires, processes
  <1>7. /\ u.s = s /\ (r.owns => u.at = "files") /\ (~r.owns => u.at = "acquire")
    <2> HIDE DEF u, q, A
    <2>1. /\ StartTask(sess, tasks, s, "timer").s = s
          /\ sess[s].owns => StartTask(sess, tasks, s, "timer").at = "files"
          /\ ~sess[s].owns => StartTask(sess, tasks, s, "timer").at = "acquire"
      BY StartIs, StartAt
    <2> QED
      BY <2>1 DEF u
  <1>8. r.host # "none"
    BY <1>1, <1>2, BlankRecord DEF Fine
  <1> HIDE DEF q, u, A, r
  <1>9. Busy(r, A) /\ ~Live(r) /\ ~Opens(A) /\ "release" \notin A
        /\ (r.stopped => "logout" \in A)
    BY <1>1, <1>2 DEF Fine, Busy
  <1>10. Adds(tasks', tasks, s, {u.at})
    <2>1. u.at # "release" /\ ~Opens(Ops(tasks, u.s)) /\ u.s \in Sessions
      BY <1>7, <1>9 DEF A
    <2> QED
      BY <1>1, <1>6, <1>7, <2>1, AddsTask
  <1>11. Fine(q, A \cup {u.at}, s \in beats)
    <2>1. "acquire" \notin A /\ "files" \notin A
      BY <1>9 DEF Opens
    <2>2. ~Live(q) /\ q.loose = FALSE /\ q.timer = FALSE /\ q.stopped = FALSE
          /\ LiveSlots(q) \subseteq {q.sock} /\ (q.owns <=> s \in beats)
          /\ q.owns = r.owns /\ q.host # "none"
      BY <1>1, <1>5, <1>8, <1>9 DEF Live, Fine
    <2>3. CASE r.owns
      <3>1. u.at = "files" /\ "files" \in A \cup {u.at}
        BY <1>7, <2>3
      <3>2. "acquire" \notin A \cup {u.at} /\ "release" \notin A \cup {u.at}
        BY <1>9, <2>1, <3>1
      <3> QED
        BY <2>2, <2>3, <3>1, <3>2 DEF Fine, Sustains
    <2>4. CASE ~r.owns
      <3>1. u.at = "acquire"
        BY <1>7, <2>4
      <3>2. "files" \notin A \cup {u.at} /\ "release" \notin A \cup {u.at}
        BY <1>9, <2>1, <3>1
      <3> QED
        BY <2>2, <2>4, <3>2 DEF Fine
    <2> QED
      BY <2>3, <2>4
  <1>12. /\ Fine(q, Ops(tasks, s) \cup {u.at}, s \in beats)
         /\ Busy(q, Ops(tasks, s) \cup {u.at}) => Busy(sess[s], Ops(tasks, s))
         /\ q.host = sess[s].host /\ (q.owns => sess[s].owns)
    BY <1>5, <1>9, <1>11 DEF A, r
  <1> QED
    BY <1>1, <1>3, <1>4, <1>6, <1>10, <1>12, SessionKeeps

\* A session that does nothing but start one more handler.
LEMMA ReactKeeps ==
    ASSUME Shape, Core, Shape', NEW s \in Sessions, sess[s].host # "none",
           NEW at \in {"qrWrite", "lastWrite", "openWrite"},
           tasks' = tasks \cup {Task(s, at, "none")},
           NEW q \in SessionRecord, sess' = [sess EXCEPT ![s] = q],
           Same(q, sess[s]), q.owns = sess[s].owns, q.stopped = sess[s].stopped,
           UNCHANGED <<owner, beats, mapped, worker, used>>
    PROVE  Core'
  <1>1. /\ tasks \in TaskSet /\ Before(tasks, s)
        /\ \A o \in Sessions : Lone(tasks, o)
    BY AllIntact, IntactHeld DEF Core, Sound
  <1>2. at # "release" /\ at \notin Opening
    BY DEF Opening, Starting, Reconnecting
  <1>3. Adds(tasks', tasks, s, {at})
    BY <1>1, <1>2, AddsOne
  <1>4. q.host # "none"
    BY DEF Same
  <1>5. ASSUME NEW A PROVE Follows(q, A \cup {at}, sess[s], A)
    BY <1>4 DEF Follows, Opens, Sustains
  <1>6. Follows(q, Ops(tasks, s) \cup {at}, sess[s], Ops(tasks, s))
    BY <1>5
  <1> QED
    BY <1>1, <1>3, <1>6, FollowKeeps

LEMMA LiveHost ==
    ASSUME Shape, Core, NEW s \in Sessions, NEW i \in Slots,
           sess[s].conn[i] \in LiveConn
    PROVE  Live(sess[s]) /\ sess[s].host # "none"
  <1>1. Live(sess[s])
    BY DEF Live, LiveSlots
  <1>2. Fine(sess[s], Ops(tasks, s), s \in beats)
    BY DEF Core, Sound
  <1>3. sess[s].host = "none" => sess[s] = Blank("none")
    BY <1>2 DEF Fine
  <1>4. LiveSlots(Blank("none")) = {}
    BY BlankRecord
  <1> QED
    BY <1>1, <1>3, <1>4 DEF Live

LEMMA QrOpenKeeps ==
    ASSUME Shape, Core, Shape', NEW s \in Sessions, NEW i \in Slots,
           SocketQr(s, i) \/ SocketOpen(s, i)
    PROVE  Core'
  <1> DEFINE r == sess[s]
  <1>1. sess \in SessionMap /\ r \in SessionRecord
    BY DEF Shape, SessionMap
  <1>2. r.host # "none"
    <2>1. sess[s].conn[i] \in LiveConn
      BY DEF SocketQr, SocketOpen, LiveConn
    <2> QED
      BY <2>1, LiveHost
  <1>3. UNCHANGED <<owner, beats, mapped, worker, used>>
    BY DEF SocketQr, SocketOpen, processes
  <1>4. CASE SocketQr(s, i)
    <2> DEFINE n == IF r.qrs > MaxQr THEN r.qrs ELSE r.qrs + 1
               q == [r EXCEPT !.qrs = n]
               at == IF sess'[s].qrs > MaxQr THEN "lastWrite" ELSE "qrWrite"
    <2>1. n \in 0..MaxQr + 1
      BY <1>1, Numbers DEF SessionRecord
    <2>2. sess' = [sess EXCEPT ![s] = q]
      BY <1>4 DEF SocketQr
    <2>3. tasks' = tasks \cup {Task(s, at, "none")}
      BY <1>4 DEF SocketQr
    <2>4. at \in {"qrWrite", "lastWrite", "openWrite"}
      OBVIOUS
    <2> HIDE DEF n, at
    <2>5. q \in SessionRecord
      BY <1>1, <2>1 DEF SessionRecord
    <2>6. Same(q, r) /\ q.owns = r.owns /\ q.stopped = r.stopped
      BY <1>1 DEF SessionRecord, Same, LiveSlots
    <2> HIDE DEF q
    <2> QED
      BY <1>2, <1>3, <2>2, <2>3, <2>4, <2>5, <2>6, ReactKeeps
  <1>5. CASE SocketOpen(s, i)
    <2> DEFINE r1 == [r EXCEPT !.conn[i] = "open"]
               r2 == [r1 EXCEPT !.attempts = 0]
               q == [r2 EXCEPT !.qrs = 0]
    <2>1. r1 \in SessionRecord
      BY <1>1, SlotSet DEF LiveConn
    <2>2. sess' = [sess EXCEPT ![s] = q]
      BY <1>1, <1>5 DEF SocketOpen, SessionMap, SessionRecord
    <2>3. tasks' = tasks \cup {Task(s, "openWrite", "none")}
      BY <1>5 DEF SocketOpen
    <2>4. Same(r1, r) /\ r1.owns = r.owns /\ r1.stopped = r.stopped
      <3>1. /\ r1.host = r.host /\ r1.sock = r.sock /\ r1.timer = r.timer
            /\ r1.loose = r.loose /\ r1.owns = r.owns /\ r1.stopped = r.stopped
            /\ r1.conn[i] = "open" /\ r.conn[i] = "connecting"
            /\ \A j \in Slots \ {i} : r1.conn[j] = r.conn[j]
        BY <1>1, <1>5 DEF SessionRecord, SocketOpen
      <3> HIDE DEF r1, r
      <3>2. LiveSlots(r1) = LiveSlots(r)
        BY <3>1 DEF LiveSlots, LiveConn
      <3> QED
        BY <3>1, <3>2 DEF Same
    <2> HIDE DEF r1
    <2>5. r2 \in SessionRecord
      BY <2>1, CounterSet
    <2>6. Same(r2, r1) /\ r2.owns = r1.owns /\ r2.stopped = r1.stopped
      BY <2>1 DEF SessionRecord, Same, LiveSlots
    <2> HIDE DEF r2
    <2>7. q \in SessionRecord
      BY <2>5, CounterSet
    <2>8. Same(q, r2) /\ q.owns = r2.owns /\ q.stopped = r2.stopped
      BY <2>5 DEF SessionRecord, Same, LiveSlots
    <2> HIDE DEF q
    <2>9. Same(q, r) /\ q.owns = r.owns /\ q.stopped = r.stopped
      BY <2>4, <2>6, <2>8 DEF Same
    <2>10. "openWrite" \in {"qrWrite", "lastWrite", "openWrite"}
      OBVIOUS
    <2> QED
      BY <1>2, <1>3, <2>2, <2>3, <2>7, <2>9, <2>10, ReactKeeps
  <1> QED
    BY <1>4, <1>5

\* A connection ends: the session stops, gives up or tries again.
LEMMA CloseFine ==
    ASSUME NEW r, NEW A, NEW b, Fine(r, A, b), Live(r), NEW q, q.host # "none",
           ~Live(q), q.timer = r.timer, q.loose = r.loose, q.owns = r.owns,
           q.stopped = r.stopped, NEW X,
           \/ r.stopped /\ X = {}
           \/ ~r.stopped /\ X = {"banWrite"}
           \/ ~r.stopped /\ X = {"lastWrite"}
           \/ ~r.stopped /\ X = {"reconWrite"}
    PROVE  /\ Fine(q, A \cup X, b)
           /\ Busy(q, A \cup X) => Busy(r, A)
  <1>1. /\ ~r.timer /\ ~r.loose /\ ~Opens(A) /\ r.owns /\ "release" \notin A
        /\ Busy(r, A) /\ (r.owns <=> b) /\ (r.stopped => "logout" \in A)
    BY DEF Fine, Busy
  <1>2. "acquire" \notin A \cup X /\ "files" \notin A \cup X
        /\ "release" \notin A \cup X
    BY <1>1 DEF Opens
  <1>3. q.stopped => "logout" \in A \cup X
    BY <1>1
  <1>4. Sustains(A \cup X)
    BY <1>1 DEF Sustains
  <1>5. LiveSlots(q) \subseteq {q.sock}
    BY DEF Live
  <1> QED
    BY <1>1, <1>2, <1>3, <1>4, <1>5 DEF Fine

LEMMA ClosesKeep ==
    ASSUME Shape, Core, Shape', NEW s \in Sessions, NEW i \in Slots,
           i \in LiveSlots(sess[s]), NEW d \in Decisions, HandleClose(s, i, d),
           UNCHANGED <<owner, beats, mapped, worker>>,
           used'.lapses = 0 => used.lapses = 0
    PROVE  Core'
  <1> DEFINE r == sess[s]
             q1 == [r EXCEPT !.conn[i] = "none"]
             q2 == [q1 EXCEPT !.ready = FALSE]
             A == Ops(tasks, s)
  <1>1. /\ sess \in SessionMap /\ r \in SessionRecord
        /\ Fine(r, A, s \in beats) /\ Before(tasks, s) /\ tasks \in TaskSet
        /\ \A o \in Sessions : Lone(tasks, o)
    BY AllIntact, IntactHeld DEF Shape, SessionMap, Core, Sound
  <1>2. Live(r) /\ r.host # "none"
    BY LiveHost DEF LiveSlots
  <1>3. q1 \in SessionRecord
    BY <1>1, SlotSet
  <1>4. /\ q1.host = r.host /\ q1.sock = r.sock /\ q1.timer = r.timer
        /\ q1.loose = r.loose /\ q1.owns = r.owns /\ q1.stopped = r.stopped
        /\ q1.conn[i] = "none" /\ \A j \in Slots \ {i} : q1.conn[j] = r.conn[j]
    BY <1>1 DEF SessionRecord
  <1>5. LET closed == [sess EXCEPT ![s].conn[i] = "none"]
            reacts == [closed EXCEPT ![s].ready = FALSE]
        IN closed = [sess EXCEPT ![s] = q1] /\ reacts = [sess EXCEPT ![s] = q2]
    BY <1>1 DEF SessionMap
  <1>6. \/ sess[s].stopped /\ sess' = [sess EXCEPT ![s] = q1] /\ tasks' = tasks
        \/ /\ ~sess[s].stopped /\ sess' = [sess EXCEPT ![s] = q2]
           /\ \/ tasks' = tasks \cup {Task(s, "banWrite", "none")}
              \/ tasks' = tasks \cup {Task(s, "lastWrite", "none")}
        \/ ~sess[s].stopped /\ Schedule(s, [sess EXCEPT ![s] = q2], tasks)
    BY <1>5 DEF HandleClose
  <1> HIDE DEF q1
  <1>7. ~Live(q1)
    <2>1. LiveSlots(r) \subseteq {i}
      BY <1>1 DEF Fine
    <2>2. LiveSlots(q1) \subseteq LiveSlots(r) \ {i}
      BY <1>4 DEF LiveSlots, LiveConn
    <2> QED
      BY <2>1, <2>2 DEF Live
  <1>8. /\ q2 \in SessionRecord /\ Same(q2, q1) /\ q2.owns = q1.owns
        /\ q2.stopped = q1.stopped
    BY <1>3, BitSet, FlagSet
  <1> HIDE DEF q2, A, r
  <1>9. ~Opens(A)
    BY <1>1, <1>2 DEF Fine
  <1>10. ASSUME NEW q \in SessionRecord, ~Live(q),
                q.host = r.host, q.timer = r.timer, q.loose = r.loose,
                q.owns = r.owns, q.stopped = r.stopped,
                sess' = [sess EXCEPT ![s] = q], NEW X,
                \/ r.stopped /\ X = {}
                \/ ~r.stopped /\ X = {"banWrite"}
                \/ ~r.stopped /\ X = {"lastWrite"}
                \/ ~r.stopped /\ X = {"reconWrite"},
                Adds(tasks', tasks, s, X)
         PROVE  Core'
    <2>1. q.host # "none"
      BY <1>2, <1>10
    <2>2. Fine(q, A \cup X, s \in beats) /\ (Busy(q, A \cup X) => Busy(r, A))
      BY <1>1, <1>2, <1>10, <2>1, CloseFine
    <2>3. /\ Fine(q, Ops(tasks, s) \cup X, s \in beats)
          /\ Busy(q, Ops(tasks, s) \cup X) => Busy(sess[s], Ops(tasks, s))
          /\ q.host = sess[s].host /\ (q.owns => sess[s].owns)
      BY <1>10, <2>2 DEF A, r
    <2> QED
      BY <1>1, <1>10, <2>3, SessionKeeps
  <1>11. /\ q2.host = r.host /\ q2.timer = r.timer /\ q2.loose = r.loose
         /\ q2.owns = r.owns /\ q2.stopped = r.stopped /\ ~Live(q2)
    BY <1>4, <1>7, <1>8 DEF Same, Live
  <1>12. CASE sess[s].stopped /\ sess' = [sess EXCEPT ![s] = q1] /\ tasks' = tasks
    <2>1. Adds(tasks', tasks, s, {}) /\ r.stopped
      BY <1>1, <1>12, AddsNone DEF r
    <2> QED
      BY <1>3, <1>4, <1>7, <1>10, <1>12, <2>1
  <1>13. ASSUME NEW at \in {"banWrite", "lastWrite"}, ~sess[s].stopped,
                sess' = [sess EXCEPT ![s] = q2],
                tasks' = tasks \cup {Task(s, at, "none")}
         PROVE  Core'
    <2>1. at # "release" /\ at \notin Opening
      BY DEF Opening, Starting, Reconnecting
    <2>2. Adds(tasks', tasks, s, {at}) /\ ~r.stopped
      BY <1>1, <1>13, <2>1, AddsOne DEF r
    <2>3. {at} = {"banWrite"} \/ {at} = {"lastWrite"}
      OBVIOUS
    <2> QED
      BY <1>8, <1>10, <1>11, <1>13, <2>2, <2>3
  <1>14. CASE ~sess[s].stopped /\ Schedule(s, [sess EXCEPT ![s] = q2], tasks)
    <2> DEFINE g == Tried(q2)
               X == {Reaction(q2)}
    <2>1. ~Opens(Ops(tasks, s))
      BY <1>9 DEF A
    <2>2. sess' = [sess EXCEPT ![s] = g] /\ Adds(tasks', tasks, s, X)
      BY <1>1, <1>8, <1>14, <2>1, ScheduleIs
    <2>3. /\ g \in SessionRecord /\ Same(g, q2) /\ g.owns = q2.owns
          /\ g.stopped = q2.stopped /\ Reaction(q2) \in {"lastWrite", "reconWrite"}
      BY <1>8, TriedIs
    <2>4. ~r.stopped /\ (X = {"lastWrite"} \/ X = {"reconWrite"})
      BY <1>14, <2>3 DEF r
    <2> HIDE DEF g, X
    <2>5. /\ g.host = r.host /\ g.timer = r.timer /\ g.loose = r.loose
          /\ g.owns = r.owns /\ g.stopped = r.stopped /\ ~Live(g)
      BY <1>11, <2>3 DEF Same, Live
    <2> QED
      BY <1>10, <2>2, <2>3, <2>4, <2>5
  <1> QED
    BY <1>6, <1>12, <1>13, <1>14

LEMMA SocketsKeep ==
    ASSUME Shape, Core, Shape', NEW s \in Sessions, NEW i \in Slots,
           \/ SocketQr(s, i) \/ SocketScanned(s, i) \/ SocketOpen(s, i)
           \/ \E d \in Decisions : SocketClose(s, i, d)
    PROVE  Core'
  <1>1. CASE SocketScanned(s, i)
    <2>1. /\ i \in LiveSlots(sess[s]) /\ "RECONNECT" \in Decisions
          /\ HandleClose(s, i, "RECONNECT")
          /\ UNCHANGED <<owner, beats, mapped, worker, used>>
      BY <1>1 DEF SocketScanned, LiveSlots, LiveConn, Decisions, processes
    <2> QED
      BY <2>1, ClosesKeep
  <1>2. ASSUME NEW d \in Decisions, SocketClose(s, i, d)
        PROVE  Core'
    <2>1. /\ i \in LiveSlots(sess[s]) /\ HandleClose(s, i, d)
          /\ UNCHANGED <<owner, beats, mapped, worker>>
      BY <1>2 DEF SocketClose, processes
    <2>2. UNCHANGED used \/ Spend("drops", MaxDrops)
      BY <1>2 DEF SocketClose
    <2>3. used'.lapses = 0 => used.lapses = 0
      BY <2>2, LapsesGrow
    <2> QED
      BY <2>1, <2>3, ClosesKeep
  <1> QED
    BY <1>1, <1>2, QrOpenKeeps

\* A handler that goes on from t: to X, or to nothing, in a session that is q.
LEMMA HandlerKeeps ==
    ASSUME Shape, Core, Shape', NEW t \in tasks,
           NEW X, Adds(tasks', tasks \ {t}, t.s, X), t.s \in Sessions,
           NEW q \in SessionRecord, sess' = [sess EXCEPT ![t.s] = q],
           sess[t.s].host # "none", Same(q, sess[t.s]), q.owns = sess[t.s].owns,
           q.stopped = sess[t.s].stopped,
           \/ t.at = "reconWrite" /\ X = {"arm"}
           \/ t.at \in {"lastWrite", "banWrite"} /\ X = {"lastStop"}
           \/ t.at \in {"qrWrite", "openWrite", "openReady"}
              /\ X \in {{}, {"openReady"}, {"sending"}},
           UNCHANGED <<owner, beats, mapped, worker, used>>
    PROVE  Core'
  <1> DEFINE s == t.s
             M == tasks \ {t}
  <1>1. t.at \notin Route
    BY DEF Route
  <1>2. /\ Before(M, s) /\ Dropped(M, tasks, t) /\ M \in TaskSet
        /\ t.at \in Ops(tasks, s)
    BY <1>1, StepFacts
  <1>3. ASSUME NEW A, NEW N, t.at \in A, N \subseteq A, A \subseteq N \cup {t.at}
        PROVE  Follows(q, N \cup X, sess[s], A)
    <2>1. q.host # "none"
      BY DEF Same
    <2>2. "acquire" \notin X /\ "files" \notin X /\ "release" \notin X
          /\ t.at # "logout"
      OBVIOUS
    <2>3. Opens(N \cup X) => Opens(A)
      BY <1>3 DEF Opens
    <2>4. Sustains(A) => Sustains(N \cup X)
      BY <1>3 DEF Sustains
    <2> QED
      BY <1>3, <2>1, <2>2, <2>3, <2>4 DEF Follows
  <1>4. Follows(q, Ops(M, s) \cup X, sess[s], Ops(tasks, s))
    BY <1>2, <1>3 DEF Dropped
  <1> HIDE DEF M, s
  <1>5. s \in Sessions /\ Adds(tasks', M, s, X) /\ sess' = [sess EXCEPT ![s] = q]
    BY DEF s, M
  <1> QED
    BY <1>2, <1>4, <1>5, FollowKeeps

LEMMA HandlerEnds ==
    ASSUME Shape, Core, NEW t \in tasks, t.at \notin Route,
           NEW q \in SessionRecord, Same(q, sess[t.s]), q.owns = sess[t.s].owns,
           ProcessGone(InCli(sess[t.s]), [sess EXCEPT ![t.s] = q],
                       tasks \ {t}, beats),
           UNCHANGED <<owner, used>>
    PROVE  Core'
  <1> DEFINE s == t.s
             M == tasks \ {t}
  <1>1. /\ s \in Sessions /\ Before(M, s) /\ M \in TaskSet
        /\ sess[s].host # "none" /\ Ops(M, s) \subseteq Ops(tasks, s)
    BY StepFacts DEF Before
  <1>2. PICK inCli \in BOOLEAN : inCli = InCli(sess[s])
    BY DEF InCli
  <1>3. q.host = sess[s].host /\ q.host # "none" /\ InCli(q) = inCli
    BY <1>1, <1>2 DEF Same, InCli
  <1>4. Busy(q, Ops(M, s)) => Busy(sess[s], Ops(tasks, s))
    BY <1>1 DEF Busy, Same, Live, Opens
  <1>5. ProcessGone(inCli, [sess EXCEPT ![s] = q], M, beats)
    BY <1>2
  <1> HIDE DEF s, M
  <1>6. q.owns => sess[s].owns
    BY DEF s
  <1> QED
    BY <1>1, <1>3, <1>4, <1>5, <1>6, SessionEnds

LEMMA WritesKeep ==
    ASSUME Shape, Core, Shape', NEW t \in tasks, Writes(t)
    PROVE  Core'
  <1> DEFINE s == t.s
             q == sess[s]
  <1>1. /\ t.at \in {"qrWrite", "openWrite", "reconWrite", "lastWrite", "banWrite"}
        /\ t.at \notin Route
    BY DEF Writes, Route
  <1>2. /\ s \in Sessions /\ q \in SessionRecord /\ q.host # "none"
        /\ \A o \in Sessions : Lone(tasks \ {t}, o)
        /\ Dropped(tasks \ {t}, tasks, t)
    BY <1>1, StepFacts
  <1>3. [sess EXCEPT ![s] = q] = sess /\ Same(q, sess[s])
    BY <1>2 DEF Shape, SessionMap, Same
  <1>4. UNCHANGED <<owner, used>>
    BY DEF Writes
  <1>5. \/ ProcessGone(InCli(sess[s]), sess, tasks \ {t}, beats)
        \/ /\ UNCHANGED <<sess, mapped, beats, worker>>
           /\ \/ t.at = "qrWrite" /\ tasks' = (tasks \ {t}) \cup {}
              \/ /\ t.at = "openWrite"
                 /\ tasks' = (tasks \ {t}) \cup {Task(s, "openReady", "none")}
              \/ /\ t.at = "reconWrite"
                 /\ tasks' = (tasks \ {t}) \cup {Task(s, "arm", "none")}
              \/ /\ t.at \in {"lastWrite", "banWrite"}
                 /\ tasks' = (tasks \ {t}) \cup {Task(s, "lastStop", "none")}
    BY DEF Writes, SetStatus, processes
  <1>6. CASE ProcessGone(InCli(sess[s]), sess, tasks \ {t}, beats)
    BY <1>1, <1>2, <1>3, <1>4, <1>6, HandlerEnds
  <1>7. ASSUME UNCHANGED <<sess, mapped, beats, worker>>,
               NEW X, Adds(tasks', tasks \ {t}, s, X),
               \/ t.at = "reconWrite" /\ X = {"arm"}
               \/ t.at \in {"lastWrite", "banWrite"} /\ X = {"lastStop"}
               \/ t.at \in {"qrWrite", "openWrite", "openReady"}
                  /\ X \in {{}, {"openReady"}, {"sending"}}
        PROVE  Core'
    <2>1. sess' = [sess EXCEPT ![s] = q]
      BY <1>3, <1>7
    <2> QED
      BY <1>2, <1>3, <1>4, <1>7, <2>1, HandlerKeeps
  <1>8. ASSUME NEW at \in {"openReady", "arm", "lastStop"},
               at = "arm" => t.at = "reconWrite",
               tasks' = (tasks \ {t}) \cup {Task(s, at, "none")}
        PROVE  Adds(tasks', tasks \ {t}, s, {at})
    <2>1. at # "release"
      OBVIOUS
    <2>2. at \in Opening => at = "arm"
      BY DEF Opening, Starting, Reconnecting
    <2>3. at = "arm" => t.at \in Opening
      BY <1>8 DEF Opening, Reconnecting
    <2>4. at \in Opening => ~Opens(Ops(tasks \ {t}, s))
      BY <1>2, <2>2, <2>3 DEF Dropped
    <2> QED
      BY <1>2, <1>8, <2>1, <2>4, AddsOne
  <1>9. ASSUME tasks' = (tasks \ {t}) \cup {}
        PROVE  Adds(tasks', tasks \ {t}, s, {})
    <2>1. tasks' = tasks \ {t}
      BY <1>9
    <2> QED
      BY <1>2, <2>1, AddsNone
  <1> HIDE DEF q
  <1>10. CASE UNCHANGED <<sess, mapped, beats, worker>>
    <2>1. CASE t.at = "qrWrite" /\ tasks' = (tasks \ {t}) \cup {}
      BY <1>7, <1>9, <1>10, <2>1
    <2>2. CASE /\ t.at = "openWrite"
               /\ tasks' = (tasks \ {t}) \cup {Task(s, "openReady", "none")}
      <3>1. Adds(tasks', tasks \ {t}, s, {"openReady"})
        BY <1>8, <2>2
      <3> QED
        BY <1>7, <1>10, <2>2, <3>1
    <2>3. CASE /\ t.at = "reconWrite"
               /\ tasks' = (tasks \ {t}) \cup {Task(s, "arm", "none")}
      <3>1. Adds(tasks', tasks \ {t}, s, {"arm"})
        BY <1>8, <2>3
      <3> QED
        BY <1>7, <1>10, <2>3, <3>1
    <2>4. CASE /\ t.at \in {"lastWrite", "banWrite"}
               /\ tasks' = (tasks \ {t}) \cup {Task(s, "lastStop", "none")}
      <3>1. Adds(tasks', tasks \ {t}, s, {"lastStop"})
        BY <1>8, <2>4
      <3> QED
        BY <1>7, <1>10, <2>4, <3>1
    <2>5. \/ t.at = "qrWrite" /\ tasks' = (tasks \ {t}) \cup {}
          \/ /\ t.at = "openWrite"
             /\ tasks' = (tasks \ {t}) \cup {Task(s, "openReady", "none")}
          \/ /\ t.at = "reconWrite"
             /\ tasks' = (tasks \ {t}) \cup {Task(s, "arm", "none")}
          \/ /\ t.at \in {"lastWrite", "banWrite"}
             /\ tasks' = (tasks \ {t}) \cup {Task(s, "lastStop", "none")}
          \/ ProcessGone(InCli(sess[s]), sess, tasks \ {t}, beats)
      BY <1>5
    <2> QED
      BY <1>6, <2>1, <2>2, <2>3, <2>4, <2>5
  <1> QED
    BY <1>5, <1>6, <1>10

LEMMA ReadyKeeps ==
    ASSUME Shape, Core, Shape', NEW t \in tasks, OpenReady(t)
    PROVE  Core'
  <1> DEFINE s == t.s
             q == [sess[s] EXCEPT !.ready = TRUE]
  <1>1. t.at = "openReady" /\ t.at \notin Route
    BY DEF OpenReady, Route
  <1>2. /\ s \in Sessions /\ sess[s] \in SessionRecord /\ sess[s].host # "none"
        /\ \A o \in Sessions : Lone(tasks \ {t}, o)
    BY <1>1, StepFacts
  <1>3. /\ q \in SessionRecord /\ Same(q, sess[s]) /\ q.owns = sess[s].owns
        /\ q.stopped = sess[s].stopped
    BY <1>2, BitSet, FlagSet
  <1>4. [sess EXCEPT ![s].ready = TRUE] = [sess EXCEPT ![s] = q]
    BY <1>2 DEF Shape, SessionMap
  <1>5. UNCHANGED <<owner, used>>
    BY DEF OpenReady
  <1>6. \/ /\ InCli(sess[s])
           /\ ProcessGone(TRUE, [sess EXCEPT ![s] = q], tasks \ {t}, beats)
        \/ /\ sess' = [sess EXCEPT ![s] = q] /\ UNCHANGED <<mapped, beats, worker>>
           /\ \/ tasks' = (tasks \ {t}) \cup {}
              \/ tasks' = (tasks \ {t}) \cup {Task(s, "sending", "none")}
    BY <1>4 DEF OpenReady, processes
  <1> HIDE DEF q
  <1>7. CASE /\ InCli(sess[s])
             /\ ProcessGone(TRUE, [sess EXCEPT ![s] = q], tasks \ {t}, beats)
    <2>1. InCli(sess[s]) = TRUE
      BY <1>7 DEF InCli
    <2>2. ProcessGone(InCli(sess[s]), [sess EXCEPT ![s] = q], tasks \ {t}, beats)
      BY <1>7, <2>1
    <2> QED
      BY <1>1, <1>3, <1>5, <2>2, HandlerEnds
  <1>8. ASSUME sess' = [sess EXCEPT ![s] = q], UNCHANGED <<mapped, beats, worker>>,
               NEW X, X \in {{}, {"openReady"}, {"sending"}},
               Adds(tasks', tasks \ {t}, s, X)
        PROVE  Core'
    <2>1. t.at \in {"qrWrite", "openWrite", "openReady"}
      BY <1>1
    <2> QED
      BY <1>2, <1>3, <1>5, <1>8, <2>1, HandlerKeeps
  <1>9. CASE /\ sess' = [sess EXCEPT ![s] = q]
             /\ UNCHANGED <<mapped, beats, worker>>
             /\ tasks' = (tasks \ {t}) \cup {}
    <2>1. tasks' = tasks \ {t}
      BY <1>9
    <2>2. Adds(tasks', tasks \ {t}, s, {})
      BY <1>2, <2>1, AddsNone
    <2> QED
      BY <1>8, <1>9, <2>2
  <1>10. CASE /\ sess' = [sess EXCEPT ![s] = q]
              /\ UNCHANGED <<mapped, beats, worker>>
              /\ tasks' = (tasks \ {t}) \cup {Task(s, "sending", "none")}
    <2>1. "sending" # "release" /\ "sending" \notin Opening
      BY DEF Opening, Starting, Reconnecting
    <2>2. Adds(tasks', tasks \ {t}, s, {"sending"})
      BY <1>2, <1>10, <2>1, AddsOne
    <2> QED
      BY <1>8, <1>10, <2>2
  <1> QED
    BY <1>6, <1>7, <1>9, <1>10

\* The timer is armed: the session had none, and no socket.
LEMMA ArmKeeps ==
    ASSUME Shape, Core, Shape', NEW t \in tasks, Arm(t)
    PROVE  Core'
  <1> DEFINE s == t.s
             M == tasks \ {t}
             A == Ops(tasks, s)
             N == Ops(M, s)
             r == sess[s]
             r1 == [r EXCEPT !.timer = TRUE]
             q == [r1 EXCEPT !.loose = FALSE]
  <1>1. "arm" \notin Route /\ "arm" \in Opening /\ t.at = "arm"
    BY DEF Route, Opening, Reconnecting, Arm
  <1>2. /\ s \in Sessions /\ r \in SessionRecord /\ r.host # "none"
        /\ "arm" \in A /\ Fine(r, A, s \in beats) /\ M \in TaskSet
        /\ Before(M, s) /\ Dropped(M, tasks, t)
        /\ \A o \in Sessions : Lone(M, o)
    BY <1>1, StepFacts
  <1>3. N \subseteq A /\ A \subseteq N \cup {"arm"} /\ ~Opens(N)
    BY <1>1, <1>2 DEF Dropped
  <1>4. Opens(A) /\ Busy(r, A)
    BY <1>2 DEF Opens, Busy
  <1>5. r.timer = FALSE /\ r.loose = FALSE
    BY <1>2, <1>4 DEF Fine, SessionRecord
  <1>6. sess' = [sess EXCEPT ![s] = q]
    BY <1>2, <1>5 DEF Arm, Shape, SessionMap, SessionRecord
  <1>7. r1 \in SessionRecord
    BY <1>2, BitSet
  <1>8. q \in SessionRecord
    <2> HIDE DEF r1
    <2> QED
      BY <1>7, BitSet
  <1>9. /\ q.host = r.host /\ q.owns = r.owns /\ q.stopped = r.stopped
        /\ q.timer = TRUE /\ q.loose = FALSE /\ q.sock = r.sock
        /\ LiveSlots(q) = LiveSlots(r)
    BY <1>2 DEF SessionRecord, LiveSlots
  <1>10. /\ tasks' = M /\ UNCHANGED <<owner, beats, mapped, worker, used>>
    BY DEF Arm, processes
  <1>11. Adds(tasks', M, s, {})
    BY <1>2, <1>10, AddsNone
  <1> HIDE DEF q, r, M, A, N
  <1>12. ~Live(r) /\ "release" \notin A /\ (r.stopped => "logout" \in N)
         /\ (r.owns <=> s \in beats)
    BY <1>2, <1>3, <1>4 DEF Fine
  <1>13. Fine(q, N \cup {}, s \in beats)
    <2>1. "acquire" \notin N /\ "files" \notin N /\ "release" \notin N
      BY <1>3, <1>12 DEF Opens
    <2>2. ~Live(q) /\ LiveSlots(q) \subseteq {q.sock} /\ q.host # "none"
      BY <1>2, <1>9, <1>12 DEF Live, Fine
    <2>3. N \cup {} = N
      OBVIOUS
    <2> QED
      BY <1>3, <1>9, <1>12, <2>1, <2>2, <2>3 DEF Fine
  <1>14. /\ Fine(q, Ops(M, s) \cup {}, s \in beats)
         /\ Busy(q, Ops(M, s) \cup {}) => Busy(sess[s], Ops(tasks, s))
         /\ q.host = sess[s].host /\ (q.owns => sess[s].owns)
    BY <1>4, <1>9, <1>13 DEF N, A, r
  <1> QED
    BY <1>2, <1>6, <1>8, <1>10, <1>11, <1>14, SessionKeeps

-----------------------------------------------------------------------------
(* All steps together, and what follows from the core. *)

LEMMA CoreInit ==
    ASSUME FleetInit
    PROVE  Core
  <1>1. \A s \in Sessions : sess[s] = Blank("none") /\ Ops(tasks, s) = {}
    BY DEF FleetInit, Ops
  <1>2. "none" \in {"none", "managed", "qr", "cli"} /\ beats = {} /\ tasks = {}
        /\ mapped = Nobody
    BY DEF FleetInit
  <1>3. \A s \in Sessions :
           /\ sess[s].host = "none" /\ ~Live(sess[s]) /\ ~sess[s].owns
           /\ ~sess[s].timer /\ ~sess[s].loose /\ ~sess[s].stopped
    BY <1>1, <1>2, BlankRecord DEF Live
  <1>4. \A s \in Sessions : ~Busy(sess[s], Ops(tasks, s))
    BY <1>1, <1>3 DEF Busy, Opens
  <1>5. ASSUME NEW s \in Sessions
        PROVE  Fine(sess[s], Ops(tasks, s), s \in beats)
    <2>1. LiveSlots(sess[s]) = {} /\ ~(s \in beats)
      BY <1>2, <1>3 DEF Live
    <2> QED
      BY <1>1, <1>3, <2>1 DEF Fine, Live, Opens
  <1>6. Sound(sess, tasks, beats)
    BY <1>2, <1>5 DEF Sound, Lone
  <1>7. Held(sess, tasks, mapped, worker)
    BY <1>2, <1>3, <1>4, Numbers DEF Held, MapFits, DownFits, ThenFits
  <1>8. KeyFits
    BY <1>3 DEF KeyFits
  <1> QED
    BY <1>6, <1>7, <1>8 DEF Core

LEMMA CoreStep ==
    ASSUME Shape, Core, Shape', ~race', FleetStep
    PROVE  Core'
  <1>1. ASSUME NEW t \in tasks, TaskStep(t)
        PROVE  Core'
    <2>1. CASE Acquire(t)
      BY <2>1, AcquireKeeps
    <2>2. CASE OpenSocket(t)
      BY <2>2, OpenSocketKeeps
    <2>3. CASE Release(t)
      BY <2>3, ReleaseKeeps
    <2>4. CASE Writes(t)
      BY <2>4, WritesKeep
    <2>5. CASE OpenReady(t)
      BY <2>5, ReadyKeeps
    <2>6. CASE Arm(t)
      BY <2>6, ArmKeeps
    <2>7. CASE Stops(t)
      BY <2>7, StopsKeeps
    <2>8. CASE RouteGoesOn(t) \/ HealthAct(t)
      BY <2>8, RoutesKeep
    <2> QED
      BY <1>1, <2>1, <2>2, <2>3, <2>4, <2>5, <2>6, <2>7, <2>8 DEF TaskStep
  <1>2. ASSUME NEW s \in Sessions, Timers(s) \/ CloseQr(s)
        PROVE  Core'
    <2>1. CASE CloseQr(s)
      BY <2>1, CloseQrKeeps
    <2>2. CASE Timers(s)
      BY <2>2, TimerKeeps DEF Timers
    <2> QED
      BY <1>2, <2>1, <2>2
  <1>3. ASSUME NEW s \in Sessions, NEW i \in Slots,
               \/ SocketQr(s, i) \/ SocketScanned(s, i) \/ SocketOpen(s, i)
               \/ \E d \in Decisions : SocketClose(s, i, d)
        PROVE  Core'
    BY <1>3, SocketsKeep
  <1>4. CASE KeyExpires \/ KeyLapses \/ HealthRead
    BY <1>4, ClockKeeps
  <1>5. CASE Pause \/ Resume \/ Reconnect \/ OpenQr \/ Remove
    BY <1>5, RequestsKeep
  <1>6. CASE \/ Boot \/ WorkerCrash \/ Shutdown \/ CliGivesUp
             \/ \E job \in {"pair", "send", "logout"} : CliStarts(job)
    BY <1>6, ProcessesKeep
  <1> QED
    BY <1>1, <1>2, <1>3, <1>4, <1>5, <1>6 DEF FleetStep

\* The core is kept for as long as no race was met: what was met stays met, so a
\* step that ends without one began without one.
LEMMA CoreNext ==
    ASSUME CoreInv, [FleetNext]_fleetVars
    PROVE  CoreInv'
  <1>1. Shape /\ Shape' /\ (race => race')
    BY ShapeNext DEF CoreInv
  <1>2. ASSUME ~race' PROVE Core'
    <2>1. Core
      BY <1>1, <1>2 DEF CoreInv
    <2>2. CASE UNCHANGED fleetVars
      BY <2>1, <2>2 DEF fleetVars, Core, Sound, Held, MapFits, DownFits, ThenFits,
         KeyFits
    <2>3. CASE FleetStep
      BY <1>1, <1>2, <2>1, <2>3, CoreStep
    <2> QED
      BY <2>2, <2>3 DEF FleetNext
  <1> QED
    BY <1>1, <1>2 DEF CoreInv

\* The invariant of the fleet: whatever number of sessions, requests, crashes and
\* lapses, what has the shape of a state and met no race is sound.
LEMMA CoreHolds == FleetSpec => []CoreInv
  <1>1. FleetInit => CoreInv
    BY ShapeInit, CoreInit DEF CoreInv
  <1>2. CoreInv /\ [FleetNext]_fleetVars => CoreInv'
    BY CoreNext
  <1> QED
    BY <1>1, <1>2, PTL DEF FleetSpec

\* At any time one socket at most is open or being opened for the account, in the
\* worker, the QR stream and the CLI together, as long as no living owner lost its
\* key: a socket is opened by an owner only, the key has one owner, and a session
\* never opens a second socket before the first is gone.
THEOREM OneSocketHolds == FleetSpec => []OneSocket
  <1>1. CoreInv => OneSocket
    <2> SUFFICES ASSUME Core, used.lapses = 0, NEW s \in Sessions,
                        NEW i \in LiveSlots(sess[s]), Elsewhere(s, i)
                 PROVE  FALSE
      BY DEF CoreInv, OneSocket, Shape
    <2>1. PICK o \in Sessions : \E j \in LiveSlots(sess[o]) : <<o, j>> # <<s, i>>
      BY DEF Elsewhere
    <2>2. \A x \in Sessions :
             /\ LiveSlots(sess[x]) # {} => sess[x].owns
             /\ LiveSlots(sess[x]) \subseteq {sess[x].sock}
      BY DEF Core, Sound, Fine, Live
    <2>3. owner = s /\ owner = o
      BY <2>1, <2>2 DEF Core, KeyFits
    <2>4. i = sess[s].sock /\ \A j \in LiveSlots(sess[s]) : j = sess[s].sock
      BY <2>2
    <2> QED
      BY <2>1, <2>3, <2>4
  <1> QED
    BY <1>1, CoreHolds, PTL

\* A session that was stopped - paused, removed, replaced, banned, given up - has no
\* socket and no timer that could start it again, unless logoutAndWipe, which sets
\* the flag before it logs out, is still at it.
THEOREM StoppedDown == FleetSpec => []StoppedStaysDown
  <1>1. CoreInv => StoppedStaysDown
    <2> SUFFICES ASSUME Core, NEW s \in Sessions, sess[s].stopped,
                        ~\E t \in tasks : t.s = s /\ t.at = "logout"
                 PROVE  ~LiveSocket(s) /\ ~sess[s].timer /\ ~sess[s].loose
      BY DEF CoreInv, StoppedStaysDown
    <2>1. "logout" \notin Ops(tasks, s)
      BY DEF Ops
    <2>2. Fine(sess[s], Ops(tasks, s), s \in beats)
      BY DEF Core, Sound
    <2> QED
      BY <2>1, <2>2 DEF Fine, Busy, Live, LiveSocket
  <1> QED
    BY <1>1, CoreHolds, PTL

\* The ownership of the account, and the interval that renews its key for ever,
\* belong to a session that has a socket, a timer or a handler at work that will
\* give it up or open a socket: a key is never kept alive for nobody.
THEOREM OwnershipUsed == FleetSpec => []OwnershipInUse
  <1>1. CoreInv => OwnershipInUse
    <2> SUFFICES ASSUME Core, NEW s \in Sessions, sess[s].owns \/ s \in beats
                 PROVE  LiveSocket(s) \/ sess[s].timer \/ HandlerOf(s)
      BY DEF CoreInv, OwnershipInUse
    <2>1. Fine(sess[s], Ops(tasks, s), s \in beats)
      BY DEF Core, Sound
    <2>2. Live(sess[s]) \/ sess[s].timer \/ Sustains(Ops(tasks, s))
      BY <2>1 DEF Fine
    <2>3. Sustains(Ops(tasks, s)) => HandlerOf(s)
      BY DEF Sustains, Ops, HandlerOf
    <2> QED
      BY <2>2, <2>3 DEF Live, LiveSocket
  <1> QED
    BY <1>1, CoreHolds, PTL

\* A session the manager started and that has a socket or a timer is the one in its
\* map: the worker can send through it, and pause and shutdown reach it.
THEOREM NoOrphans == FleetSpec => []NoOrphanSession
  <1>1. CoreInv => NoOrphanSession
    BY DEF CoreInv, Core, Held, MapFits, Busy, Live, LiveSocket, NoOrphanSession
  <1> QED
    BY <1>1, CoreHolds, PTL

-----------------------------------------------------------------------------
(* How many handlers there are, and their places in the queue to Redis.    *)

\* The process of a handler: the CLI or the worker, its routes included.
Sides == {"cli", "worker"}
SideOf(r) == IF InCli(r) THEN "cli" ELSE "worker"
Aside(S, t) == IF t.s = Nobody THEN "worker" ELSE SideOf(S[t.s])
OnSide(S, T, b) == {t \in T : Aside(S, t) = b}
\* Whoever waits for Redis has a place of its own, and no place is empty.
Ranked(Q) ==
    \A t \in Q : t.n \in 1..Cardinality(Q) /\ \A u \in Q : u.n = t.n => u = t
ToRedis == {"acquire", "release"}
Waiting(S, T, b) == {t \in T : t.at \in ToRedis /\ Aside(S, t) = b}
InOrder(S, T) ==
    /\ \A t \in T : t.at \notin ToRedis => t.n = 0
    /\ \A b \in Sides : Ranked(Waiting(S, T, b))
\* The bootstrap begins without Room in a worker that has no handler, and the
\* shutdown without Room in one that may have MaxTasks of them.
Cap(w, b) ==
    IF b = "cli" THEN MaxTasks
    ELSE IF w = "down" THEN 0 ELSE IF w = "up" THEN MaxTasks ELSE MaxTasks + 1
\* No process has more handlers than it has places.
Few(S, T, w) == \A b \in Sides : Cardinality(OnSide(S, T, b)) <= Cap(w, b)
\* A handler is of an object that is there, an object not there is blank, and a
\* worker that is down has no object.
Hosted(S, T) == \A t \in T : t.s # Nobody => S[t.s].host # "none"
Inert(S) == \A s \in Sessions : S[s].host = "none" => S[s] = Blank("none")
OffDuty(S, w) == w = "down" => \A s \in Sessions : S[s].host \in {"none", "cli"}
Line(S, T, w) ==
    /\ InOrder(S, T) /\ Few(S, T, w) /\ ThenFits(S, T)
    /\ Hosted(S, T) /\ Inert(S) /\ OffDuty(S, w)
\* One more handler may begin in the process.
Place(S, T, w, b) ==
    Line(S, T, w) /\ Cardinality(OnSide(S, T, b)) < Cap(w, b)
ByManager(S, m) == m # Nobody => S[m].host = "managed"
LineInv == Line(sess, tasks, worker) /\ ByManager(sess, mapped)

LEMMA QueueJoined ==
    ASSUME NEW Q, IsFiniteSet(Q), Ranked(Q), NEW u, u.n = 1 + Cardinality(Q)
    PROVE  Ranked(Q \cup {u})
  <1> DEFINE k == Cardinality(Q)
             M == Q \cup {u}
  <1>1. k \in Nat
    BY FS_CardinalityType
  <1> HIDE DEF k
  <1>2. \A v \in Q : v.n \in 1..k /\ \A x \in Q : x.n = v.n => x = v
    BY DEF Ranked, k
  <1>3. u.n = 1 + k
    BY DEF k
  <1>4. u \notin Q
    BY <1>1, <1>2, <1>3
  <1>5. Cardinality(M) = k + 1
    BY <1>4, FS_AddElement DEF k
  <1>6. ASSUME NEW v \in M
        PROVE  v.n \in 1..(k + 1) /\ \A x \in M : x.n = v.n => x = v
    <2>1. v.n \in 1..(k + 1)
      BY <1>1, <1>2, <1>3
    <2>2. ASSUME NEW x \in M, x.n = v.n PROVE x = v
      <3>1. CASE v \in Q /\ x \in Q
        BY <1>2, <2>2, <3>1
      <3>2. CASE v = u /\ x = u
        BY <3>2
      <3>3. CASE v = u /\ x \in Q
        BY <1>1, <1>2, <1>3, <2>2, <3>3
      <3>4. CASE x = u /\ v \in Q
        BY <1>1, <1>2, <1>3, <2>2, <3>4
      <3> QED
        BY <3>1, <3>2, <3>3, <3>4
    <2> QED
      BY <2>1, <2>2
  <1> QED
    BY <1>5, <1>6 DEF Ranked

\* The next place of the queue.
Nearer(u) == [u EXCEPT !.n = @ - 1]

LEMMA NearerIs ==
    ASSUME NEW u \in TaskRow
    PROVE  /\ Nearer(u).n = u.n - 1 /\ Nearer(u).s = u.s /\ Nearer(u).at = u.at
           /\ Nearer(u).then = u.then
           /\ \A v \in TaskRow : Nearer(u) = Nearer(v) => u = v
  <1>1. /\ Nearer(u).n = u.n - 1 /\ Nearer(u).s = u.s /\ Nearer(u).at = u.at
        /\ Nearer(u).then = u.then
    BY DEF Nearer, TaskRow
  <1>2. ASSUME NEW v \in TaskRow, Nearer(u) = Nearer(v) PROVE u = v
    <2>1. /\ Nearer(v).n = v.n - 1 /\ Nearer(v).s = v.s /\ Nearer(v).at = v.at
          /\ Nearer(v).then = v.then
      BY DEF Nearer, TaskRow
    <2>2. u.n = v.n /\ u.s = v.s /\ u.at = v.at /\ u.then = v.then
      <3>1. u.n \in Int /\ v.n \in Int /\ u.n - 1 = v.n - 1
        BY <1>1, <1>2, <2>1 DEF TaskRow
      <3> QED
        BY <1>1, <1>2, <2>1, <3>1
    <2> QED
      BY <2>2 DEF TaskRow
  <1> QED
    BY <1>1, <1>2

LEMMA QueueServed ==
    ASSUME NEW Q \in SUBSET TaskRow, IsFiniteSet(Q), Ranked(Q),
           NEW t \in Q, t.n = 1
    PROVE  Ranked({Nearer(u) : u \in Q \ {t}})
  <1> DEFINE k == Cardinality(Q)
             R == Q \ {t}
             M == {Nearer(u) : u \in R}
             f == [u \in R |-> Nearer(u)]
  <1>1. k \in Nat /\ k >= 1
    <2>1. k \in Nat
      BY FS_CardinalityType
    <2>2. k # 0
      BY FS_EmptySet
    <2> QED
      BY <2>1, <2>2
  <1>2. /\ \A v \in Q : v.n \in 1..k /\ \A x \in Q : x.n = v.n => x = v
        /\ IsFiniteSet(R) /\ Cardinality(R) = k - 1
    BY FS_RemoveElement DEF Ranked
  <1>3. Cardinality(M) = k - 1
    <2>1. f \in Surjection(R, M)
      BY DEF Surjection
    <2>2. f \in Injection(R, M)
      BY NearerIs DEF Injection, IsInjective
    <2> HIDE DEF f, M, R
    <2>3. Cardinality(M) = Cardinality(R)
      BY <1>2, <2>1, <2>2, FS_Surjection
    <2> QED
      BY <1>2, <2>3
  <1> HIDE DEF k
  <1>4. ASSUME NEW v \in R PROVE v.n \in 2..k
    BY <1>1, <1>2
  <1>5. ASSUME NEW v \in R, NEW x \in R
        PROVE  /\ Nearer(v).n \in 1..(k - 1)
               /\ Nearer(x).n = Nearer(v).n => Nearer(x) = Nearer(v)
    <2>1. /\ Nearer(v).n = v.n - 1 /\ Nearer(x).n = x.n - 1
          /\ v.n \in 2..k /\ x.n \in 2..k
      BY <1>4, NearerIs
    <2>2. x.n = v.n => x = v
      BY <1>2
    <2> QED
      BY <1>1, <2>1, <2>2
  <1>6. \A y \in M : y.n \in 1..(k - 1) /\ \A z \in M : z.n = y.n => z = y
    BY <1>5
  <1> QED
    BY <1>3, <1>6 DEF Ranked

LEMMA CapIs ==
    ASSUME NEW w, NEW b \in Sides
    PROVE  /\ Cap(w, b) \in Nat /\ MaxTasks \in Nat /\ Cap(w, b) <= MaxTasks + 1
           /\ w # "down" \/ b = "cli" => MaxTasks <= Cap(w, b)
           /\ Cap(w, "cli") = MaxTasks /\ Cap("down", "worker") = 0
  BY FleetAssumption DEF Cap

LEMMA SideIs ==
    ASSUME NEW S, NEW T \in TaskSet, NEW b \in Sides
    PROVE  /\ IsFiniteSet(OnSide(S, T, b)) /\ IsFiniteSet(Waiting(S, T, b))
           /\ Cardinality(OnSide(S, T, b)) \in Nat
           /\ Waiting(S, T, b) \in SUBSET OnSide(S, T, b)
           /\ Waiting(S, T, b) \in SUBSET TaskRow
  <1>1. OnSide(S, T, b) \in SUBSET T /\ Waiting(S, T, b) \in SUBSET T
        /\ IsFiniteSet(T) /\ T \in SUBSET TaskRow
    BY DEF OnSide, Waiting, TaskSet
  <1>2. Waiting(S, T, b) \in SUBSET OnSide(S, T, b)
    BY DEF OnSide, Waiting
  <1> QED
    BY <1>1, <1>2, FS_Subset, FS_CardinalityType

\* The model's two queues are those of the two processes.
LEMMA QueueOf ==
    ASSUME NEW S, NEW T \in TaskSet, NEW s \in Sessions
    PROVE  AtRedis(S, T, InCli(S[s])) = Waiting(S, T, SideOf(S[s]))
  <1>1. \A t \in T : t.at \in ToRedis => t.s # Nobody
    BY DEF TaskSet, TaskRow, ToRedis, Route
  <1>2. ASSUME NEW t \in T, t.at \in ToRedis
        PROVE  InCli(S[t.s]) = InCli(S[s]) <=> Aside(S, t) = SideOf(S[s])
    BY <1>1, <1>2 DEF Aside, SideOf, InCli
  <1> QED
    BY <1>2 DEF AtRedis, Waiting, ToRedis

LEMMA AsideIs ==
    ASSUME NEW S, NEW t
    PROVE  Aside(S, t) \in Sides /\ SideOf(S[t.s]) \in Sides
  BY DEF Aside, SideOf, Sides

\* What the tasks need to know of the sessions is their hosts.
LEMMA LineFrame ==
    ASSUME NEW S, NEW N, NEW T, NEW w, Line(S, T, w),
           \A t \in T : t.s # Nobody => N[t.s].host = S[t.s].host,
           \A t \in T : t.at \in ToRedis => t.s # Nobody,
           Inert(N), OffDuty(N, w)
    PROVE  /\ Line(N, T, w)
           /\ \A b \in Sides : Place(S, T, w, b) => Place(N, T, w, b)
  <1>1. ASSUME NEW b \in Sides
        PROVE  /\ OnSide(N, T, b) = OnSide(S, T, b)
               /\ Waiting(N, T, b) = Waiting(S, T, b)
    <2>1. \A t \in T : Aside(N, t) = Aside(S, t)
      BY DEF Aside, SideOf, InCli
    <2> QED
      BY <2>1 DEF OnSide, Waiting
  <1>2. InOrder(N, T)
    BY <1>1 DEF Line, InOrder
  <1>3. Few(N, T, w)
    BY <1>1 DEF Line, Few
  <1>4. ThenFits(N, T) /\ Hosted(N, T)
    BY DEF Line, ThenFits, Hosted, ToRedis
  <1>5. Line(N, T, w)
    BY <1>2, <1>3, <1>4 DEF Line
  <1> QED
    BY <1>1, <1>5 DEF Place

\* One session changes, and keeps its host.
LEMMA LineRecord ==
    ASSUME NEW S, NEW N, NEW T \in TaskSet, NEW w, Line(S, T, w),
           NEW s \in Sessions, N[s].host = S[s].host, S[s].host # "none",
           \A o \in Sessions \ {s} : N[o] = S[o]
    PROVE  /\ Line(N, T, w) /\ N[s].host # "none" /\ SideOf(N[s]) = SideOf(S[s])
           /\ \A b \in Sides : Place(S, T, w, b) => Place(N, T, w, b)
           /\ \A o \in Sessions : N[o].host = S[o].host
           /\ \A m \in Sessions \cup {Nobody} : ByManager(S, m) => ByManager(N, m)
           /\ SideOf(S[s]) \in Sides
  <1>2. \A o \in Sessions : N[o].host = S[o].host
    OBVIOUS
  <1>3. /\ \A t \in T : t.s # Nobody => N[t.s].host = S[t.s].host
        /\ \A t \in T : t.at \in ToRedis => t.s # Nobody
    BY <1>2 DEF TaskSet, TaskRow, ToRedis, Route
  <1>4. Inert(N)
    BY DEF Line, Inert
  <1>5. OffDuty(N, w)
    BY <1>2 DEF Line, OffDuty
  <1>6. /\ Line(N, T, w)
        /\ \A b \in Sides : Place(S, T, w, b) => Place(N, T, w, b)
    BY <1>3, <1>4, <1>5, LineFrame
  <1>7. \A m \in Sessions \cup {Nobody} : ByManager(S, m) => ByManager(N, m)
    BY <1>2 DEF ByManager
  <1>8. SideOf(N[s]) = SideOf(S[s]) /\ SideOf(S[s]) \in Sides
    BY DEF SideOf, InCli, Sides
  <1> QED
    BY <1>2, <1>6, <1>7, <1>8

LEMMA LineJoined ==
    ASSUME NEW S, NEW T \in TaskSet, NEW w, NEW u \in TaskRow,
           Place(S, T, w, Aside(S, u)),
           u.s # Nobody => S[u.s].host # "none",
           u.at = "release" /\ u.then \in Managerial => S[u.s].host # "cli",
           u.at \notin ToRedis => u.n = 0,
           u.at \in ToRedis => u.n = 1 + Cardinality(Waiting(S, T, Aside(S, u)))
    PROVE  Line(S, T \cup {u}, w)
  <1> DEFINE M == T \cup {u}
  <1>0. Line(S, T, w) /\ Aside(S, u) \in Sides
    BY AsideIs DEF Place
  <1>1. InOrder(S, M)
    <2>1. ASSUME NEW t \in M, t.at \notin ToRedis PROVE t.n = 0
      BY <1>0, <2>1 DEF Line, InOrder
    <2>2. ASSUME NEW b \in Sides PROVE Ranked(Waiting(S, M, b))
      <3>1. Ranked(Waiting(S, T, b)) /\ IsFiniteSet(Waiting(S, T, b))
        BY <1>0, SideIs DEF Line, InOrder
      <3>2. CASE u.at \in ToRedis /\ Aside(S, u) = b
        <4>1. Waiting(S, M, b) = Waiting(S, T, b) \cup {u}
          BY <3>2 DEF Waiting
        <4>2. u.n = 1 + Cardinality(Waiting(S, T, b))
          BY <3>2
        <4> QED
          BY <3>1, <4>1, <4>2, QueueJoined
      <3>3. CASE ~(u.at \in ToRedis /\ Aside(S, u) = b)
        <4>1. Waiting(S, M, b) = Waiting(S, T, b)
          BY <3>3 DEF Waiting
        <4> QED
          BY <3>1, <4>1
      <3> QED
        BY <3>2, <3>3
    <2> QED
      BY <2>1, <2>2 DEF InOrder
  <1>2. Few(S, M, w)
    <2> SUFFICES ASSUME NEW b \in Sides
                 PROVE  Cardinality(OnSide(S, M, b)) <= Cap(w, b)
      BY DEF Few
    <2> DEFINE Q == OnSide(S, T, b)
    <2>1. IsFiniteSet(Q) /\ Cardinality(Q) \in Nat /\ Cardinality(Q) <= Cap(w, b)
          /\ Cap(w, b) \in Int
      BY <1>0, SideIs, CapIs DEF Line, Few
    <2>2. CASE Aside(S, u) = b
      <3>1. OnSide(S, M, b) = Q \cup {u}
        BY <2>2 DEF OnSide
      <3>2. Cardinality(Q) < Cap(w, b)
        BY <2>2 DEF Place
      <3>3. \/ Cardinality(Q \cup {u}) = Cardinality(Q)
            \/ Cardinality(Q \cup {u}) = Cardinality(Q) + 1
        BY <2>1, FS_AddElement
      <3> HIDE DEF Q, M
      <3>4. Cardinality(Q \cup {u}) <= Cap(w, b)
        BY <2>1, <3>2, <3>3
      <3> QED
        BY <3>1, <3>4
    <2>3. CASE Aside(S, u) # b
      <3>1. OnSide(S, M, b) = Q
        BY <2>3 DEF OnSide
      <3> QED
        BY <2>1, <3>1
    <2> QED
      BY <2>2, <2>3
  <1>3. ThenFits(S, M) /\ Hosted(S, M)
    BY <1>0 DEF Line, ThenFits, Hosted
  <1> QED
    BY <1>0, <1>1, <1>2, <1>3 DEF Line

LEMMA LineDropped ==
    ASSUME NEW S, NEW T \in TaskSet, NEW w, Line(S, T, w),
           NEW t \in T, t.at \notin ToRedis
    PROVE  Place(S, T \ {t}, w, Aside(S, t))
  <1> DEFINE M == T \ {t}
             c == Aside(S, t)
  <1>0. c \in Sides
    BY AsideIs
  <1>1. InOrder(S, M)
    <2>1. ASSUME NEW b \in Sides PROVE Waiting(S, M, b) = Waiting(S, T, b)
      BY DEF Waiting
    <2> QED
      BY <2>1 DEF Line, InOrder
  <1>2. ASSUME NEW b \in Sides
        PROVE  /\ Cardinality(OnSide(S, M, b)) <= Cap(w, b)
               /\ b = c => Cardinality(OnSide(S, M, b)) < Cap(w, b)
    <2> DEFINE Q == OnSide(S, T, b)
    <2>1. IsFiniteSet(Q) /\ Cardinality(Q) \in Nat /\ Cardinality(Q) <= Cap(w, b)
          /\ Cap(w, b) \in Int
      BY SideIs, CapIs DEF Line, Few
    <2>2. OnSide(S, M, b) = Q \ {t} /\ (b = c => t \in Q)
      BY DEF OnSide
    <2>3. Cardinality(Q \ {t}) =
          IF t \in Q THEN Cardinality(Q) - 1 ELSE Cardinality(Q)
      BY <2>1, FS_RemoveElement
    <2> HIDE DEF Q, M, c
    <2> QED
      BY <2>1, <2>2, <2>3
  <1>3. ThenFits(S, M) /\ Hosted(S, M)
    BY DEF Line, ThenFits, Hosted
  <1>4. Line(S, M, w)
    BY <1>1, <1>2, <1>3 DEF Line, Few
  <1> QED
    BY <1>0, <1>2, <1>4 DEF Place

\* The answer of Redis to the first in the queue of its process.
LEMMA LineAnswered ==
    ASSUME Shape, NEW w, Line(sess, tasks, w),
           NEW t \in tasks, t.at \in ToRedis, t.n = 1
    PROVE  Place(sess, Answered(t), w, Aside(sess, t))
  <1> DEFINE c == Aside(sess, t)
             M == Answered(t)
             Q == Waiting(sess, tasks, c)
             moved(u) == IF u \in Q THEN Nearer(u) ELSE u
  <1>0. /\ c \in Sides /\ Q = AtRedis(sess, tasks, InCli(sess[t.s]))
        /\ tasks \in TaskSet /\ tasks \in SUBSET TaskRow /\ M \in TaskSet
    <2>1. tasks \in TaskSet /\ tasks \in SUBSET TaskRow /\ M \in TaskSet
      BY AnsweredTasks DEF Shape, TaskSet
    <2>2. t.s \in Sessions
      BY <2>1 DEF TaskRow, ToRedis, Route
    <2>3. c \in Sides /\ c = SideOf(sess[t.s])
      BY <2>2, AsideIs, Numbers DEF Aside
    <2> QED
      BY <2>1, <2>2, <2>3, QueueOf
  <1>1. M = {moved(u) : u \in tasks \ {t}}
    BY <1>0 DEF Answered, Nearer
  <1>2. Q \in SUBSET TaskRow /\ IsFiniteSet(Q) /\ Ranked(Q) /\ t \in Q
    <2>1. t \in Q
      BY DEF Waiting
    <2> QED
      BY <1>0, <2>1, SideIs DEF Line, InOrder
  <1>3. ASSUME NEW u \in tasks
        PROVE  /\ moved(u).s = u.s /\ moved(u).at = u.at /\ moved(u).then = u.then
               /\ Aside(sess, moved(u)) = Aside(sess, u)
    <2>1. moved(u).s = u.s /\ moved(u).at = u.at /\ moved(u).then = u.then
      BY <1>0, NearerIs
    <2> HIDE DEF moved
    <2> QED
      BY <2>1 DEF Aside
  <1>4. InOrder(sess, M)
    <2>1. ASSUME NEW v \in M, v.at \notin ToRedis PROVE v.n = 0
      <3>1. PICK u \in tasks \ {t} : v = moved(u)
        BY <1>1
      <3>2. u.at \notin ToRedis
        BY <1>3, <2>1, <3>1
      <3>3. u \notin Q
        BY <3>2 DEF Waiting
      <3> QED
        BY <3>1, <3>2, <3>3 DEF Line, InOrder
    <2>2. ASSUME NEW b \in Sides PROVE Ranked(Waiting(sess, M, b))
      <3>0. /\ Waiting(sess, M, b) =
                  {v \in M : v.at \in ToRedis /\ Aside(sess, v) = b}
            /\ Waiting(sess, tasks, b) =
                   {v \in tasks : v.at \in ToRedis /\ Aside(sess, v) = b}
            /\ Q = {v \in tasks : v.at \in ToRedis /\ Aside(sess, v) = c}
        BY DEF Waiting
      <3>1. CASE b = c
        <4>1. Waiting(sess, M, b) = {Nearer(u) : u \in Q \ {t}}
          <5>1. ASSUME NEW v \in Waiting(sess, M, b)
                PROVE  v \in {Nearer(u) : u \in Q \ {t}}
            <6>1. PICK u \in tasks \ {t} : v = moved(u)
              BY <1>1, <3>0
            <6>2. u \in Q
              BY <1>3, <3>0, <3>1, <6>1
            <6> QED
              BY <6>1, <6>2
          <5>2. ASSUME NEW u \in Q \ {t}
                PROVE  Nearer(u) \in Waiting(sess, M, b)
            <6>1. u \in tasks \ {t} /\ moved(u) = Nearer(u) /\ u.at \in ToRedis
                  /\ Aside(sess, u) = b
              BY <3>0, <3>1
            <6> QED
              BY <1>1, <1>3, <3>0, <6>1
          <5> QED
            BY <5>1, <5>2
        <4> QED
          BY <1>2, <4>1, QueueServed
      <3>2. CASE b # c
        <4>1. Waiting(sess, M, b) = Waiting(sess, tasks, b)
          <5>1. \A u \in tasks : Aside(sess, u) = b => u \notin Q /\ u # t
            BY <3>0, <3>2
          <5>2. ASSUME NEW v \in Waiting(sess, M, b)
                PROVE  v \in Waiting(sess, tasks, b)
            <6>1. PICK u \in tasks \ {t} : v = moved(u)
              BY <1>1, <3>0
            <6>2. u \notin Q
              BY <1>3, <3>0, <5>1, <6>1
            <6> QED
              BY <3>0, <6>1, <6>2
          <5>3. ASSUME NEW v \in Waiting(sess, tasks, b)
                PROVE  v \in Waiting(sess, M, b)
            <6>1. v \in tasks \ {t} /\ v \notin Q
              BY <3>0, <5>1
            <6>2. v \in M
              BY <1>1, <6>1
            <6> QED
              BY <3>0, <6>2
          <5> QED
            BY <5>2, <5>3
        <4> QED
          BY <4>1 DEF Line, InOrder
      <3> QED
        BY <3>1, <3>2
    <2> QED
      BY <2>1, <2>2 DEF InOrder
  <1>5. ASSUME NEW b \in Sides
        PROVE  /\ Cardinality(OnSide(sess, M, b)) <= Cap(w, b)
               /\ b = c => Cardinality(OnSide(sess, M, b)) < Cap(w, b)
    <2> DEFINE P == OnSide(sess, tasks, b)
               R == P \ {t}
               N == OnSide(sess, M, b)
               f == [u \in R |-> moved(u)]
    <2>1. IsFiniteSet(P) /\ Cardinality(P) \in Nat /\ Cardinality(P) <= Cap(w, b)
          /\ Cap(w, b) \in Int
      BY <1>0, SideIs, CapIs DEF Line, Few
    <2>6. Cardinality(N) \in Nat
      BY <1>0, SideIs
    <2>2. f \in Surjection(R, N)
      <3>1. ASSUME NEW u \in R PROVE moved(u) \in N
        <4>1. u \in tasks \ {t} /\ Aside(sess, u) = b
          BY DEF OnSide
        <4> QED
          BY <1>1, <1>3, <4>1 DEF OnSide
      <3>2. ASSUME NEW v \in N PROVE \E u \in R : v = moved(u)
        <4>1. v \in M /\ Aside(sess, v) = b
          BY DEF OnSide
        <4>2. PICK u \in tasks \ {t} : v = moved(u)
          BY <1>1, <4>1
        <4>3. u \in R
          BY <1>3, <4>1, <4>2 DEF OnSide
        <4> QED
          BY <4>2, <4>3
      <3> HIDE DEF moved, R, N
      <3> QED
        BY <3>1, <3>2 DEF Surjection
    <2>3. b = c => t \in P
      BY DEF OnSide
    <2>4. /\ IsFiniteSet(R)
          /\ Cardinality(R) = IF t \in P THEN Cardinality(P) - 1 ELSE Cardinality(P)
      BY <2>1, FS_RemoveElement
    <2> HIDE DEF f, R, P, N, c, M, moved
    <2>5. Cardinality(N) <= Cardinality(R)
      BY <2>2, <2>4, FS_Surjection
    <2> QED
      BY <2>1, <2>3, <2>4, <2>5, <2>6 DEF N
  <1>6. ThenFits(sess, M) /\ Hosted(sess, M)
    <2> SUFFICES ASSUME NEW v \in M
                 PROVE  /\ v.at = "release" /\ v.then \in Managerial
                               => sess[v.s].host # "cli"
                        /\ v.s # Nobody => sess[v.s].host # "none"
      BY DEF ThenFits, Hosted
    <2>1. PICK u \in tasks \ {t} : v = moved(u)
      BY <1>1
    <2>2. v.s = u.s /\ v.at = u.at /\ v.then = u.then
      BY <1>3, <2>1
    <2> QED
      BY <2>2 DEF Line, ThenFits, Hosted
  <1>7. Line(sess, M, w)
    BY <1>4, <1>5, <1>6 DEF Line, Few
  <1> QED
    BY <1>0, <1>5, <1>7 DEF Place

LEMMA LineRoom ==
    ASSUME Shape, NEW w, Line(sess, tasks, w), Room, NEW b \in Sides,
           w # "down" \/ b = "cli"
    PROVE  Place(sess, tasks, w, b)
  <1>1. /\ tasks \in TaskSet /\ IsFiniteSet(tasks)
        /\ OnSide(sess, tasks, b) \in SUBSET tasks
    BY DEF Shape, TaskSet, OnSide
  <1>2. Cardinality(OnSide(sess, tasks, b)) <= Cardinality(tasks)
        /\ Cardinality(OnSide(sess, tasks, b)) \in Nat /\ Cardinality(tasks) \in Nat
    BY <1>1, FS_Subset, SideIs, FS_CardinalityType
  <1>3. Cardinality(tasks) < MaxTasks /\ MaxTasks <= Cap(w, b)
        /\ Cap(w, b) \in Int /\ MaxTasks \in Int
    BY CapIs, FleetAssumption DEF Room
  <1> QED
    BY <1>2, <1>3 DEF Place

LEMMA PlainJoined ==
    ASSUME NEW S, NEW T \in TaskSet, NEW w, NEW s \in Sessions,
           NEW at \in Steps \ Route, at \notin ToRedis, NEW then \in Continuations,
           Place(S, T, w, SideOf(S[s])), S[s].host # "none"
    PROVE  Line(S, T \cup {Task(s, at, then)}, w)
  <1> DEFINE u == Task(s, at, then)
  <1>1. u \in TaskRow /\ u.s = s /\ u.at = at /\ u.n = 0
    BY OneTask DEF Task
  <1> HIDE DEF u
  <1>2. Aside(S, u) = SideOf(S[s])
    BY <1>1, Numbers DEF Aside
  <1>3. u.at \notin ToRedis /\ u.at # "release"
    BY <1>1 DEF ToRedis
  <1>4. Line(S, T \cup {u}, w)
    BY <1>1, <1>2, <1>3, LineJoined
  <1> QED
    BY <1>4 DEF u

LEMMA RouteJoined ==
    ASSUME NEW S, NEW T \in TaskSet, NEW w, NEW at \in Route,
           NEW then \in Continuations, Place(S, T, w, "worker")
    PROVE  Line(S, T \cup {Task(Nobody, at, then)}, w)
  <1> DEFINE u == Task(Nobody, at, then)
  <1>1. u \in TaskRow /\ u.s = Nobody /\ u.at = at /\ u.n = 0
    BY OneRouteTask DEF Task
  <1> HIDE DEF u
  <1>2. Aside(S, u) = "worker"
    BY <1>1 DEF Aside
  <1>3. u.at \notin ToRedis /\ u.at # "release"
    BY <1>1 DEF ToRedis, Route
  <1>4. Line(S, T \cup {u}, w)
    BY <1>1, <1>2, <1>3, LineJoined
  <1> QED
    BY <1>4 DEF u

LEMMA RedisJoined ==
    ASSUME NEW S, NEW T \in TaskSet, NEW w, NEW s \in Sessions,
           NEW at \in ToRedis, NEW then \in Continuations,
           Place(S, T, w, SideOf(S[s])), S[s].host # "none",
           at = "release" /\ then \in Managerial => S[s].host # "cli"
    PROVE  Line(S, T \cup {RedisTask(S, T, s, at, then)}, w)
  <1> DEFINE u == RedisTask(S, T, s, at, then)
  <1>0. at = "acquire" \/ at = "release"
    BY DEF ToRedis
  <1>1. u \in TaskRow /\ u.s = s /\ u.at = at /\ u.then = then
    <2>1. {u} \in TaskSet /\ u \in TaskRow /\ u.s = s /\ u.at = at /\ u.then = then
      BY <1>0, OneRedisTask
    <2> QED
      BY <2>1
  <1>2. u.n = 1 + Cardinality(AtRedis(S, T, InCli(S[s])))
    BY DEF RedisTask, Task
  <1> HIDE DEF u
  <1>3. Aside(S, u) = SideOf(S[s])
    BY <1>1, Numbers DEF Aside
  <1>4. u.n = 1 + Cardinality(Waiting(S, T, Aside(S, u)))
    BY <1>2, <1>3, QueueOf
  <1>5. Line(S, T \cup {u}, w)
    BY <1>1, <1>3, <1>4, LineJoined
  <1> QED
    BY <1>5 DEF u

LEMMA StartJoined ==
    ASSUME NEW S, NEW T \in TaskSet, NEW w, NEW s \in Sessions,
           NEW then \in Continuations,
           Place(S, T, w, SideOf(S[s])), S[s].host # "none"
    PROVE  Line(S, T \cup {StartTask(S, T, s, then)}, w)
  <1>1. /\ "files" \in Steps \ Route /\ "files" \notin ToRedis
        /\ "acquire" \in ToRedis
    BY DEF Steps, Starting, Route, ToRedis
  <1>2. CASE S[s].owns
    <2>1. StartTask(S, T, s, then) = Task(s, "files", then)
      BY <1>2 DEF StartTask
    <2>2. Line(S, T \cup {Task(s, "files", then)}, w)
      BY <1>1, PlainJoined
    <2> QED
      BY <2>1, <2>2
  <1>3. CASE ~S[s].owns
    <2>1. StartTask(S, T, s, then) = RedisTask(S, T, s, "acquire", then)
      BY <1>3 DEF StartTask
    <2>2. Line(S, T \cup {RedisTask(S, T, s, "acquire", then)}, w)
      BY <1>1, RedisJoined
    <2> QED
      BY <2>1, <2>2
  <1> QED
    BY <1>2, <1>3

LEMMA ScheduleLine ==
    ASSUME NEW S \in SessionMap, NEW T \in TaskSet, NEW w, NEW s \in Sessions,
           Schedule(s, S, T), Place(S, T, w, SideOf(S[s])), S[s].host # "none"
    PROVE  Line(sess', tasks', w) /\ \A o \in Sessions : sess'[o].host = S[o].host
  <1>1. {"lastWrite", "reconWrite"} \subseteq (Steps \ Route) \ ToRedis
        /\ "none" \in Continuations
    BY DEF Steps, Starting, Reconnecting, Route, Continuations, ToRedis
  <1>2. CASE S[s].attempts >= MaxAttempts
    <2>1. sess' = S /\ tasks' = T \cup {Task(s, "lastWrite", "none")}
      BY <1>2 DEF Schedule
    <2>2. Line(S, T \cup {Task(s, "lastWrite", "none")}, w)
      BY <1>1, PlainJoined
    <2> QED
      BY <2>1, <2>2
  <1>3. CASE ~(S[s].attempts >= MaxAttempts)
    <2> DEFINE r == [S[s] EXCEPT !.attempts = @ + 1]
               N == [S EXCEPT ![s] = r]
    <2>1. r.host = S[s].host
      BY DEF SessionMap, SessionRecord
    <2>2. sess' = N /\ tasks' = T \cup {Task(s, "reconWrite", "none")}
      BY <1>3 DEF Schedule
    <2> HIDE DEF r
    <2>6. N[s] = r /\ \A o \in Sessions \ {s} : N[o] = S[o]
      BY DEF SessionMap
    <2> HIDE DEF N
    <2>3. /\ \A b \in Sides : Place(S, T, w, b) => Place(N, T, w, b)
          /\ \A o \in Sessions : N[o].host = S[o].host
          /\ SideOf(N[s]) = SideOf(S[s]) /\ SideOf(S[s]) \in Sides
      BY <2>1, <2>6, LineRecord DEF Place
    <2>4. /\ SideOf(N[s]) = SideOf(S[s]) /\ N[s].host # "none"
          /\ SideOf(S[s]) \in Sides
      BY <2>3
    <2>5. Line(N, T \cup {Task(s, "reconWrite", "none")}, w)
      BY <1>1, <2>3, <2>4, PlainJoined
    <2> QED
      BY <2>2, <2>3, <2>5
  <1> QED
    BY <1>2, <1>3

LEMMA KeptLine ==
    ASSUME NEW S \in SessionMap, NEW T \in TaskSet, NEW B, NEW entry, NEW w,
           Line(S, T, w)
    PROVE  LET K == Kept(S, T, B, entry) IN
           /\ Line(K, T, w)
           /\ \A b \in Sides : Place(S, T, w, b) => Place(K, T, w, b)
           /\ ByManager(S, entry) /\ entry \in Sessions \cup {Nobody}
                  => ByManager(K, entry)
  <1> DEFINE K == Kept(S, T, B, entry)
  <1>1. ASSUME NEW o \in Sessions
        PROVE  \/ K[o] = S[o]
               \/ /\ K[o] = Blank("none") /\ o # entry /\ \A t \in T : t.s # o
    BY KeptIs
  <1>2. Blank("none").host = "none"
    BY BlankRecord
  <1> HIDE DEF K
  <1>3. /\ \A t \in T : t.s # Nobody => K[t.s].host = S[t.s].host
        /\ \A t \in T : t.at \in ToRedis => t.s # Nobody
    BY <1>1 DEF TaskSet, TaskRow, ToRedis, Route
  <1>4. Inert(K)
    BY <1>1 DEF Line, Inert
  <1>5. OffDuty(K, w)
    BY <1>1, <1>2 DEF Line, OffDuty
  <1>6. /\ Line(K, T, w)
        /\ \A b \in Sides : Place(S, T, w, b) => Place(K, T, w, b)
    BY <1>3, <1>4, <1>5, LineFrame
  <1>7. ByManager(S, entry) /\ entry \in Sessions \cup {Nobody}
           => ByManager(K, entry)
    BY <1>1 DEF ByManager
  <1> QED
    BY <1>6, <1>7 DEF K

LEMMA OpenedLine ==
    ASSUME NEW host \in Hosts, NEW then \in Continuations,
           NEW S \in SessionMap, NEW T \in TaskSet, NEW w, Opened(host, then, S, T),
           Place(S, T, w, IF host = "cli" THEN "cli" ELSE "worker")
    PROVE  /\ Line(sess', tasks', w) /\ NewId(S, T) \in Sessions
           /\ sess'[NewId(S, T)].host = host /\ NewId(S, T) # mapped
           /\ \A o \in Sessions \ {NewId(S, T)} : sess'[o] = S[o]
  <1> DEFINE n == NewId(S, T)
             R == Blank(host)
             N == [S EXCEPT ![n] = R]
             c == IF host = "cli" THEN "cli" ELSE "worker"
  <1>1. n \in Sessions /\ n \in Fresh(S, T)
    BY OpenedShape
  <1>2. sess' = N /\ tasks' = T \cup {StartTask(N, T, n, then)}
    BY DEF Opened
  <1>3. R \in SessionRecord /\ R.host = host
    BY BlankRecord DEF Hosts
  <1>4. n # mapped /\ \A t \in T : t.s # n
    BY <1>1 DEF Fresh, Unreferenced
  <1> HIDE DEF n, R
  <1>5. N \in SessionMap /\ N[n] = R /\ \A o \in Sessions \ {n} : N[o] = S[o]
    BY <1>1, <1>3, Replaced
  <1> HIDE DEF N
  <1>6. /\ \A t \in T : t.s # Nobody => N[t.s].host = S[t.s].host
        /\ \A t \in T : t.at \in ToRedis => t.s # Nobody
    BY <1>4, <1>5 DEF TaskSet, TaskRow, ToRedis, Route
  <1>7. Inert(N)
    BY <1>3, <1>5 DEF Place, Line, Inert, Hosts
  <1>8. c \in Sides
    BY DEF Sides
  <1>9. OffDuty(N, w)
    <2>1. w = "down" => host = "cli"
      <3>1. Cardinality(OnSide(S, T, c)) \in Nat
        BY <1>8, SideIs
      <3> QED
        BY <3>1, CapIs DEF Place, Sides
    <2> QED
      BY <1>3, <1>5, <2>1 DEF Place, Line, OffDuty
  <1>10. Place(N, T, w, c)
    BY <1>6, <1>7, <1>8, <1>9, LineFrame DEF Place
  <1>11. SideOf(N[n]) = c /\ N[n].host # "none"
    BY <1>3, <1>5 DEF SideOf, InCli, Hosts
  <1>12. Line(N, T \cup {StartTask(N, T, n, then)}, w)
    BY <1>1, <1>10, <1>11, StartJoined
  <1> QED
    BY <1>1, <1>2, <1>3, <1>4, <1>5, <1>12 DEF n

\* A process that ends takes its side away.
LEMMA ProcessGoneLine ==
    ASSUME NEW inCli \in BOOLEAN, NEW S \in SessionMap, NEW T \in TaskSet, NEW B,
           ProcessGone(inCli, S, T, B), Line(S, T, worker), ByManager(S, mapped),
           mapped \in Sessions \cup {Nobody}
    PROVE  LineInv'
  <1> DEFINE Its(o) == S[o].host # "none" /\ InCli(S[o]) = inCli
             gone == IF inCli THEN "cli" ELSE "worker"
             N == Blank("none")
  <1>1. /\ \A o \in Sessions : sess'[o] = IF Its(o) THEN N ELSE S[o]
        /\ tasks' = {t \in T : IF t.s = Nobody THEN inCli ELSE ~Its(t.s)}
        /\ mapped' = IF inCli THEN mapped ELSE Nobody
        /\ worker' = IF inCli THEN worker ELSE "down"
    BY DEF ProcessGone
  <1>2. N.host = "none"
    BY BlankRecord
  <1> HIDE DEF N
  <1>3. T \in SUBSET TaskRow /\ tasks' \in TaskSet /\ gone \in Sides
    <2>1. tasks' \in SUBSET T
      BY <1>1
    <2> QED
      BY <2>1, TasksDropped DEF TaskSet, Sides
  <1>4. ASSUME NEW t \in T
        PROVE  t \in tasks' <=> Aside(S, t) # gone
    <2>1. t.s # Nobody => S[t.s].host # "none"
      BY DEF Line, Hosted
    <2> QED
      BY <1>1, <2>1 DEF Aside, SideOf, InCli
  <1>5. ASSUME NEW t \in tasks'
        PROVE  /\ t \in T /\ Aside(sess', t) = Aside(S, t) /\ Aside(S, t) # gone
               /\ t.s # Nobody => sess'[t.s] = S[t.s]
    <2>1. t \in T /\ Aside(S, t) # gone
      BY <1>1, <1>4
    <2>2. t.s # Nobody => sess'[t.s] = S[t.s]
      BY <1>1, <1>3, <2>1 DEF TaskRow
    <2> QED
      BY <2>1, <2>2 DEF Aside
  <1> HIDE DEF gone
  <1>6. ASSUME NEW b \in Sides
        PROVE  /\ b = gone => OnSide(sess', tasks', b) = {}
               /\ b # gone => /\ OnSide(sess', tasks', b) = OnSide(S, T, b)
                              /\ Waiting(sess', tasks', b) = Waiting(S, T, b)
               /\ b = gone => Waiting(sess', tasks', b) = {}
    <2>1. b = gone => OnSide(sess', tasks', b) = {}
                      /\ Waiting(sess', tasks', b) = {}
      BY <1>5 DEF OnSide, Waiting
    <2>2. b # gone => /\ OnSide(sess', tasks', b) = OnSide(S, T, b)
                      /\ Waiting(sess', tasks', b) = Waiting(S, T, b)
      BY <1>4, <1>5 DEF OnSide, Waiting
    <2> QED
      BY <2>1, <2>2
  <1>7. InOrder(sess', tasks')
    <2>1. \A t \in tasks' : t.at \notin ToRedis => t.n = 0
      BY <1>5 DEF Line, InOrder
    <2>2. ASSUME NEW b \in Sides PROVE Ranked(Waiting(sess', tasks', b))
      <3>1. Ranked(Waiting(S, T, b))
        BY DEF Line, InOrder
      <3>2. Ranked({})
        BY DEF Ranked
      <3> QED
        BY <1>6, <3>1, <3>2
    <2> QED
      BY <2>1, <2>2 DEF InOrder
  <1>8. Few(sess', tasks', worker')
    <2> SUFFICES ASSUME NEW b \in Sides
                 PROVE  Cardinality(OnSide(sess', tasks', b)) <= Cap(worker', b)
      BY DEF Few
    <2>1. CASE b = gone
      <3>1. Cardinality(OnSide(sess', tasks', b)) = 0
        BY <1>6, <2>1, FS_EmptySet
      <3> QED
        BY <3>1, CapIs
    <2>2. CASE b # gone
      <3>1. Cap(worker', b) = Cap(worker, b)
        BY <1>1, <2>2 DEF gone, Cap, Sides
      <3> QED
        BY <1>6, <2>2, <3>1 DEF Line, Few
    <2> QED
      BY <2>1, <2>2
  <1>9. ThenFits(sess', tasks') /\ Hosted(sess', tasks')
    BY <1>3, <1>5 DEF Line, ThenFits, Hosted, TaskRow, Route
  <1>10. Inert(sess')
    BY <1>1 DEF Line, Inert, N
  <1>11. OffDuty(sess', worker')
    <2> SUFFICES ASSUME worker' = "down", NEW o \in Sessions
                 PROVE  sess'[o].host \in {"none", "cli"}
      BY DEF OffDuty
    <2>1. CASE inCli
      BY <1>1, <1>2, <2>1 DEF Line, OffDuty
    <2>2. CASE ~inCli
      BY <1>1, <1>2, <2>2 DEF InCli
    <2> QED
      BY <2>1, <2>2
  <1>12. ByManager(sess', mapped')
    BY <1>1 DEF ByManager, InCli
  <1> QED
    BY <1>7, <1>8, <1>9, <1>10, <1>11, <1>12 DEF LineInv, Line

LEMMA AfterLine ==
    ASSUME NEW s, NEW then \in Continuations,
           NEW S \in SessionMap, NEW T \in TaskSet, NEW B,
           After(s, then, S, T, B), Line(S, T, worker), ByManager(S, mapped),
           mapped \in Sessions \cup {Nobody},
           then \in Managerial => Place(S, T, worker, "worker")
    PROVE  LineInv'
  <1> DEFINE K == Kept(S, T, B, Nobody)
  <1>0. /\ K \in SessionMap /\ Line(K, T, worker)
        /\ then \in Managerial => Place(K, T, worker, "worker")
    BY KeptShape, KeptLine DEF Sides
  <1>1. CASE /\ sess' = Kept(S, T, B, mapped) /\ tasks' = T
             /\ UNCHANGED <<mapped, worker>>
    BY <1>1, KeptLine DEF LineInv
  <1>2. CASE sess' = K /\ tasks' = T /\ mapped' = Nobody /\ UNCHANGED worker
    BY <1>0, <1>2 DEF LineInv, ByManager
  <1>3. CASE then = "respawn" /\ Spawned("spawn", K, T) /\ UNCHANGED worker
    <2> HIDE DEF K
    <2>1. /\ Opened("managed", "spawn", K, T) /\ mapped' = NewId(K, T)
          /\ "spawn" \in Continuations /\ "managed" \in Hosts
          /\ Place(K, T, worker, IF "managed" = "cli" THEN "cli" ELSE "worker")
      BY <1>0, <1>3 DEF Spawned, Continuations, Hosts, Managerial
    <2>2. Line(sess', tasks', worker) /\ sess'[NewId(K, T)].host = "managed"
      BY <1>0, <2>1, OpenedLine
    <2> QED
      BY <1>3, <2>1, <2>2 DEF LineInv, ByManager
  <1>4. CASE /\ then = "repair" /\ Opened("qr", "qr", K, T)
             /\ mapped' = Nobody /\ UNCHANGED worker
    <2> HIDE DEF K
    <2>1. /\ "qr" \in Continuations /\ "qr" \in Hosts
          /\ Place(K, T, worker, IF "qr" = "cli" THEN "cli" ELSE "worker")
      BY <1>0, <1>4 DEF Continuations, Hosts, Managerial
    <2>2. Line(sess', tasks', worker)
      BY <1>0, <1>4, <2>1, OpenedLine
    <2> QED
      BY <1>4, <2>2 DEF LineInv, ByManager
  <1>5. CASE /\ then = "remove" /\ sess' = K
             /\ tasks' = T \cup {Task(Nobody, "delete", "none")}
             /\ mapped' = Nobody /\ UNCHANGED worker
    <2> HIDE DEF K
    <2>1. "delete" \in Route /\ "none" \in Continuations
          /\ Place(K, T, worker, "worker")
      BY <1>0, <1>5 DEF Route, Continuations, Managerial
    <2>2. Line(K, T \cup {Task(Nobody, "delete", "none")}, worker)
      BY <2>1, RouteJoined
    <2> QED
      BY <1>5, <2>2 DEF LineInv, ByManager
  <1>6. ASSUME NEW inCli \in BOOLEAN, ProcessGone(inCli, S, T, B)
        PROVE  LineInv'
    BY <1>6, ProcessGoneLine
  <1>7. InCli(S[s]) \in BOOLEAN
    BY DEF InCli
  <1> QED
    BY <1>1, <1>2, <1>3, <1>4, <1>5, <1>6, <1>7 DEF After, processes

LEMMA EndedLine ==
    ASSUME NEW S \in SessionMap, NEW T \in TaskSet, NEW w, Line(S, T, w),
           NEW s \in Sessions, S[s].host # "none"
    PROVE  /\ Line(Ended(S, s), T, w)
           /\ \A b \in Sides : Place(S, T, w, b) => Place(Ended(S, s), T, w, b)
           /\ \A o \in Sessions : Ended(S, s)[o].host = S[o].host
           /\ \A m \in Sessions \cup {Nobody} :
                 ByManager(S, m) => ByManager(Ended(S, s), m)
  <1> DEFINE c == [i \in Slots |-> IF i = S[s].sock THEN "none" ELSE S[s].conn[i]]
             r == [S[s] EXCEPT !.stopped = TRUE, !.timer = FALSE, !.sock = 0,
                               !.conn = c]
             E == [S EXCEPT ![s] = r]
  <1>1. Ended(S, s) = E
    BY DEF Ended
  <1>2. r.host = S[s].host
    BY DEF SessionMap, SessionRecord
  <1> HIDE DEF r
  <1>3. E[s] = r /\ \A o \in Sessions \ {s} : E[o] = S[o]
    BY DEF SessionMap
  <1> HIDE DEF E
  <1>4. /\ Line(E, T, w)
        /\ \A b \in Sides : Place(S, T, w, b) => Place(E, T, w, b)
        /\ \A o \in Sessions : E[o].host = S[o].host
        /\ \A m \in Sessions \cup {Nobody} : ByManager(S, m) => ByManager(E, m)
    BY <1>2, <1>3, LineRecord
  <1> QED
    BY <1>1, <1>4

LEMMA StopThenLine ==
    ASSUME NEW s \in Sessions, NEW then \in Continuations,
           NEW S \in SessionMap, NEW T \in TaskSet, StopThen(s, then, S, T),
           Place(S, T, worker, SideOf(S[s])), S[s].host # "none",
           then \in Managerial => S[s].host # "cli",
           ByManager(S, mapped), mapped \in Sessions \cup {Nobody}
    PROVE  LineInv'
  <1> DEFINE E == Ended(S, s)
  <1>0. Line(S, T, worker) /\ SideOf(S[s]) \in Sides
    BY DEF Place, SideOf, Sides
  <1>1. /\ Line(E, T, worker) /\ Place(E, T, worker, SideOf(S[s]))
        /\ \A o \in Sessions : E[o].host = S[o].host
        /\ ByManager(E, mapped) /\ E \in SessionMap
    BY <1>0, EndedLine, EndedShape
  <1>2. /\ SideOf(E[s]) = SideOf(S[s])
        /\ then \in Managerial => SideOf(S[s]) = "worker"
    BY <1>1 DEF SideOf, InCli
  <1>3. CASE S[s].owns
    <2> DEFINE u == RedisTask(S, T, s, "release", then)
    <2>1. sess' = E /\ tasks' = T \cup {u} /\ UNCHANGED <<mapped, worker>>
      BY <1>3 DEF StopThen, processes
    <2>2. u = RedisTask(E, T, s, "release", then)
      <3>1. InCli(E[s]) = InCli(S[s])
        BY <1>1 DEF InCli
      <3>2. \A t \in T : t.at \in ToRedis => t.s \in Sessions
        BY DEF TaskSet, TaskRow, ToRedis, Route
      <3>3. \A t \in T : t.at \in ToRedis => InCli(E[t.s]) = InCli(S[t.s])
        BY <1>1, <3>2 DEF InCli
      <3>4. AtRedis(E, T, InCli(E[s])) = AtRedis(S, T, InCli(S[s]))
        BY <3>1, <3>3 DEF AtRedis, ToRedis
      <3> QED
        BY <3>4 DEF RedisTask
    <2> HIDE DEF u, E
    <2>3. Line(E, T \cup {u}, worker)
      BY <1>1, <1>2, <2>2, RedisJoined DEF ToRedis
    <2> QED
      BY <1>1, <2>1, <2>3 DEF LineInv
  <1>4. CASE ~S[s].owns
    <2>1. After(s, then, E, T, beats)
      BY <1>4 DEF StopThen
    <2> HIDE DEF E
    <2> QED
      BY <1>1, <1>2, <2>1, AfterLine
  <1> QED
    BY <1>3, <1>4

LEMMA ManagerSpawnLine ==
    ASSUME Shape, NEW T \in TaskSet, ManagerSpawn(T), UNCHANGED worker,
           Place(sess, T, worker, "worker"), ByManager(sess, mapped)
    PROVE  LineInv'
  <1>1. CASE mapped # Nobody
    BY <1>1 DEF ManagerSpawn, LineInv, Place
  <1>2. CASE mapped = Nobody
    <2>1. /\ Opened("managed", "spawn", sess, T) /\ mapped' = NewId(sess, T)
          /\ "spawn" \in Continuations /\ "managed" \in Hosts
          /\ Place(sess, T, worker, IF "managed" = "cli" THEN "cli" ELSE "worker")
      BY <1>2 DEF ManagerSpawn, Spawned, Continuations, Hosts
    <2>2. sess \in SessionMap
      BY DEF Shape
    <2>3. Line(sess', tasks', worker) /\ sess'[NewId(sess, T)].host = "managed"
      BY <2>1, <2>2, OpenedLine
    <2> QED
      BY <2>1, <2>3 DEF LineInv, ByManager
  <1> QED
    BY <1>1, <1>2

LEMMA MappedSide ==
    ASSUME NEW S, NEW m, ByManager(S, m), m # Nobody
    PROVE  S[m].host # "none" /\ S[m].host # "cli" /\ SideOf(S[m]) = "worker"
  BY DEF ByManager, SideOf, InCli

LEMMA ManagerStopLine ==
    ASSUME Shape, NEW then \in Continuations, NEW T \in TaskSet,
           ManagerStop(then, T),
           Place(sess, T, worker, "worker"), ByManager(sess, mapped)
    PROVE  LineInv'
  <1>0. sess \in SessionMap /\ mapped \in Sessions \cup {Nobody}
        /\ Line(sess, T, worker)
    BY DEF Shape, Place
  <1>1. CASE mapped # Nobody
    <2>1. StopThen(mapped, then, sess, T) /\ mapped \in Sessions
      BY <1>0, <1>1 DEF ManagerStop
    <2>2. /\ sess[mapped].host # "none" /\ sess[mapped].host # "cli"
          /\ SideOf(sess[mapped]) = "worker"
      BY <1>1, MappedSide
    <2> QED
      BY <1>0, <2>1, <2>2, StopThenLine
  <1>2. CASE mapped = Nobody /\ then = "exit"
    <2>1. ProcessGone(FALSE, sess, T, beats)
      BY <1>2 DEF ManagerStop
    <2> QED
      BY <1>0, <2>1, ProcessGoneLine
  <1>3. CASE mapped = Nobody /\ then # "exit"
    <2>1. After(Nobody, then, sess, T, beats)
      BY <1>3 DEF ManagerStop
    <2> QED
      BY <1>0, <2>1, AfterLine
  <1> QED
    BY <1>1, <1>2, <1>3

-----------------------------------------------------------------------------
(* The steps *)

\* A handler of a session goes on: its place in its process is free.
LEMMA HandlerPlace ==
    ASSUME Shape, LineInv, NEW t \in tasks
    PROVE  /\ t \in TaskRow /\ tasks \ {t} \in TaskSet /\ sess \in SessionMap
           /\ mapped \in Sessions \cup {Nobody}
           /\ Line(sess, tasks, worker) /\ ByManager(sess, mapped)
           /\ t.at \notin ToRedis =>
                 Place(sess, tasks \ {t}, worker, Aside(sess, t))
           /\ t.at \notin Route =>
                 /\ t.s \in Sessions /\ sess[t.s] \in SessionRecord
                 /\ Aside(sess, t) = SideOf(sess[t.s])
                 /\ sess[t.s].host # "none"
           /\ t.s = Nobody => Aside(sess, t) = "worker"
  <1>1. /\ tasks \in TaskSet /\ sess \in SessionMap
        /\ mapped \in Sessions \cup {Nobody}
    BY DEF Shape
  <1>2. /\ t \in TaskRow /\ tasks \ {t} \in TaskSet
        /\ t.at \notin Route => t.s \in Sessions
    BY TaskFacts
  <1>3. Line(sess, tasks, worker) /\ ByManager(sess, mapped)
    BY DEF LineInv
  <1>4. t.at \notin ToRedis => Place(sess, tasks \ {t}, worker, Aside(sess, t))
    BY <1>1, <1>3, LineDropped
  <1>5. t.at \notin Route =>
           /\ t.s \in Sessions /\ sess[t.s] \in SessionRecord
           /\ Aside(sess, t) = SideOf(sess[t.s]) /\ sess[t.s].host # "none"
    BY <1>1, <1>2, <1>3, Numbers DEF Line, Hosted, Aside, SessionMap
  <1>6. t.s = Nobody => Aside(sess, t) = "worker"
    BY DEF Aside
  <1> QED
    BY <1>1, <1>2, <1>3, <1>4, <1>5, <1>6

\* It ends, or goes on to another await.
LEMMA GoesOn ==
    ASSUME NEW S \in SessionMap, NEW T \in TaskSet, NEW s \in Sessions, NEW M,
           Place(S, T, worker, SideOf(S[s])), S[s].host # "none",
           ByManager(S, mapped),
           \/ M = {}
           \/ \E at \in (Steps \ Route) \ ToRedis, then \in Continuations :
                 M = {Task(s, at, then)},
           sess' = S, tasks' = T \cup M, UNCHANGED <<mapped, worker>>
    PROVE  LineInv'
  <1>1. CASE M = {}
    BY <1>1 DEF LineInv, Place
  <1>2. ASSUME NEW at \in (Steps \ Route) \ ToRedis, NEW then \in Continuations,
               M = {Task(s, at, then)}
        PROVE  LineInv'
    <2>1. Line(S, T \cup {Task(s, at, then)}, worker)
      BY PlainJoined
    <2> QED
      BY <1>2, <2>1 DEF LineInv
  <1> QED
    BY <1>1, <1>2

\* A session at work changes and keeps its host.
LEMMA PlaceRecord ==
    ASSUME NEW S, NEW N, NEW T \in TaskSet, NEW s \in Sessions,
           Place(S, T, worker, SideOf(S[s])), S[s].host # "none",
           ByManager(S, mapped), mapped \in Sessions \cup {Nobody},
           N[s].host = S[s].host, \A o \in Sessions \ {s} : N[o] = S[o]
    PROVE  /\ Place(N, T, worker, SideOf(N[s])) /\ N[s].host # "none"
           /\ ByManager(N, mapped) /\ SideOf(N[s]) = SideOf(S[s])
           /\ Line(N, T, worker)
  <1>1. Line(S, T, worker)
    BY DEF Place
  <1> QED
    BY <1>1, LineRecord

LEMMA RecordSet ==
    ASSUME NEW S \in SessionMap, NEW s \in Sessions, NEW r \in SessionRecord,
           r.host = S[s].host
    PROVE  LET N == [S EXCEPT ![s] = r] IN
           /\ N[s].host = S[s].host /\ N \in SessionMap
           /\ \A o \in Sessions \ {s} : N[o] = S[o]
  BY Replaced

LEMMA OwnsSet ==
    ASSUME NEW S \in SessionMap, NEW s \in Sessions, NEW b \in BOOLEAN
    PROVE  LET N == [S EXCEPT ![s].owns = b] IN
           /\ N[s].host = S[s].host /\ N \in SessionMap
           /\ \A o \in Sessions \ {s} : N[o] = S[o]
  <1> DEFINE r == [S[s] EXCEPT !.owns = b]
  <1>1. S[s] \in SessionRecord
    BY DEF SessionMap
  <1>2. r \in SessionRecord /\ r.host = S[s].host
    BY <1>1, BitSet DEF SessionRecord
  <1>3. [S EXCEPT ![s].owns = b] = [S EXCEPT ![s] = r]
    OBVIOUS
  <1> HIDE DEF r
  <1> QED
    BY <1>2, <1>3, RecordSet

LEMMA StoppedSet ==
    ASSUME NEW S \in SessionMap, NEW s \in Sessions
    PROVE  LET N == [S EXCEPT ![s].stopped = TRUE] IN
           /\ N[s].host = S[s].host /\ N \in SessionMap
           /\ \A o \in Sessions \ {s} : N[o] = S[o]
  <1> DEFINE r == [S[s] EXCEPT !.stopped = TRUE]
  <1>1. S[s] \in SessionRecord
    BY DEF SessionMap
  <1>2. r \in SessionRecord /\ r.host = S[s].host
    BY <1>1, BitSet DEF SessionRecord
  <1>3. [S EXCEPT ![s].stopped = TRUE] = [S EXCEPT ![s] = r]
    OBVIOUS
  <1> HIDE DEF r
  <1> QED
    BY <1>2, <1>3, RecordSet

LEMMA LineOfAcquire ==
    ASSUME Shape, LineInv, NEW t \in tasks, Acquire(t)
    PROVE  LineInv'
  <1> DEFINE s == t.s
             T == Answered(t)
             refused == [sess EXCEPT ![s].owns = FALSE]
             granted == [sess EXCEPT ![s].owns = TRUE]
             wiped == [refused EXCEPT ![s].stopped = TRUE]
  <1>0. /\ t.at = "acquire" /\ t.n = 1 /\ t.at \in ToRedis /\ t.at \notin Route
        /\ t.then \in Continuations /\ T \in TaskSet
    BY TaskFacts, AnsweredTasks DEF Acquire, ToRedis, Route
  <1>1. /\ s \in Sessions /\ sess \in SessionMap /\ sess[s] \in SessionRecord
        /\ mapped \in Sessions \cup {Nobody} /\ sess[s].host # "none"
        /\ ByManager(sess, mapped) /\ Place(sess, T, worker, SideOf(sess[s]))
    BY <1>0, HandlerPlace, LineAnswered
  <1>2. /\ granted[s].host = sess[s].host /\ refused[s].host = sess[s].host
        /\ \A o \in Sessions \ {s} : granted[o] = sess[o] /\ refused[o] = sess[o]
        /\ refused \in SessionMap /\ granted \in SessionMap
    <2> HIDE DEF s, T
    <2>1. /\ granted[s].host = sess[s].host /\ granted \in SessionMap
          /\ \A o \in Sessions \ {s} : granted[o] = sess[o]
      <3>1. TRUE \in BOOLEAN
        OBVIOUS
      <3> QED
        BY <1>1, <3>1, OwnsSet
    <2>2. /\ refused[s].host = sess[s].host /\ refused \in SessionMap
          /\ \A o \in Sessions \ {s} : refused[o] = sess[o]
      <3>1. FALSE \in BOOLEAN
        OBVIOUS
      <3> QED
        BY <1>1, <3>1, OwnsSet
    <2> HIDE DEF granted, refused
    <2> QED
      BY <2>1, <2>2
  <1>3. /\ wiped[s].host = sess[s].host /\ wiped \in SessionMap
        /\ \A o \in Sessions \ {s} : wiped[o] = sess[o]
    <2> HIDE DEF refused, s
    <2> QED
      BY <1>1, <1>2, StoppedSet
  <1> HIDE DEF refused, granted, wiped, T, s
  <1>4. \/ /\ sess' = granted /\ tasks' = T \cup {Task(s, "files", t.then)}
           /\ UNCHANGED <<mapped, worker>>
        \/ sess' = refused /\ tasks' = T \cup {} /\ UNCHANGED <<mapped, worker>>
        \/ Schedule(s, refused, T) /\ UNCHANGED <<mapped, worker>>
        \/ /\ sess' = wiped /\ tasks' = T \cup {Task(s, "logout", "none")}
           /\ UNCHANGED <<mapped, worker>>
        \/ ProcessGone(TRUE, refused, T, beats)
    BY DEF Acquire, s, T, refused, granted, wiped, processes
  <1>5. /\ Place(granted, T, worker, SideOf(granted[s])) /\ granted[s].host # "none"
        /\ ByManager(granted, mapped)
    BY <1>0, <1>1, <1>2, PlaceRecord
  <1>6. /\ Place(refused, T, worker, SideOf(refused[s])) /\ refused[s].host # "none"
        /\ ByManager(refused, mapped) /\ Line(refused, T, worker)
    BY <1>0, <1>1, <1>2, PlaceRecord
  <1>7. /\ Place(wiped, T, worker, SideOf(wiped[s])) /\ wiped[s].host # "none"
        /\ ByManager(wiped, mapped)
    BY <1>0, <1>1, <1>3, PlaceRecord
  <1>8. {"files", "logout"} \subseteq (Steps \ Route) \ ToRedis
        /\ "none" \in Continuations
    BY DEF Steps, Starting, Route, ToRedis, Continuations
  <1>9. CASE /\ sess' = granted /\ tasks' = T \cup {Task(s, "files", t.then)}
             /\ UNCHANGED <<mapped, worker>>
    BY <1>0, <1>1, <1>2, <1>5, <1>8, <1>9, GoesOn
  <1>10. CASE sess' = refused /\ tasks' = T \cup {} /\ UNCHANGED <<mapped, worker>>
    BY <1>0, <1>1, <1>2, <1>6, <1>10, GoesOn
  <1>11. CASE /\ sess' = wiped /\ tasks' = T \cup {Task(s, "logout", "none")}
              /\ UNCHANGED <<mapped, worker>>
    BY <1>0, <1>1, <1>3, <1>7, <1>8, <1>11, GoesOn
  <1>12. CASE Schedule(s, refused, T) /\ UNCHANGED <<mapped, worker>>
    <2>1. Line(sess', tasks', worker)
          /\ \A o \in Sessions : sess'[o].host = refused[o].host
      BY <1>0, <1>1, <1>2, <1>6, <1>12, ScheduleLine
    <2> QED
      BY <1>1, <1>6, <1>12, <2>1 DEF LineInv, ByManager
  <1>13. CASE ProcessGone(TRUE, refused, T, beats)
    BY <1>0, <1>1, <1>2, <1>6, <1>13, ProcessGoneLine
  <1> QED
    BY <1>4, <1>9, <1>10, <1>11, <1>12, <1>13

LEMMA LineOfOpenSocket ==
    ASSUME Shape, LineInv, NEW t \in tasks, OpenSocket(t)
    PROVE  LineInv'
  <1> DEFINE s == t.s
             T == tasks \ {t}
             wipes == t.then = "cli" /\ cli = "logout"
             opened(i) == [sess EXCEPT ![s].sock = i, ![s].conn[i] =
                              IF creds THEN "connecting" ELSE "pairing",
                              ![s].stopped = @ \/ wipes]
  <1>0. t.at \notin ToRedis /\ t.at \notin Route
    BY DEF OpenSocket, ToRedis, Route
  <1>1. /\ s \in Sessions /\ sess \in SessionMap /\ sess[s] \in SessionRecord
        /\ mapped \in Sessions \cup {Nobody} /\ sess[s].host # "none"
        /\ ByManager(sess, mapped) /\ T \in TaskSet
        /\ Place(sess, T, worker, SideOf(sess[s]))
    BY <1>0, HandlerPlace
  <1>2. PICK i \in Slots : sess' = opened(i)
    BY DEF OpenSocket
  <1>3. /\ sess'[s].host = sess[s].host
        /\ \A o \in Sessions \ {s} : sess'[o] = sess[o]
    BY <1>1, <1>2 DEF SessionMap, SessionRecord
  <1>4. sess' \in SessionMap /\ UNCHANGED <<mapped, worker>>
    BY ShapeOfStart DEF Shape, OpenSocket, processes
  <1>5. \/ tasks' = T \cup {Task(s, "logout", "none")}
        \/ tasks' = T \cup {}
    BY DEF OpenSocket
  <1> HIDE DEF s, T
  <1>6. /\ Place(sess', T, worker, SideOf(sess'[s])) /\ sess'[s].host # "none"
        /\ ByManager(sess', mapped)
    BY <1>1, <1>3, PlaceRecord
  <1>7. "logout" \in (Steps \ Route) \ ToRedis /\ "none" \in Continuations
    BY DEF Steps, Route, ToRedis, Continuations
  <1> QED
    BY <1>1, <1>4, <1>5, <1>6, <1>7, GoesOn

LEMMA LineOfWrites ==
    ASSUME Shape, LineInv, NEW t \in tasks, Writes(t)
    PROVE  LineInv'
  <1> DEFINE s == t.s
             T == tasks \ {t}
  <1>0. t.at \notin ToRedis /\ t.at \notin Route
    BY DEF Writes, ToRedis, Route
  <1>1. /\ s \in Sessions /\ sess \in SessionMap
        /\ mapped \in Sessions \cup {Nobody}
        /\ ByManager(sess, mapped) /\ T \in TaskSet
        /\ Place(sess, T, worker, SideOf(sess[s])) /\ sess[s].host # "none"
    BY <1>0, HandlerPlace
  <1>2. PICK status, more :
           /\ SetStatus(t, status, more)
           /\ \/ more = {}
              \/ \E at \in {"openReady", "arm", "lastStop"} :
                    more = {Task(s, at, "none")}
    BY DEF Writes
  <1>3. CASE line.status = "DELETED"
    <2>1. PICK inCli \in BOOLEAN : inCli = InCli(sess[s])
      BY DEF InCli
    <2>2. ProcessGone(inCli, sess, T, beats)
      BY <1>2, <1>3, <2>1 DEF SetStatus
    <2>3. Line(sess, T, worker)
      BY <1>1 DEF Place
    <2> HIDE DEF s, T
    <2> QED
      BY <1>1, <2>2, <2>3, ProcessGoneLine
  <1>4. CASE line.status # "DELETED"
    <2>1. tasks' = T \cup more /\ sess' = sess /\ UNCHANGED <<mapped, worker>>
      BY <1>2, <1>4 DEF SetStatus, processes
    <2>2. {"openReady", "arm", "lastStop"} \subseteq (Steps \ Route) \ ToRedis
          /\ "none" \in Continuations
      BY DEF Steps, Reconnecting, Route, ToRedis, Continuations
    <2> HIDE DEF s, T
    <2> QED
      BY <1>1, <1>2, <2>1, <2>2, GoesOn
  <1> QED
    BY <1>3, <1>4

LEMMA LineOfReady ==
    ASSUME Shape, LineInv, NEW t \in tasks, OpenReady(t) \/ Arm(t)
    PROVE  LineInv'
  <1> DEFINE s == t.s
             T == tasks \ {t}
             ready == [sess EXCEPT ![s].ready = TRUE]
  <1>0. t.at \notin ToRedis /\ t.at \notin Route
    BY DEF OpenReady, Arm, ToRedis, Route
  <1>1. /\ s \in Sessions /\ sess \in SessionMap /\ sess[s] \in SessionRecord
        /\ mapped \in Sessions \cup {Nobody}
        /\ ByManager(sess, mapped) /\ T \in TaskSet
        /\ Place(sess, T, worker, SideOf(sess[s])) /\ sess[s].host # "none"
    BY <1>0, HandlerPlace
  <1>2. ready[s].host = sess[s].host /\ \A o \in Sessions \ {s} : ready[o] = sess[o]
    BY <1>1 DEF SessionMap, SessionRecord
  <1>3. ready \in SessionMap
    <2>1. [sess[s] EXCEPT !.ready = TRUE] \in SessionRecord
      BY <1>1, BitSet
    <2> QED
      BY <1>1, <2>1, Replaced
  <1>4. /\ Place(ready, T, worker, SideOf(ready[s])) /\ ready[s].host # "none"
        /\ ByManager(ready, mapped) /\ Line(ready, T, worker)
    <2> HIDE DEF ready, s, T
    <2> QED
      BY <1>1, <1>2, PlaceRecord
  <1>5. CASE OpenReady(t)
    <2>1. \/ ProcessGone(TRUE, ready, T, beats)
          \/ /\ sess' = ready /\ UNCHANGED <<mapped, worker>>
             /\ \/ tasks' = T \cup {Task(s, "sending", "none")}
                \/ tasks' = T \cup {}
      BY <1>5 DEF OpenReady, processes
    <2>2. "sending" \in (Steps \ Route) \ ToRedis /\ "none" \in Continuations
      BY DEF Steps, Route, ToRedis, Continuations
    <2> HIDE DEF ready, s, T
    <2>3. CASE ProcessGone(TRUE, ready, T, beats)
      BY <1>1, <1>3, <1>4, <2>3, ProcessGoneLine
    <2>4. CASE /\ sess' = ready /\ UNCHANGED <<mapped, worker>>
               /\ \/ tasks' = T \cup {Task(s, "sending", "none")}
                  \/ tasks' = T \cup {}
      BY <1>1, <1>3, <1>4, <2>2, <2>4, GoesOn
    <2> QED
      BY <2>1, <2>3, <2>4
  <1>6. CASE Arm(t)
    <2>1. /\ sess'[s].host = sess[s].host
          /\ \A o \in Sessions \ {s} : sess'[o] = sess[o]
      BY <1>1, <1>6 DEF Arm, SessionMap, SessionRecord
    <2>2. tasks' = T /\ UNCHANGED <<mapped, worker>>
      BY <1>6 DEF Arm, processes
    <2> HIDE DEF s, T
    <2>3. Line(sess', T, worker) /\ ByManager(sess', mapped)
      BY <1>1, <2>1, PlaceRecord
    <2> QED
      BY <2>2, <2>3 DEF LineInv
  <1> QED
    BY <1>5, <1>6

LEMMA LineOfRelease ==
    ASSUME Shape, LineInv, NEW t \in tasks, Release(t)
    PROVE  LineInv'
  <1> DEFINE s == t.s
             T == Answered(t)
             freed == [sess EXCEPT ![s].owns = FALSE]
  <1>0. /\ t.at = "release" /\ t.n = 1 /\ t.at \in ToRedis /\ t.at \notin Route
        /\ t.then \in Continuations /\ T \in TaskSet
    BY TaskFacts, AnsweredTasks DEF Release, ToRedis, Route
  <1>1. /\ s \in Sessions /\ sess \in SessionMap /\ sess[s] \in SessionRecord
        /\ mapped \in Sessions \cup {Nobody} /\ sess[s].host # "none"
        /\ ByManager(sess, mapped) /\ Place(sess, T, worker, SideOf(sess[s]))
        /\ t.then \in Managerial => sess[s].host # "cli"
    <2>1. Line(sess, tasks, worker)
      BY DEF LineInv
    <2> QED
      BY <1>0, <2>1, HandlerPlace, LineAnswered DEF Line, ThenFits
  <1>2. /\ freed[s].host = sess[s].host /\ freed \in SessionMap
        /\ \A o \in Sessions \ {s} : freed[o] = sess[o]
    <2> HIDE DEF s
    <2> QED
      BY <1>1, OwnsSet
  <1>3. After(s, t.then, freed, T, beats \ {s})
    BY DEF Release
  <1> HIDE DEF freed, s, T
  <1>4. /\ Place(freed, T, worker, SideOf(freed[s])) /\ Line(freed, T, worker)
        /\ ByManager(freed, mapped) /\ SideOf(freed[s]) = SideOf(sess[s])
    BY <1>0, <1>1, <1>2, PlaceRecord
  <1>5. t.then \in Managerial => SideOf(sess[s]) = "worker"
    BY <1>1 DEF SideOf, InCli
  <1> QED
    BY <1>0, <1>1, <1>2, <1>3, <1>4, <1>5, AfterLine

LEMMA LineOfStops ==
    ASSUME Shape, LineInv, NEW t \in tasks, Stops(t)
    PROVE  LineInv'
  <1> DEFINE s == t.s
             T == tasks \ {t}
  <1>0. t.at \notin ToRedis /\ t.at \notin Route
    BY DEF Stops, ToRedis, Route
  <1>1. /\ s \in Sessions /\ sess \in SessionMap
        /\ mapped \in Sessions \cup {Nobody}
        /\ ByManager(sess, mapped) /\ T \in TaskSet
        /\ Place(sess, T, worker, SideOf(sess[s])) /\ sess[s].host # "none"
    BY <1>0, HandlerPlace
  <1>2. PICK then \in {"terminal", "exit", "cliLogout", "remove"} :
           /\ StopThen(s, then, sess, T)
           /\ then = "remove" => ~InCli(sess[s])
    BY DEF Stops
  <1>3. /\ then \in Continuations
        /\ then \in Managerial => sess[s].host # "cli"
    BY <1>2 DEF Continuations, Managerial, InCli
  <1> HIDE DEF s, T
  <1> QED
    BY <1>1, <1>2, <1>3, StopThenLine

LEMMA LineOfRoutes ==
    ASSUME Shape, LineInv, NEW t \in tasks, RouteGoesOn(t) \/ HealthAct(t)
    PROVE  LineInv'
  <1> DEFINE T == tasks \ {t}
  <1>0. t.s = Nobody /\ t.at \notin ToRedis /\ t.then \in Continuations
    <2>1. t \in TaskRow /\ t.then \in Continuations
      BY TaskFacts
    <2> QED
      BY <2>1 DEF RouteGoesOn, HealthAct, TaskRow, Route, ToRedis
  <1>1. /\ sess \in SessionMap /\ mapped \in Sessions \cup {Nobody}
        /\ ByManager(sess, mapped) /\ T \in TaskSet
        /\ Place(sess, T, worker, "worker") /\ Line(sess, T, worker)
    BY <1>0, HandlerPlace DEF Place
  <1>2. \/ ManagerSpawn(T) /\ UNCHANGED worker
        \/ \E then \in Continuations : ManagerStop(then, T)
        \/ tasks' = T /\ UNCHANGED <<sess, mapped, worker>>
        \/ mapped # Nobody /\ StopThen(mapped, "respawn", sess, T)
        \/ ProcessGone(FALSE, sess, T, beats)
    BY <1>0 DEF RouteGoesOn, HealthAct, processes
  <1> HIDE DEF T
  <1>3. CASE ManagerSpawn(T) /\ UNCHANGED worker
    BY <1>1, <1>3, ManagerSpawnLine
  <1>4. ASSUME NEW then \in Continuations, ManagerStop(then, T)
        PROVE  LineInv'
    BY <1>1, <1>4, ManagerStopLine
  <1>5. CASE tasks' = T /\ UNCHANGED <<sess, mapped, worker>>
    BY <1>1, <1>5 DEF LineInv
  <1>6. CASE mapped # Nobody /\ StopThen(mapped, "respawn", sess, T)
    <2>1. ManagerStop("respawn", T) /\ "respawn" \in Continuations
      BY <1>6 DEF ManagerStop, Continuations
    <2> QED
      BY <1>1, <2>1, ManagerStopLine
  <1>7. CASE ProcessGone(FALSE, sess, T, beats)
    BY <1>1, <1>7, ProcessGoneLine
  <1> QED
    BY <1>2, <1>3, <1>4, <1>5, <1>6, <1>7

\* A handler begins in a session that has something to react to.
LEMMA SessionPlace ==
    ASSUME Shape, LineInv, NEW s \in Sessions, Room, sess[s].host # "none"
    PROVE  Place(sess, tasks, worker, SideOf(sess[s]))
  <1>1. Line(sess, tasks, worker) /\ SideOf(sess[s]) \in Sides
    BY DEF LineInv, SideOf, Sides
  <1>2. worker = "down" => SideOf(sess[s]) = "cli"
    BY <1>1 DEF Line, OffDuty, SideOf, InCli
  <1> QED
    BY <1>1, <1>2, LineRoom

LEMMA HasRecord ==
    ASSUME Shape, LineInv, NEW s \in Sessions,
           \/ sess[s].timer \/ sess[s].loose
           \/ \E i \in Slots : sess[s].conn[i] # "none"
    PROVE  sess[s].host # "none"
  <1>1. sess[s].host = "none" => sess[s] = Blank("none")
    BY DEF LineInv, Line, Inert
  <1>2. /\ ~Blank("none").timer /\ ~Blank("none").loose
        /\ \A i \in Slots : Blank("none").conn[i] = "none"
    BY DEF Blank
  <1> QED
    BY <1>1, <1>2

LEMMA LineOfTimers ==
    ASSUME Shape, LineInv, NEW s \in Sessions, Timers(s) \/ CloseQr(s)
    PROVE  LineInv'
  <1>0. /\ sess \in SessionMap /\ tasks \in TaskSet /\ sess[s] \in SessionRecord
        /\ mapped \in Sessions \cup {Nobody} /\ ByManager(sess, mapped)
    BY DEF Shape, SessionMap, LineInv
  <1>1. ASSUME NEW loose \in BOOLEAN, TimerFires(s, loose)
        PROVE  LineInv'
    <2>1. sess[s].host # "none" /\ Room
      BY <1>1, HasRecord DEF TimerFires, Idle
    <2>2. Place(sess, tasks, worker, SideOf(sess[s]))
      BY <2>1, SessionPlace
    <2>3. /\ sess'[s].host = sess[s].host
          /\ \A o \in Sessions \ {s} : sess'[o] = sess[o]
      BY <1>0, <1>1 DEF TimerFires, SessionMap, SessionRecord
    <2>4. "timer" \in Continuations
      BY DEF Continuations
    <2> DEFINE M == tasks \cup {StartTask(sess, tasks, s, "timer")}
    <2>5. M \in TaskSet
      BY <1>0, <2>4, StartShape, TasksAdded
    <2>6. Line(sess, M, worker)
      BY <1>0, <2>1, <2>2, <2>4, StartJoined
    <2>7. tasks' = M /\ UNCHANGED <<mapped, worker>>
      BY <1>1 DEF TimerFires, processes
    <2> HIDE DEF M
    <2>8. Line(sess', M, worker) /\ ByManager(sess', mapped)
      BY <1>0, <2>1, <2>3, <2>5, <2>6, LineRecord
    <2> QED
      BY <2>7, <2>8 DEF LineInv
  <1>2. CASE CloseQr(s)
    <2>1. /\ StopThen(s, "none", sess, tasks) /\ sess[s].host # "none" /\ Room
          /\ "none" \in Continuations /\ "none" \notin Managerial
      BY <1>2 DEF CloseQr, Continuations, Managerial
    <2>2. Place(sess, tasks, worker, SideOf(sess[s]))
      BY <2>1, SessionPlace
    <2> QED
      BY <1>0, <2>1, <2>2, StopThenLine
  <1> QED
    BY <1>1, <1>2 DEF Timers

LEMMA LineOfClose ==
    ASSUME Shape, LineInv, NEW s \in Sessions, NEW i \in Slots, NEW decision,
           HandleClose(s, i, decision), Room, i \in LiveSlots(sess[s]),
           UNCHANGED <<mapped, worker>>
    PROVE  LineInv'
  <1> DEFINE closed == [sess EXCEPT ![s].conn[i] = "none"]
             reacts == [closed EXCEPT ![s].ready = FALSE]
  <1>0. /\ sess \in SessionMap /\ tasks \in TaskSet /\ sess[s] \in SessionRecord
        /\ mapped \in Sessions \cup {Nobody} /\ ByManager(sess, mapped)
        /\ sess[s].host # "none"
    <2>1. sess[s].conn[i] # "none"
      BY DEF LiveSlots, LiveConn
    <2> QED
      BY <2>1, HasRecord DEF Shape, SessionMap, LineInv
  <1>1. Place(sess, tasks, worker, SideOf(sess[s]))
    BY <1>0, SessionPlace
  <1>2. /\ closed[s].host = sess[s].host /\ closed \in SessionMap
        /\ \A o \in Sessions \ {s} : closed[o] = sess[o]
    <2> DEFINE r == [sess[s] EXCEPT !.conn[i] = "none"]
    <2>1. r \in SessionRecord /\ r.host = sess[s].host
      BY <1>0, SlotSet DEF SessionRecord
    <2>2. closed = [sess EXCEPT ![s] = r]
      BY <1>0 DEF SessionMap, SessionRecord
    <2> HIDE DEF r, closed
    <2> QED
      BY <1>0, <2>1, <2>2, RecordSet
  <1>3. /\ reacts[s].host = sess[s].host /\ reacts \in SessionMap
        /\ \A o \in Sessions \ {s} : reacts[o] = sess[o]
    <2> HIDE DEF closed
    <2> DEFINE r == [closed[s] EXCEPT !.ready = FALSE]
    <2>1. r \in SessionRecord /\ r.host = closed[s].host
      <3>1. closed[s] \in SessionRecord
        BY <1>2 DEF SessionMap
      <3>2. r \in SessionRecord
        BY <3>1, BitSet
      <3>3. r.host = closed[s].host
        BY <3>1 DEF SessionRecord
      <3> QED
        BY <3>2, <3>3
    <2>2. reacts = [closed EXCEPT ![s] = r]
      OBVIOUS
    <2> HIDE DEF r, reacts
    <2> QED
      BY <1>2, <2>1, <2>2, RecordSet
  <1>4. \/ sess' = closed /\ tasks' = tasks \cup {}
        \/ sess' = reacts /\ tasks' = tasks \cup {Task(s, "banWrite", "none")}
        \/ sess' = reacts /\ tasks' = tasks \cup {Task(s, "lastWrite", "none")}
        \/ Schedule(s, reacts, tasks)
    BY DEF HandleClose
  <1> HIDE DEF closed, reacts
  <1>5. /\ Place(closed, tasks, worker, SideOf(closed[s]))
        /\ closed[s].host # "none" /\ ByManager(closed, mapped)
    BY <1>0, <1>1, <1>2, PlaceRecord
  <1>6. /\ Place(reacts, tasks, worker, SideOf(reacts[s]))
        /\ reacts[s].host # "none" /\ ByManager(reacts, mapped)
    BY <1>0, <1>1, <1>3, PlaceRecord
  <1>7. {"banWrite", "lastWrite"} \subseteq (Steps \ Route) \ ToRedis
        /\ "none" \in Continuations
    BY DEF Steps, Route, ToRedis, Continuations
  <1>8. CASE sess' = closed /\ tasks' = tasks \cup {}
    BY <1>0, <1>2, <1>5, <1>8, GoesOn
  <1>9. CASE sess' = reacts /\ tasks' = tasks \cup {Task(s, "banWrite", "none")}
    BY <1>0, <1>3, <1>6, <1>7, <1>9, GoesOn
  <1>10. CASE sess' = reacts /\ tasks' = tasks \cup {Task(s, "lastWrite", "none")}
    BY <1>0, <1>3, <1>6, <1>7, <1>10, GoesOn
  <1>11. CASE Schedule(s, reacts, tasks)
    <2>1. Line(sess', tasks', worker)
          /\ \A o \in Sessions : sess'[o].host = reacts[o].host
      BY <1>0, <1>3, <1>6, <1>11, ScheduleLine
    <2> QED
      BY <1>0, <1>6, <2>1 DEF LineInv, ByManager
  <1> QED
    BY <1>4, <1>8, <1>9, <1>10, <1>11

LEMMA LineOfSockets ==
    ASSUME Shape, LineInv, NEW s \in Sessions, NEW i \in Slots,
           \/ SocketQr(s, i) \/ SocketScanned(s, i) \/ SocketOpen(s, i)
           \/ \E d \in Decisions : SocketClose(s, i, d)
    PROVE  LineInv'
  <1>0. /\ sess \in SessionMap /\ tasks \in TaskSet /\ sess[s] \in SessionRecord
        /\ mapped \in Sessions \cup {Nobody} /\ ByManager(sess, mapped)
    BY DEF Shape, SessionMap, LineInv
  <1>1. i \in LiveSlots(sess[s]) /\ Room /\ UNCHANGED <<mapped, worker>>
    BY DEF SocketQr, SocketScanned, SocketOpen, SocketClose, Idle, LiveSlots,
       LiveConn, processes
  <1>2. CASE SocketScanned(s, i) \/ \E d \in Decisions : SocketClose(s, i, d)
    BY <1>1, <1>2, LineOfClose DEF SocketScanned, SocketClose
  <1>3. CASE SocketQr(s, i) \/ SocketOpen(s, i)
    <2>1. sess[s].host # "none"
      <3>1. sess[s].conn[i] # "none"
        BY <1>1 DEF LiveSlots, LiveConn
      <3> QED
        BY <3>1, HasRecord
    <2>2. Place(sess, tasks, worker, SideOf(sess[s]))
      BY <1>1, <2>1, SessionPlace
    <2>3. /\ sess'[s].host = sess[s].host
          /\ \A o \in Sessions \ {s} : sess'[o] = sess[o]
      BY <1>0, <1>3 DEF SocketQr, SocketOpen, SessionMap, SessionRecord
    <2>4. sess' \in SessionMap
      BY ShapeOfSockets DEF Shape
    <2>5. \E at \in {"lastWrite", "qrWrite", "openWrite"} :
             tasks' = tasks \cup {Task(s, at, "none")}
      BY <1>3 DEF SocketQr, SocketOpen
    <2>6. {"lastWrite", "qrWrite", "openWrite"} \subseteq (Steps \ Route) \ ToRedis
          /\ "none" \in Continuations
      BY DEF Steps, Route, ToRedis, Continuations
    <2>7. /\ Place(sess', tasks, worker, SideOf(sess'[s])) /\ sess'[s].host # "none"
          /\ ByManager(sess', mapped)
      BY <1>0, <2>1, <2>2, <2>3, PlaceRecord
    <2> QED
      BY <1>0, <1>1, <2>4, <2>5, <2>6, <2>7, GoesOn
  <1> QED
    BY <1>2, <1>3

\* A request, or the health check, is served by a worker that is up.
LEMMA ServingPlace ==
    ASSUME Shape, LineInv, Room, worker = "up"
    PROVE  Place(sess, tasks, worker, "worker")
  BY LineRoom DEF LineInv, Sides

LEMMA LineOfRequests ==
    ASSUME Shape, LineInv,
           \/ Pause \/ Resume \/ Reconnect \/ OpenQr \/ Remove
           \/ KeyExpires \/ KeyLapses \/ HealthRead
    PROVE  LineInv'
  <1>0. /\ sess \in SessionMap /\ tasks \in TaskSet
        /\ mapped \in Sessions \cup {Nobody} /\ ByManager(sess, mapped)
        /\ {"none", "unmap", "respawn", "repair"} \subseteq Continuations
        /\ {"stop", "spawn", "delete", "checking"} \subseteq Route
    BY DEF Shape, LineInv, Continuations, Route
  <1>1. CASE KeyExpires \/ KeyLapses
    BY <1>1 DEF KeyExpires, KeyLapses, LineInv, processes
  <1>2. CASE ~(KeyExpires \/ KeyLapses)
    <2>1. Room /\ worker = "up"
      BY <1>2 DEF Pause, Resume, SetEnabled, Reconnect, OpenQr, Remove, HealthRead,
         Request, Serving
    <2>2. Place(sess, tasks, worker, "worker")
      BY <2>1, ServingPlace
    <2>3. CASE Reconnect \/ OpenQr
      BY <1>0, <2>2, <2>3, ManagerStopLine DEF Reconnect, OpenQr
    <2>4. CASE Remove /\ mapped # Nobody
      <3>1. /\ mapped \in Sessions /\ sess[mapped].host # "none"
            /\ SideOf(sess[mapped]) = "worker"
        BY <1>0, <2>4, MappedSide
      <3> DEFINE N == [sess EXCEPT ![mapped].stopped = TRUE]
      <3>2. /\ N[mapped].host = sess[mapped].host /\ N \in SessionMap
            /\ \A o \in Sessions \ {mapped} : N[o] = sess[o]
        BY <1>0, <3>1, StoppedSet
      <3>3. /\ sess' = N /\ tasks' = tasks \cup {Task(mapped, "logout", "none")}
            /\ UNCHANGED <<mapped, worker>>
        BY <2>4 DEF Remove, processes
      <3> HIDE DEF N
      <3>4. /\ Place(N, tasks, worker, SideOf(N[mapped])) /\ N[mapped].host # "none"
            /\ ByManager(N, mapped)
        <4>1. Place(sess, tasks, worker, SideOf(sess[mapped]))
          BY <2>2, <3>1
        <4> QED
          BY <1>0, <3>1, <3>2, <4>1, PlaceRecord
      <3>5. "logout" \in (Steps \ Route) \ ToRedis
        BY DEF Steps, Route, ToRedis
      <3> QED
        BY <1>0, <3>1, <3>2, <3>3, <3>4, <3>5, GoesOn
    <2>5. CASE \/ Pause \/ Resume \/ HealthRead
               \/ Remove /\ mapped = Nobody
      <3>1. \E at \in Route, then \in Continuations :
               /\ tasks' = tasks \cup {Task(Nobody, at, then)}
               /\ UNCHANGED <<sess, mapped, worker>>
        BY <1>0, <2>5 DEF Pause, Resume, SetEnabled, HealthRead, Remove, processes
      <3>2. PICK at \in Route, then \in Continuations :
               /\ tasks' = tasks \cup {Task(Nobody, at, then)}
               /\ UNCHANGED <<sess, mapped, worker>>
        BY <3>1
      <3>3. Line(sess, tasks \cup {Task(Nobody, at, then)}, worker)
        BY <1>0, <2>2, RouteJoined
      <3> QED
        BY <1>0, <3>2, <3>3 DEF LineInv
    <2> QED
      BY <1>2, <2>3, <2>4, <2>5
  <1> QED
    BY <1>1, <1>2

LEMMA LineOfProcesses ==
    ASSUME Shape, LineInv,
           \/ Boot \/ WorkerCrash \/ Shutdown \/ CliGivesUp
           \/ \E job \in {"pair", "send", "logout"} : CliStarts(job)
    PROVE  LineInv'
  <1>0. /\ sess \in SessionMap /\ tasks \in TaskSet
        /\ mapped \in Sessions \cup {Nobody} /\ ByManager(sess, mapped)
        /\ Line(sess, tasks, worker)
        /\ {"boot", "cli", "exit"} \subseteq Continuations /\ "stop" \in Route
        /\ {"managed", "cli"} \subseteq Hosts
    BY DEF Shape, LineInv, Continuations, Route, Hosts
  <1>1. CASE WorkerCrash \/ CliGivesUp
    BY <1>0, <1>1, ProcessGoneLine DEF WorkerCrash, CliGivesUp
  <1>2. CASE Boot
    <2>1. Line(sess, tasks, "up") /\ Place(sess, tasks, "up", "worker")
      <3>1. Few(sess, tasks, "up")
        <4> SUFFICES ASSUME NEW b \in Sides
                     PROVE  Cardinality(OnSide(sess, tasks, b)) <= Cap("up", b)
          BY DEF Few
        <4>1. Cardinality(OnSide(sess, tasks, b)) <= Cap("down", b)
              /\ Cardinality(OnSide(sess, tasks, b)) \in Nat
          BY <1>0, <1>2, SideIs DEF Line, Few, Boot
        <4>2. Cap("down", b) <= Cap("up", b)
              /\ Cap("down", b) \in Nat /\ Cap("up", b) \in Nat
          BY FleetAssumption DEF Cap
        <4> QED
          BY <4>1, <4>2
      <3>2. Line(sess, tasks, "up")
        BY <1>0, <3>1 DEF Line, OffDuty
      <3>3. Cardinality(OnSide(sess, tasks, "worker")) = 0
        BY <1>0, <1>2, SideIs, CapIs DEF Line, Few, Boot, Sides
      <3>4. Cap("up", "worker") > 0
        BY FleetAssumption DEF Cap
      <3> QED
        BY <3>2, <3>3, <3>4 DEF Place
    <2>2. CASE Spawned("boot", sess, tasks)
      <3>1. /\ Opened("managed", "boot", sess, tasks) /\ mapped' = NewId(sess, tasks)
            /\ Place(sess, tasks, "up",
                     IF "managed" = "cli" THEN "cli" ELSE "worker")
        BY <2>1, <2>2 DEF Spawned
      <3>2. Line(sess', tasks', "up") /\ sess'[NewId(sess, tasks)].host = "managed"
        BY <1>0, <3>1, OpenedLine
      <3> QED
        BY <1>2, <3>1, <3>2 DEF LineInv, ByManager, Boot
    <2>3. CASE UNCHANGED <<sess, tasks, mapped>>
      BY <1>0, <1>2, <2>1, <2>3 DEF LineInv, Boot
    <2> QED
      BY <1>2, <2>2, <2>3 DEF Boot
  <1>3. CASE Shutdown
    <2>1. Line(sess, tasks, "closing") /\ Place(sess, tasks, "closing", "worker")
      <3>1. ASSUME NEW b \in Sides
            PROVE  /\ Cardinality(OnSide(sess, tasks, b)) <= Cap("closing", b)
                   /\ b = "worker" =>
                        Cardinality(OnSide(sess, tasks, b)) < Cap("closing", b)
        <4>1. Cardinality(OnSide(sess, tasks, b)) <= Cap("up", b)
              /\ Cardinality(OnSide(sess, tasks, b)) \in Nat
          BY <1>0, <1>3, SideIs DEF Line, Few, Shutdown
        <4>2. /\ Cap("up", b) <= Cap("closing", b)
              /\ b = "worker" => Cap("up", b) < Cap("closing", b)
              /\ Cap("closing", b) \in Nat /\ Cap("up", b) \in Nat
          BY FleetAssumption DEF Cap
        <4> QED
          BY <4>1, <4>2
      <3>2. Line(sess, tasks, "closing")
        BY <1>0, <3>1 DEF Line, OffDuty, Few
      <3> QED
        BY <3>1, <3>2 DEF Place, Sides
    <2>2. Line(sess, tasks \cup {Task(Nobody, "stop", "exit")}, "closing")
      BY <1>0, <2>1, RouteJoined
    <2> QED
      BY <1>0, <1>3, <2>2 DEF LineInv, Shutdown
  <1>4. ASSUME NEW job \in {"pair", "send", "logout"}, CliStarts(job)
        PROVE  LineInv'
    <2>1. /\ Opened("cli", "cli", sess, tasks) /\ Room
          /\ UNCHANGED <<mapped, worker>>
      BY <1>4 DEF CliStarts
    <2>2. Place(sess, tasks, worker, "cli")
      BY <1>0, <2>1, LineRoom DEF Sides
    <2>3. Place(sess, tasks, worker, IF "cli" = "cli" THEN "cli" ELSE "worker")
      BY <2>2
    <2>4. /\ Line(sess', tasks', worker) /\ NewId(sess, tasks) # mapped
          /\ \A o \in Sessions \ {NewId(sess, tasks)} : sess'[o] = sess[o]
      BY <1>0, <2>1, <2>3, OpenedLine
    <2> QED
      BY <1>0, <2>1, <2>4 DEF LineInv, ByManager
  <1> QED
    BY <1>1, <1>2, <1>3, <1>4

LEMMA LineInit ==
    ASSUME FleetInit
    PROVE  LineInv
  <1>1. /\ \A s \in Sessions : sess[s] = Blank("none")
        /\ tasks = {} /\ mapped = Nobody /\ worker = "down"
        /\ Blank("none").host = "none"
    BY BlankRecord DEF FleetInit
  <1>2. \A b \in Sides : OnSide(sess, tasks, b) = {} /\ Waiting(sess, tasks, b) = {}
    BY <1>1 DEF OnSide, Waiting
  <1>3. InOrder(sess, tasks)
    BY <1>1, <1>2 DEF InOrder, Ranked
  <1>4. Few(sess, tasks, worker)
    <2>1. ASSUME NEW b \in Sides
          PROVE  Cardinality(OnSide(sess, tasks, b)) <= Cap(worker, b)
      <3>1. Cardinality(OnSide(sess, tasks, b)) = 0
        BY <1>2, FS_EmptySet
      <3>2. Cap(worker, b) \in Nat
        BY CapIs
      <3> QED
        BY <3>1, <3>2
    <2> QED
      BY <2>1 DEF Few
  <1> QED
    BY <1>1, <1>3, <1>4
    DEF LineInv, Line, ThenFits, Hosted, Inert, OffDuty, ByManager

LEMMA LineNext ==
    ASSUME Shape, LineInv, [FleetNext]_fleetVars
    PROVE  LineInv'
  <1>1. CASE UNCHANGED fleetVars
    BY <1>1 DEF fleetVars, LineInv
  <1>2. ASSUME NEW t \in tasks, TaskStep(t)
        PROVE  LineInv'
    BY <1>2, LineOfAcquire, LineOfOpenSocket, LineOfRelease, LineOfWrites,
       LineOfReady, LineOfStops, LineOfRoutes DEF TaskStep
  <1>3. CASE FleetStep
    BY <1>2, <1>3, LineOfTimers, LineOfSockets, LineOfRequests, LineOfProcesses
    DEF FleetStep
  <1> QED
    BY <1>1, <1>3 DEF FleetNext

\* Of the right type at any time, with or without a race: in particular, whoever
\* waits for Redis has a place between the first and the last of his process.
THEOREM FleetTypesHold == FleetSpec => []FleetTypeOK
  <1>1. FleetInit => Shape /\ LineInv
    BY ShapeInit, LineInit
  <1>2. Shape /\ LineInv /\ [FleetNext]_fleetVars => (Shape /\ LineInv)'
    BY ShapeNext, LineNext
  <1>3. Shape /\ LineInv => FleetTypeOK
    <2> SUFFICES ASSUME Shape, LineInv PROVE FleetTypeOK
      OBVIOUS
    <2>1. ASSUME NEW t \in tasks PROVE t.n \in 0..MaxTasks + 1
      <3>0. tasks \in TaskSet /\ MaxTasks \in Nat /\ InOrder(sess, tasks)
            /\ Few(sess, tasks, worker)
        BY FleetAssumption DEF Shape, LineInv, Line
      <3>1. CASE t.at \notin ToRedis
        BY <3>0, <3>1 DEF InOrder
      <3>2. CASE t.at \in ToRedis
        <4> DEFINE b == Aside(sess, t)
                   W == Waiting(sess, tasks, b)
                   Q == OnSide(sess, tasks, b)
        <4>1. b \in Sides /\ t \in W
          BY <3>2, AsideIs DEF Waiting
        <4>2. t.n \in 1..Cardinality(W)
          BY <3>0, <4>1 DEF InOrder, Ranked
        <4>3. /\ Cardinality(W) <= Cardinality(Q) /\ Cardinality(W) \in Nat
              /\ Cardinality(Q) \in Nat
          BY <3>0, <4>1, SideIs, FS_Subset, FS_CardinalityType
        <4>4. Cardinality(Q) <= Cap(worker, b) /\ Cap(worker, b) <= MaxTasks + 1
              /\ Cap(worker, b) \in Nat
          BY <3>0, <4>1, CapIs DEF Few
        <4> HIDE DEF W, Q, b
        <4> QED
          BY <3>0, <4>2, <4>3, <4>4
      <3> QED
        BY <3>1, <3>2
    <2>2. tasks \subseteq [s : Sessions \cup {Nobody}, at : Steps,
                           then : Continuations, n : 0..MaxTasks + 1]
      BY <2>1 DEF Shape, TaskSet, TaskRow
    <2> QED
      BY <2>2 DEF FleetTypeOK, Shape, SessionMap
  <1> QED
    BY <1>1, <1>2, <1>3, PTL DEF FleetSpec
=============================================================================
