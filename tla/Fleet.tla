------------------------------- MODULE Fleet -------------------------------
(***************************************************************************)
(* The life of one WhatsApp account in the worker: the Session objects     *)
(* that open its sockets, the SessionManager that keeps at most one of     *)
(* them in its map, the ownership key in Redis that keeps other processes  *)
(* away, the health check, the account routes of the internal API and the  *)
(* commands of the CLI.  Accounts do not share any of this state, so one   *)
(* account is enough.                                                      *)
(*                                                                         *)
(* Every handler of the code is an async function.  The part up to its     *)
(* first await is one action; what is left of it is a task, whose later    *)
(* steps interleave with every other handler.                              *)
(***************************************************************************)
EXTENDS Naturals, FiniteSets

CONSTANTS
    Sessions,       \* Session objects: numbers, reused once nothing holds them
    MaxAttempts,    \* MAX_RECONNECT_ATTEMPTS
    MaxQr,          \* MAX_QR_EMISSIONS
    MaxRequests,    \* bound: requests of the panel and commands of the CLI
    MaxDrops,       \* bound: connections closed by the network or WhatsApp
    MaxLapses,      \* bound: times a living owner misses three renewals
    MaxCrashes,     \* bound: ends of the worker process
    MaxEvents,      \* bound: those four together
    MaxTasks,       \* bound: handlers under way at a time, the bootstrap for one
    PastRace        \* bound: go on after a stop() that overtook a start

ASSUME FleetAssumption ==
    /\ Sessions \subseteq Nat \ {0} /\ IsFiniteSet(Sessions)
    /\ {MaxAttempts, MaxQr, MaxTasks} \subseteq Nat \ {0}
    /\ {MaxRequests, MaxDrops, MaxLapses, MaxCrashes, MaxEvents} \subseteq Nat
    /\ PastRace \in BOOLEAN

VARIABLES
    line,        \* the accounts row: status and is_enabled
    creds,      \* creds.json on the volume holds a paired device
    owner,      \* session:owner:{id} in Redis: a session, or Nobody
    beats,      \* sessions whose renewal interval runs
    mapped,     \* SessionManager.sessions.get(id), or Nobody
    sess,       \* the Session objects
    tasks,      \* what is left of the handlers that wait at an await
    worker,     \* the worker process: "up", "closing" (shutdown) or "down"
    cli,        \* what the CLI process is doing, or "off"
    used,       \* how much of each bound has been used
    race        \* history: a stop() found a start or a reconnection under way,
                \* or the map lost an entry that was not the stopped session's

fleetVars == <<line, creds, owner, beats, mapped, sess, tasks, worker, cli,
               used, race>>

Nobody == 0
Slots == 1..2       \* bound: sockets one Session has alive at a time
Status == {"QR_PENDING", "CONNECTED", "DISCONNECTED", "RECONNECTING",
           "BANNED", "DELETED"}
LiveConn == {"pairing", "connecting", "open"}

Blank(host) ==
    [host |-> host, stopped |-> FALSE, ready |-> FALSE, owns |-> FALSE,
     sock |-> 0, conn |-> [i \in Slots |-> "none"], timer |-> FALSE,
     loose |-> FALSE, attempts |-> 0, qrs |-> 0]

SessionRecord ==
    [host : {"none", "managed", "qr", "cli"}, stopped : BOOLEAN,
     ready : BOOLEAN, owns : BOOLEAN, sock : Slots \cup {0},
     conn : [Slots -> LiveConn \cup {"none"}], timer : BOOLEAN,
     loose : BOOLEAN, attempts : 0..MaxAttempts, qrs : 0..MaxQr + 1]

Starting == {"acquire", "files"}
Reconnecting == {"reconWrite", "arm"}
Steps == Starting \cup Reconnecting \cup
         {"qrWrite", "openWrite", "openReady", "banWrite", "lastWrite",
          "lastStop", "release", "logout", "sending", "stop", "spawn", "delete",
          "checking"}
Continuations == {"none", "unmap", "respawn", "repair", "terminal", "remove",
                  "exit", "cliLogout", "boot", "spawn", "timer", "qr", "cli"}
Task(s, at, then) == [s |-> s, at |-> at, then |-> then, n |-> 0]

FleetTypeOK ==
    /\ line \in [status : Status, enabled : BOOLEAN]
    /\ creds \in BOOLEAN
    /\ owner \in Sessions \cup {Nobody}
    /\ beats \subseteq Sessions
    /\ mapped \in Sessions \cup {Nobody}
    /\ sess \in [Sessions -> SessionRecord]
    /\ tasks \subseteq [s : Sessions \cup {Nobody}, at : Steps,
                        then : Continuations, n : 0..MaxTasks + 1]
    /\ worker \in {"up", "closing", "down"}
    /\ cli \in {"off", "pair", "send", "logout"}
    /\ used \in [requests : 0..MaxRequests, drops : 0..MaxDrops,
                 lapses : 0..MaxLapses, crashes : 0..MaxCrashes]
    /\ race \in BOOLEAN

FleetInit ==
    /\ line \in [status : {"DISCONNECTED"}, enabled : {TRUE}]
    /\ creds \in BOOLEAN
    /\ owner = Nobody /\ beats = {} /\ mapped = Nobody
    /\ sess = [s \in Sessions |-> Blank("none")]
    /\ tasks = {}
    /\ worker = "down" /\ cli = "off"
    /\ used = [requests |-> 0, drops |-> 0, lapses |-> 0, crashes |-> 0]
    /\ race = FALSE

\* One more disturbance of kind b (bound).
Spend(b, max) ==
    /\ used[b] < max
    /\ used.requests + used.drops + used.lapses + used.crashes < MaxEvents
    /\ used' = [used EXCEPT ![b] = @ + 1]

-----------------------------------------------------------------------------
(* Session objects.  S and T stand for the sessions and tasks a handler    *)
(* has built so far in its current step.                                   *)

LiveSlots(r) == {i \in Slots : r.conn[i] \in LiveConn}
IsOpen(r) == r.sock # 0 /\ r.conn[r.sock] = "open"
InCli(r) == r.host = "cli"

\* Nothing refers to the object any more: its number may be used again.
Unreferenced(S, T, s) ==
    /\ s \notin {mapped, owner} \cup beats /\ ~S[s].owns
    /\ LiveSlots(S[s]) = {} /\ ~S[s].timer /\ ~S[s].loose
    /\ \A t \in T : t.s # s
Fresh(S, T) == {s \in Sessions : Unreferenced(S, T, s)}
NewId(S, T) == CHOOSE s \in Fresh(S, T) : \A o \in Fresh(S, T) : s <= o

\* A handler may begin (bound).
Room == Cardinality(tasks) < MaxTasks

Idle(s, kinds) == Room /\ \A t \in tasks : ~(t.s = s /\ t.at \in kinds)

\* Commands of one process reach Redis, and their answers come back, in order.
AtRedis(S, T, cliSide) ==
    {t \in T : t.at \in {"acquire", "release"} /\ InCli(S[t.s]) = cliSide}
RedisTask(S, T, s, at, then) ==
    [Task(s, at, then) EXCEPT !.n = 1 + Cardinality(AtRedis(S, T, InCli(S[s])))]
Answered(t) ==
    {IF u \in AtRedis(sess, tasks, InCli(sess[t.s]))
     THEN [u EXCEPT !.n = @ - 1] ELSE u : u \in tasks \ {t}}

\* The head of start(): an owned session goes straight to the credentials.
StartTask(S, T, s, then) ==
    IF S[s].owns THEN Task(s, "files", then)
    ELSE RedisTask(S, T, s, "acquire", then)

\* new Session(...) and start().
Opened(host, then, S, T) ==
    /\ Fresh(S, T) # {}
    /\ LET n == NewId(S, T)
           N == [S EXCEPT ![n] = Blank(host)]
       IN /\ sess' = N
          /\ tasks' = T \cup {StartTask(N, T, n, then)}

\* SessionManager.spawn for an account that has no session in the map.
Spawned(then, S, T) ==
    /\ Opened("managed", then, S, T)
    /\ mapped' = NewId(S, T)

\* The end of a process: its sockets, timers, heartbeats and handlers go; what
\* it wrote to Redis and Postgres stays.
ProcessGone(inCli, S, T, B) ==
    LET Its(s) == S[s].host # "none" /\ InCli(S[s]) = inCli
    IN /\ sess' = [s \in Sessions |-> IF Its(s) THEN Blank("none") ELSE S[s]]
       /\ tasks' = {t \in T : IF t.s = Nobody THEN inCli ELSE ~Its(t.s)}
       /\ beats' = {s \in B : ~Its(s)}
       /\ mapped' = IF inCli THEN mapped ELSE Nobody
       /\ worker' = IF inCli THEN worker ELSE "down"
       /\ cli' = IF inCli THEN "off" ELSE cli

processes == <<worker, cli>>

\* Session objects that nothing can reach any more are forgotten.
Kept(S, T, B, entry) ==
    [s \in Sessions |->
        IF \/ s \in B \cup {entry} \/ S[s].owns \/ LiveSlots(S[s]) # {}
           \/ S[s].timer \/ S[s].loose \/ \E t \in T : t.s = s
        THEN S[s] ELSE Blank("none")]

Displaces(s, then) ==
    /\ mapped \notin {s, Nobody}
    /\ \/ then \in {"unmap", "respawn", "repair", "remove"}
       \/ then = "terminal" /\ sess[s].host = "managed"

\* What the caller of stop() does once stop() has returned.  SessionManager
\* deletes by account: the entry goes whichever session is in it by then.
After(s, then, S, T, B) ==
    \/ /\ then = "none"
       /\ sess' = Kept(S, T, B, mapped) /\ tasks' = T /\ beats' = B
       /\ UNCHANGED <<mapped, creds, line, processes>>
    \/ /\ \/ then = "unmap"
          \/ then = "terminal" /\ S[s].host = "managed"
       /\ mapped' = Nobody
       /\ sess' = Kept(S, T, B, Nobody) /\ tasks' = T /\ beats' = B
       /\ UNCHANGED <<creds, line, processes>>
    \/ /\ then = "terminal" /\ S[s].host = "qr"
       /\ sess' = Kept(S, T, B, mapped) /\ tasks' = T /\ beats' = B
       /\ UNCHANGED <<mapped, creds, line, processes>>
    \/ /\ then = "respawn"
       /\ Spawned("spawn", Kept(S, T, B, Nobody), T) /\ beats' = B
       /\ UNCHANGED <<creds, line, processes>>
    \/ /\ then = "repair"
       /\ Opened("qr", "qr", Kept(S, T, B, Nobody), T)
       /\ beats' = B /\ mapped' = Nobody
       /\ UNCHANGED <<creds, line, processes>>
    \/ /\ then = "remove"
       /\ sess' = Kept(S, T, B, Nobody)
       /\ tasks' = T \cup {Task(Nobody, "delete", "none")}
       /\ beats' = B /\ creds' = FALSE /\ mapped' = Nobody
       /\ UNCHANGED <<line, processes>>
    \/ /\ then = "cliLogout"
       /\ creds' = FALSE
       /\ line' = IF line.status = "DELETED" THEN line
                 ELSE [status |-> "DISCONNECTED", enabled |-> FALSE]
       /\ ProcessGone(TRUE, S, T, B)
    \/ /\ \/ then = "exit"
          \/ then = "terminal" /\ InCli(S[s])
       /\ ProcessGone(InCli(S[s]), S, T, B)
       /\ UNCHANGED <<creds, line>>

\* Fault: stop() forgets the timer.
EndedTimerKept(S, s) ==
    [S EXCEPT ![s] = [@ EXCEPT !.stopped = TRUE, !.sock = 0,
        !.conn = [i \in Slots |-> IF i = S[s].sock THEN "none" ELSE @[i]]]]

\* Fault: stop() leaves the socket open.
EndedSocketKept(S, s) ==
    [S EXCEPT ![s] = [@ EXCEPT !.stopped = TRUE, !.timer = FALSE]]

\* sock.end() emits its close while stopped is already TRUE: no reaction.
Ended(S, s) ==
    [S EXCEPT ![s] = [@ EXCEPT !.stopped = TRUE, !.timer = FALSE, !.sock = 0,
        !.conn = [i \in Slots |-> IF i = S[s].sock THEN "none"
                                  ELSE S[s].conn[i]]]]

\* Session.stop(): flag, timer and socket at once; the ownership, if any, after
\* a round trip to Redis.  `ready` is not touched.
StopThen(s, then, S, T) ==
    /\ race' = \/ race
               \/ ~S[s].owns /\ Displaces(s, then)
               \/ \E t \in T : t.s = s /\ t.at \in Starting \cup Reconnecting
    /\ IF S[s].owns
       THEN /\ sess' = Ended(S, s)
            /\ tasks' = T \cup {RedisTask(S, T, s, "release", then)}
            /\ UNCHANGED <<mapped, creds, line, beats, processes>>
       ELSE After(s, then, Ended(S, s), T, beats)

\* Fault: the last attempt ends the handler without giving the session up.
ScheduleForgets(s, S, T) ==
    IF S[s].attempts >= MaxAttempts THEN sess' = S /\ tasks' = T
    ELSE /\ sess' = [S EXCEPT ![s].attempts = @ + 1]
         /\ tasks' = T \cup {Task(s, "reconWrite", "none")}
\* Fault: the limit is compared one attempt too late.
ScheduleOnceMore(s, S, T) ==
    IF S[s].attempts > MaxAttempts
    THEN sess' = S /\ tasks' = T \cup {Task(s, "lastWrite", "none")}
    ELSE /\ sess' = [S EXCEPT ![s].attempts = @ + 1]
         /\ tasks' = T \cup {Task(s, "reconWrite", "none")}

\* The synchronous head of scheduleReconnect: one more attempt, or give up.
Schedule(s, S, T) ==
    IF S[s].attempts >= MaxAttempts
    THEN sess' = S /\ tasks' = T \cup {Task(s, "lastWrite", "none")}
    ELSE /\ sess' = [S EXCEPT ![s].attempts = @ + 1]
         /\ tasks' = T \cup {Task(s, "reconWrite", "none")}

-----------------------------------------------------------------------------
(* start(), from its first await to the socket.                            *)

\* SET session:owner NX.  The answer overwrites the session's ownership; a
\* refusal is caught by whoever called start().
Acquire(t) ==
    LET s == t.s  T == Answered(t)  refused == [sess EXCEPT ![s].owns = FALSE]
    IN /\ t.at = "acquire" /\ t.n = 1
       /\ \/ /\ owner = Nobody
             /\ owner' = s /\ beats' = beats \cup {s}
             /\ sess' = [sess EXCEPT ![s].owns = TRUE]
             /\ tasks' = T \cup {Task(s, "files", t.then)}
             /\ UNCHANGED <<mapped, processes>>
          \/ /\ owner # Nobody /\ t.then \in {"boot", "spawn", "qr"}
             /\ sess' = refused /\ tasks' = T
             /\ UNCHANGED <<owner, beats, mapped, processes>>
          \/ /\ owner # Nobody /\ t.then = "timer"
             /\ Schedule(s, refused, T)
             /\ UNCHANGED <<owner, beats, mapped, processes>>
          \/ /\ owner # Nobody /\ t.then = "cli" /\ cli = "logout"
             /\ sess' = [refused EXCEPT ![s].stopped = TRUE]
             /\ tasks' = T \cup {Task(s, "logout", "none")}
             /\ UNCHANGED <<owner, beats, mapped, processes>>
          \/ /\ owner # Nobody /\ t.then = "cli" /\ cli # "logout"
             /\ ProcessGone(TRUE, refused, T, beats) /\ UNCHANGED owner
       /\ UNCHANGED <<line, creds, used, race>>

\* The credentials are read and makeWASocket opens a connection; an older
\* socket of the session is not closed.  `logout` goes on to logoutAndWipe.
OpenSocket(t) ==
    LET s == t.s  wipes == t.then = "cli" /\ cli = "logout"
    IN /\ t.at = "files"
       /\ \E i \in Slots \ LiveSlots(sess[s]) :
             /\ \A j \in Slots \ LiveSlots(sess[s]) : i <= j
             /\ sess' = [sess EXCEPT ![s].sock = i, ![s].conn[i] =
                            IF creds THEN "connecting" ELSE "pairing",
                            ![s].stopped = @ \/ wipes]
       /\ tasks' = (tasks \ {t}) \cup
             IF wipes THEN {Task(s, "logout", "none")} ELSE {}
       /\ UNCHANGED <<line, creds, owner, beats, mapped, processes, used,
                      race>>

\* The reconnection timer: start() again, whatever happened since it was armed.
TimerFires(s, loose) ==
    /\ IF loose THEN sess[s].loose ELSE sess[s].timer
    /\ sess' = [sess EXCEPT ![s].stopped = FALSE,
                            ![s].loose = @ /\ ~loose, ![s].timer = @ /\ loose]
    /\ Idle(s, Starting)
    /\ tasks' = tasks \cup {StartTask(sess, tasks, s, "timer")}
    /\ UNCHANGED <<line, creds, owner, beats, mapped, processes, used, race>>

\* stop() after its round trip to Redis: the key is deleted if it is still ours.
Release(t) ==
    /\ t.at = "release" /\ t.n = 1
    /\ owner' = IF owner = t.s THEN Nobody ELSE owner
    /\ After(t.s, t.then, [sess EXCEPT ![t.s].owns = FALSE], Answered(t),
             beats \ {t.s})
    /\ race' = (race \/ Displaces(t.s, t.then))
    /\ UNCHANGED used

\* The TTL of the key runs out: its owner's process is gone, or it lived
\* through three renewals that never reached Redis.
KeyExpires ==
    /\ owner # Nobody /\ owner \notin beats
    /\ owner' = Nobody
    /\ UNCHANGED <<line, creds, beats, mapped, sess, tasks, processes, used,
                   race>>
KeyLapses ==
    /\ owner \in beats /\ Spend("lapses", MaxLapses)
    /\ owner' = Nobody
    /\ UNCHANGED <<line, creds, beats, mapped, sess, tasks, processes, race>>

-----------------------------------------------------------------------------
(* connection.update.  At most one handler of a kind is under way in a     *)
(* session at a time (Idle, a bound).                                      *)

\* handleQr: the sixth emission ends the pairing.
SocketQr(s, i) ==
    /\ sess[s].conn[i] = "pairing" /\ Idle(s, {"qrWrite", "lastWrite"})
    /\ sess' = [sess EXCEPT ![s].qrs = IF @ > MaxQr THEN @ ELSE @ + 1]
    /\ tasks' = tasks \cup
          {Task(s, IF sess'[s].qrs > MaxQr THEN "lastWrite" ELSE "qrWrite", "none")}
    /\ UNCHANGED <<line, creds, owner, beats, mapped, processes, used, race>>

\* handleOpen up to its first await; it does not look at `stopped`.
SocketOpen(s, i) ==
    /\ sess[s].conn[i] = "connecting" /\ Idle(s, {"openWrite"})
    /\ sess' = [sess EXCEPT ![s].conn[i] = "open", ![s].attempts = 0,
                            ![s].qrs = 0]
    /\ tasks' = tasks \cup {Task(s, "openWrite", "none")}
    /\ UNCHANGED <<line, creds, owner, beats, mapped, processes, used, race>>

\* handleClose up to its first await, by the decision of classifyDisconnect.
HandleClose(s, i, decision) ==
    LET closed == [sess EXCEPT ![s].conn[i] = "none"]
        reacts == [closed EXCEPT ![s].ready = FALSE]
    IN \/ /\ sess[s].stopped
          /\ sess' = closed /\ UNCHANGED tasks
       \/ /\ ~sess[s].stopped /\ decision = "BANNED"
          /\ sess' = reacts /\ tasks' = tasks \cup {Task(s, "banWrite", "none")}
       \/ /\ ~sess[s].stopped /\ decision = "REPLACED"
          /\ sess' = reacts /\ tasks' = tasks \cup {Task(s, "lastWrite", "none")}
       \/ /\ ~sess[s].stopped /\ decision = "RECONNECT"
          /\ Schedule(s, reacts, tasks)

Elsewhere(s, i) ==
    \E o \in Sessions : \E j \in LiveSlots(sess[o]) : <<o, j>> # <<s, i>>

\* A connection ends: the network or WhatsApp drops it, the account is banned,
\* or a second socket of the same number takes its place (conflict 440).
SocketClose(s, i, decision) ==
    /\ i \in LiveSlots(sess[s])
    /\ Idle(s, {"reconWrite", "banWrite", "lastWrite"})
    /\ \/ /\ decision = "REPLACED" /\ sess[s].conn[i] # "pairing"
          /\ Elsewhere(s, i) /\ UNCHANGED used
       \/ /\ decision = "BANNED" /\ sess[s].conn[i] # "pairing"
          /\ Spend("drops", MaxDrops)
       \/ /\ decision = "RECONNECT" /\ Spend("drops", MaxDrops)
    /\ HandleClose(s, i, decision)
    /\ UNCHANGED <<line, creds, owner, beats, mapped, processes, race>>

\* The QR code is scanned: WhatsApp stores the device and asks for a restart.
SocketScanned(s, i) ==
    /\ sess[s].conn[i] = "pairing" /\ Idle(s, {"reconWrite", "lastWrite"})
    /\ creds' = TRUE
    /\ HandleClose(s, i, "RECONNECT")
    /\ UNCHANGED <<line, owner, beats, mapped, processes, used, race>>

-----------------------------------------------------------------------------
(* The rest of those handlers.                                             *)

\* prisma.account.update.  On a removed row it throws, and nothing in the
\* process catches what an event handler throws.
SetStatus(t, status, more) ==
    IF line.status = "DELETED"
    THEN ProcessGone(InCli(sess[t.s]), sess, tasks \ {t}, beats) /\ UNCHANGED line
    ELSE /\ line' = [line EXCEPT !.status = status]
         /\ tasks' = (tasks \ {t}) \cup more
         /\ UNCHANGED <<sess, mapped, beats, processes>>

Writes(t) ==
    /\ \/ /\ t.at = "qrWrite" /\ SetStatus(t, "QR_PENDING", {})
          /\ UNCHANGED creds
       \/ /\ t.at = "openWrite"
          /\ SetStatus(t, "CONNECTED", {Task(t.s, "openReady", "none")})
          /\ UNCHANGED creds
       \/ /\ t.at = "reconWrite"
          /\ SetStatus(t, "RECONNECTING", {Task(t.s, "arm", "none")})
          /\ UNCHANGED creds
       \/ /\ t.at = "lastWrite"
          /\ SetStatus(t, "DISCONNECTED", {Task(t.s, "lastStop", "none")})
          /\ UNCHANGED creds
       \/ /\ t.at = "banWrite"
          /\ SetStatus(t, "BANNED", {Task(t.s, "lastStop", "none")})
          /\ creds' = (creds /\ line.status = "DELETED")
    /\ UNCHANGED <<owner, used, race>>

\* ready = true; those who waited for it go on.  `pair` ends there without
\* stop(), `send` sends its message.
OpenReady(t) ==
    LET s == t.s  T == tasks \ {t}
        ready == [sess EXCEPT ![s].ready = TRUE]
    IN /\ t.at = "openReady"
       /\ IF InCli(sess[s]) /\ cli = "pair"
          THEN ProcessGone(TRUE, ready, T, beats)
          ELSE /\ sess' = ready
               /\ tasks' = T \cup IF InCli(sess[s]) /\ cli = "send"
                                  THEN {Task(s, "sending", "none")} ELSE {}
               /\ UNCHANGED <<beats, mapped, processes>>
       /\ UNCHANGED <<line, creds, owner, used, race>>

\* Fault: the timer is not armed.
ArmNothing(t) ==
    /\ t.at = "arm" /\ tasks' = tasks \ {t}
    /\ UNCHANGED <<line, creds, owner, beats, mapped, sess, processes, used, race>>

\* reconnectTimer is assigned; a timer it still held is forgotten, not cleared.
Arm(t) ==
    /\ t.at = "arm" /\ ~(sess[t.s].timer /\ sess[t.s].loose)
    /\ sess' = [sess EXCEPT ![t.s].timer = TRUE,
                            ![t.s].loose = @ \/ sess[t.s].timer]
    /\ tasks' = tasks \ {t}
    /\ UNCHANGED <<line, creds, owner, beats, mapped, processes, used, race>>

\* The steps of a handler that end in stop(): a terminal state, a removal after
\* sock.logout(), the end of `send`.
Stops(t) ==
    /\ \/ /\ t.at = "lastStop" /\ StopThen(t.s, "terminal", sess, tasks \ {t})
       \/ /\ t.at = "sending" /\ StopThen(t.s, "exit", sess, tasks \ {t})
       \/ /\ t.at = "logout"
          /\ StopThen(t.s, IF InCli(sess[t.s]) THEN "cliLogout" ELSE "remove",
                      sess, tasks \ {t})
    /\ UNCHANGED <<owner, used>>

-----------------------------------------------------------------------------
(* SessionManager and the routes of the internal API.                      *)

\* The internal API and the health check start when the bootstrap is over.
Serving == worker = "up" /\ \A t \in tasks : t.then # "boot"
Request ==
    Serving /\ Room /\ line.status # "DELETED" /\ Spend("requests", MaxRequests)

\* manager.stop(id), then what the route does next.
ManagerStop(then, T) ==
    IF mapped # Nobody THEN StopThen(mapped, then, sess, T)
    ELSE IF then = "exit"
    THEN ProcessGone(FALSE, sess, T, beats) /\ UNCHANGED <<creds, line, race>>
    ELSE After(Nobody, then, sess, T, beats) /\ UNCHANGED race

\* Fault: spawn replaces the entry of the map.
ManagerSpawnAlways(T) == Spawned("spawn", sess, T)

\* manager.spawn(id): an entry in the map is taken for a live session.
ManagerSpawn(T) ==
    IF mapped # Nobody THEN tasks' = T /\ UNCHANGED <<sess, mapped>>
    ELSE Spawned("spawn", sess, T)

\* POST pause and resume: the row first.
SetEnabled(on) ==
    /\ Request
    /\ line' = [line EXCEPT !.enabled = on]
    /\ tasks' = tasks \cup {IF on THEN Task(Nobody, "spawn", "none")
                            ELSE Task(Nobody, "stop", "unmap")}
    /\ UNCHANGED <<creds, owner, beats, mapped, sess, processes, race>>
Pause == SetEnabled(FALSE)
Resume == SetEnabled(TRUE)
RouteGoesOn(t) ==
    /\ t.s = Nobody
    /\ \/ /\ t.at = "spawn" /\ ManagerSpawn(tasks \ {t})
          /\ UNCHANGED <<line, creds, beats, processes, race>>
       \/ /\ t.at = "stop" /\ ManagerStop(t.then, tasks \ {t})
       \/ /\ t.at = "delete"
          /\ line' = [line EXCEPT !.status = "DELETED"]
          /\ tasks' = tasks \ {t}
          /\ UNCHANGED <<sess, mapped, creds, beats, processes, race>>
    /\ UNCHANGED <<owner, used>>

Reconnect == Request /\ ManagerStop("respawn", tasks) /\ UNCHANGED owner
OpenQr == Request /\ ManagerStop("repair", tasks) /\ UNCHANGED owner

\* The client of the QR stream goes away, or the stream was ended.
CloseQr(s) ==
    /\ sess[s].host = "qr" /\ ~sess[s].stopped /\ Room
    /\ StopThen(s, "none", sess, tasks) /\ UNCHANGED <<owner, used>>

\* POST remove: logoutAndWipe of the session in the map, then the row.
Remove ==
    /\ Request
    /\ IF mapped = Nobody
       THEN UNCHANGED sess /\ tasks' = tasks \cup {Task(Nobody, "delete", "none")}
       ELSE /\ sess' = [sess EXCEPT ![mapped].stopped = TRUE]
            /\ tasks' = tasks \cup {Task(mapped, "logout", "none")}
    /\ UNCHANGED <<line, creds, owner, beats, mapped, processes, race>>

\* Fault: only accounts with an entry in the map are looked at.
HealthReadOfMap ==
    /\ Serving /\ Room /\ line.status = "CONNECTED" /\ mapped # Nobody
    /\ Task(Nobody, "checking", "none") \notin tasks
    /\ tasks' = tasks \cup {Task(Nobody, "checking", "none")}
    /\ UNCHANGED <<line, creds, owner, beats, mapped, sess, processes, used, race>>

\* runHealthCheck: the rows that say CONNECTED are read, then looked at.  A
\* connection under way may or may not be isOpen; last_seen_at may be old
\* only after a stall or an outage of the worker.
HealthRead ==
    /\ Serving /\ Room /\ line.status = "CONNECTED"
    /\ Task(Nobody, "checking", "none") \notin tasks
    /\ tasks' = tasks \cup {Task(Nobody, "checking", "none")}
    /\ UNCHANGED <<line, creds, owner, beats, mapped, sess, processes, used,
                   race>>

HealthAct(t) ==
    LET r == sess[mapped]  T == tasks \ {t}
    IN /\ t.at = "checking"
       /\ \/ /\ mapped = Nobody
             /\ ManagerSpawn(T)
             /\ UNCHANGED <<line, creds, beats, processes, race>>
          \/ /\ mapped # Nobody
             /\ IsOpen(r) => used.lapses + used.crashes > 0
             /\ StopThen(mapped, "respawn", sess, T)
          \/ /\ mapped # Nobody /\ r.sock \in LiveSlots(r)
             /\ IF line.status = "DELETED"     \* lastSeenAt of no row: it throws
                THEN ProcessGone(FALSE, sess, T, beats)
                ELSE tasks' = T /\ UNCHANGED <<beats, mapped, sess, processes>>
             /\ UNCHANGED <<line, creds, race>>
       /\ UNCHANGED <<owner, used>>

-----------------------------------------------------------------------------
(* Processes.                                                              *)

\* main(): bootstrap spawns the account unless it is banned or paused.
Boot ==
    /\ worker = "down" /\ worker' = "up"
    /\ IF line.enabled /\ line.status \notin {"BANNED", "DELETED"}
       THEN Spawned("boot", sess, tasks) ELSE UNCHANGED <<sess, tasks, mapped>>
    /\ UNCHANGED <<line, creds, owner, beats, cli, used, race>>

WorkerCrash ==
    /\ worker = "up" /\ Spend("crashes", MaxCrashes)
    /\ ProcessGone(FALSE, sess, tasks, beats)
    /\ UNCHANGED <<line, creds, owner, race>>

\* SIGTERM: the internal API and the timers stop, then manager.shutdown().
Shutdown ==
    /\ worker = "up" /\ Spend("crashes", MaxCrashes)
    /\ worker' = "closing"
    /\ tasks' = tasks \cup {Task(Nobody, "stop", "exit")}
    /\ UNCHANGED <<line, creds, owner, beats, mapped, sess, cli, race>>

\* cmdPair (a row of its own, new to the worker), cmdSend and cmdLogout.
CliStarts(job) ==
    /\ cli = "off" /\ Room /\ line.status # "DELETED"
    /\ job = "pair" => /\ line.status = "DISCONNECTED" /\ mapped = Nobody
                       /\ ~creds
    /\ Spend("requests", MaxRequests)
    /\ cli' = job
    /\ Opened("cli", "cli", sess, tasks)
    /\ UNCHANGED <<line, creds, owner, beats, mapped, worker, race>>

\* waitUntilReady times out, or the operator presses Ctrl+C: no stop().
CliGivesUp ==
    /\ cli \in {"pair", "send"}
    /\ ProcessGone(TRUE, sess, tasks, beats)
    /\ UNCHANGED <<line, creds, owner, used, race>>

TaskStep(t) ==
    \/ Acquire(t) \/ OpenSocket(t) \/ Release(t)
    \/ Writes(t) \/ OpenReady(t) \/ Arm(t) \/ Stops(t) \/ RouteGoesOn(t)
    \/ HealthAct(t)
Timers(s) == TimerFires(s, TRUE) \/ TimerFires(s, FALSE)
Decisions == {"BANNED", "REPLACED", "RECONNECT"}

FleetStep ==
    \/ \E t \in tasks : TaskStep(t)
    \/ \E s \in Sessions : Timers(s) \/ CloseQr(s)
    \/ \E s \in Sessions, i \in Slots :
          \/ SocketQr(s, i) \/ SocketScanned(s, i) \/ SocketOpen(s, i)
          \/ \E d \in Decisions : SocketClose(s, i, d)
    \/ KeyExpires \/ KeyLapses \/ HealthRead
    \/ Pause \/ Resume \/ Reconnect \/ OpenQr \/ Remove
    \/ Boot \/ WorkerCrash \/ Shutdown \/ CliGivesUp
    \/ \E job \in {"pair", "send", "logout"} : CliStarts(job)
FleetNext == (PastRace \/ ~race) /\ FleetStep

FleetSpec == FleetInit /\ [][FleetNext]_fleetVars
=============================================================================
