------------------------------- MODULE Alerts -------------------------------
(***************************************************************************)
(* The alert service and the pool monitor of the worker.  Every minute a   *)
(* tick counts the lines, looks at the queue and at the health of each     *)
(* account; a session that ends for good starts a handler of its own.  All *)
(* of them ring through fire(), which looks for the mark of a recent alert *)
(* in Redis, delivers, and only then writes the mark: setInterval does not *)
(* wait for the previous tick, so several fires may be between the two.    *)
(*                                                                         *)
(* Every chain of channels ends in the panel, which always accepts: which  *)
(* channel delivered is left out, that one did is not.  Time passes in     *)
(* monitor intervals; keys of Redis are what is left of their TTL.         *)
(***************************************************************************)
EXTENDS Naturals, FiniteSets

CONSTANTS
    Accounts,   \* the accounts of the pool
    Tasks,      \* ticks and terminal alerts under way at a time
    HalfHour,   \* monitor intervals in 30 minutes; an hour is twice that
    MaxMoves,   \* bound: changes of lines, of health and of the queue
    MaxThrows,  \* bound: queries that throw
    MaxTicks    \* bound: rounds of the monitor; 0 means no bound

ASSUME AlertsAssumption ==
    /\ IsFiniteSet(Accounts) /\ IsFiniteSet(Tasks)
    /\ HalfHour \in Nat \ {0}
    /\ MaxMoves \in Nat /\ MaxThrows \in Nat /\ MaxTicks \in Nat

VARIABLES
    lines,       \* accounts.status, and the readiness of the session with it
    health,      \* what the last messages of an account say
    backlog,     \* whether the outbound queue is over its threshold
    marks,       \* alert:sent:<type>:<entity>: TTL left, 0 when absent
    escalation,  \* alert:escalate:POOL_EMPTY: TTL left
    quarantine,  \* acct:<id>:quarantine: TTL left
    alerting,       \* the handlers under way
    rung,        \* history: deliveries of a key by what is left of their window
    moves, ticks, throws    \* used of the bounds

alertVars == <<lines, health, backlog, marks, escalation, quarantine, alerting,
               rung, moves, ticks, throws>>

Global == "global"
PoolTypes == {"POOL_EMPTY", "POOL_LOW", "QUEUE_BACKED_UP"}
AccountTypes == {"ACCOUNT_SUSPECT", "ACCOUNT_BANNED", "ACCOUNT_DISCONNECTED"}
AlertKeys == (PoolTypes \X {Global}) \cup (AccountTypes \X Accounts)

\* dedupWindowMs of the rules
DedupWindow(key) == IF key[1] \in PoolTypes THEN HalfHour ELSE 2 * HalfHour
Idling == [at |-> "idle", key |-> <<"POOL_EMPTY", Global>>, none |-> FALSE,
           left |-> {}, failing |-> {}]

Connected == {a \in Accounts : lines[a] = "up"}
Standing == {a \in Accounts : lines[a] \notin {"banned", "removed"}}

GoOn(t, at) == alerting' = [alerting EXCEPT ![t].at = at]
Ring(t, type, entity) ==
    alerting' = [alerting EXCEPT ![t].at = "get", ![t].key = <<type, entity>>]
Finish(t) == alerting' = [alerting EXCEPT ![t] = Idling]
\* where the caller of fire() goes on
Return(t) ==
    CASE alerting[t].key[1] \in {"POOL_EMPTY", "POOL_LOW"} -> GoOn(t, "queue")
      [] alerting[t].key[1] = "QUEUE_BACKED_UP" -> GoOn(t, "health")
      [] alerting[t].key[1] = "ACCOUNT_SUSPECT" -> GoOn(t, "next")
      [] OTHER -> Finish(t)

-----------------------------------------------------------------------------
(* fire *)

\* faulty: what is suppressed starts its window again
ReadMarkSlides(t) ==
    /\ alerting[t].at = "get"
    /\ IF marks[alerting[t].key] > 0
       THEN /\ marks' =
               [marks EXCEPT ![alerting[t].key] = DedupWindow(alerting[t].key)]
            /\ Return(t)
       ELSE GoOn(t, "deliver") /\ UNCHANGED marks
    /\ UNCHANGED <<escalation, quarantine, rung>>

\* the dedup key, and whether it is still within its window
ReadMark(t) ==
    /\ alerting[t].at = "get"
    /\ IF marks[alerting[t].key] > 0 THEN Return(t) ELSE GoOn(t, "deliver")
    /\ UNCHANGED <<marks, escalation, quarantine, rung>>

\* the chain of channels; the panel at its end always takes it
Deliver(t) ==
    /\ alerting[t].at = "deliver"
    /\ rung' = [rung EXCEPT
                ![alerting[t].key][DedupWindow(alerting[t].key)] = @ + 1]
    /\ GoOn(t, "mark")
    /\ UNCHANGED <<marks, escalation, quarantine>>

\* faulty: the mark is written already expired
MarkAtOnce(t) ==
    /\ alerting[t].at = "mark"
    /\ marks' = [marks EXCEPT ![alerting[t].key] = 0]
    /\ IF alerting[t].key[1] = "POOL_EMPTY" THEN GoOn(t, "escalate") ELSE Return(t)
    /\ UNCHANGED <<escalation, quarantine, rung>>

MarkSent(t) ==
    /\ alerting[t].at = "mark"
    /\ marks' = [marks EXCEPT ![alerting[t].key] = DedupWindow(alerting[t].key)]
    /\ IF alerting[t].key[1] = "POOL_EMPTY" THEN GoOn(t, "escalate") ELSE Return(t)
    /\ UNCHANGED <<escalation, quarantine, rung>>

\* a key nothing ever reads
Escalate(t) ==
    /\ alerting[t].at = "escalate"
    /\ escalation' = HalfHour
    /\ Return(t)
    /\ UNCHANGED <<marks, quarantine, rung>>

-----------------------------------------------------------------------------
(* tick *)

CountConnected(t) ==
    /\ alerting[t].at = "active"
    /\ IF Cardinality(Connected) >= 2
       THEN GoOn(t, "clear")
       ELSE alerting' = [alerting EXCEPT ![t].at = "total",
                                         ![t].none = (Connected = {})]
    /\ UNCHANGED <<marks, escalation, quarantine, rung>>

CountTotal(t) ==
    /\ alerting[t].at = "total"
    /\ LET total == Cardinality(Standing) IN
       IF alerting[t].none /\ total > 0 THEN Ring(t, "POOL_EMPTY", Global)
       ELSE IF total >= 2 THEN Ring(t, "POOL_LOW", Global)
       ELSE GoOn(t, "queue")
    /\ UNCHANGED <<marks, escalation, quarantine, rung>>

ClearEscalation(t) ==
    /\ alerting[t].at = "clear"
    /\ escalation' = 0
    /\ GoOn(t, "queue")
    /\ UNCHANGED <<marks, quarantine, rung>>

CheckQueueDepth(t) ==
    /\ alerting[t].at = "queue"
    /\ IF backlog THEN Ring(t, "QUEUE_BACKED_UP", Global) ELSE GoOn(t, "health")
    /\ UNCHANGED <<marks, escalation, quarantine, rung>>

ListAccounts(t) ==
    /\ alerting[t].at = "health"
    /\ alerting' = [alerting EXCEPT ![t].at = "next", ![t].left = Connected,
           ![t].failing = {a \in Connected : health[a] = "failing"}]
    /\ UNCHANGED <<marks, escalation, quarantine, rung>>

\* the next account; one in cooldown or in quarantine is passed over
NextAccount(t) ==
    /\ alerting[t].at = "next"
    /\ IF alerting[t].left = {} THEN Finish(t)
       ELSE \E a \in alerting[t].left :
            \/ alerting' = [alerting EXCEPT ![t].left = @ \ {a}]
            \/ /\ quarantine[a] = 0
               /\ alerting' = [alerting EXCEPT ![t].at = "messages",
                      ![t].key = <<"ACCOUNT_SUSPECT", a>>,
                      ![t].left = @ \ {a}]
    /\ UNCHANGED <<marks, escalation, quarantine, rung>>

\* evaluateAccountHealth: failures as listed, deliveries as read now
Suspension(t, a) ==
    CASE a \in alerting[t].failing -> HalfHour
      [] health[a] = "unheard" -> 2 * HalfHour
      [] OTHER -> 0

Evaluate(t) ==
    /\ alerting[t].at = "messages"
    /\ LET a == alerting[t].key[2] IN
       IF Suspension(t, a) > 0
       THEN /\ quarantine' = [quarantine EXCEPT ![a] = Suspension(t, a)]
            /\ GoOn(t, "event")
       ELSE GoOn(t, "next") /\ UNCHANGED quarantine
    /\ UNCHANGED <<marks, escalation, rung>>

RecordSuspicion(t) ==
    /\ alerting[t].at = "event"
    /\ GoOn(t, "get")
    /\ UNCHANGED <<marks, escalation, quarantine, rung>>

-----------------------------------------------------------------------------
(* handleTerminalAlert *)

\* the row says now, after the session has ended, which alert it is
ReadRow(t) ==
    /\ alerting[t].at = "row"
    /\ LET a == alerting[t].key[2] IN
       IF lines[a] = "removed" THEN Finish(t)
       ELSE Ring(t, IF lines[a] = "banned" THEN "ACCOUNT_BANNED"
                    ELSE "ACCOUNT_DISCONNECTED", a)
    /\ UNCHANGED <<marks, escalation, quarantine, rung>>

TaskSteps(t) ==
    \/ ReadMark(t) \/ Deliver(t) \/ MarkSent(t) \/ Escalate(t)
    \/ CountConnected(t) \/ CountTotal(t) \/ ClearEscalation(t)
    \/ CheckQueueDepth(t) \/ ListAccounts(t) \/ NextAccount(t) \/ Evaluate(t)
    \/ RecordSuspicion(t) \/ ReadRow(t)

Advance(t) ==
    TaskSteps(t) /\ UNCHANGED <<lines, health, backlog, moves, ticks, throws>>

\* a query throws: tick logs it and ends, what it had still to look at unseen
TickThrows(t) ==
    /\ alerting[t].at # "idle" /\ throws < MaxThrows
    /\ throws' = throws + 1
    /\ Finish(t)
    /\ UNCHANGED <<lines, health, backlog, marks, escalation, quarantine, rung,
                   moves, ticks>>

-----------------------------------------------------------------------------
(* The clock and the world *)

Sooner(ttl) == IF ttl = 0 THEN 0 ELSE ttl - 1
Aged(windows) ==
    [r \in DOMAIN windows |->
        IF r + 1 \in DOMAIN windows THEN windows[r + 1] ELSE 0]

\* an interval passes: setInterval starts a tick whether or not one is under way
IntervalPasses ==
    /\ MaxTicks = 0 \/ ticks < MaxTicks
    /\ ticks' = IF MaxTicks = 0 THEN 0 ELSE ticks + 1
    /\ marks' = [k \in AlertKeys |-> Sooner(marks[k])]
    /\ quarantine' = [a \in Accounts |-> Sooner(quarantine[a])]
    /\ escalation' = Sooner(escalation)
    /\ rung' = [k \in AlertKeys |-> Aged(rung[k])]
    /\ \E t \in Tasks :
        /\ alerting[t].at = "idle"
        /\ GoOn(t, "active")
    /\ UNCHANGED <<lines, health, backlog, moves, throws>>

Moving == moves < MaxMoves /\ moves' = moves + 1
World == <<marks, escalation, quarantine, rung, ticks, throws>>

\* a session ends for good and its handler begins
SessionEnds(a, end) ==
    /\ Moving /\ lines[a] = "up"
    /\ lines' = [lines EXCEPT ![a] = end]
    /\ \E t \in Tasks :
        /\ alerting[t].at = "idle"
        /\ alerting' = [alerting EXCEPT ![t].at = "row",
               ![t].key = <<"ACCOUNT_DISCONNECTED", a>>]
    /\ UNCHANGED <<health, backlog, World>>

\* reconnecting, paired again, paused, resumed, removed
LineMoves(a, to) ==
    /\ Moving /\ lines[a] # to /\ lines[a] # "removed"
    /\ lines' = [lines EXCEPT ![a] = to]
    /\ UNCHANGED <<health, backlog, alerting, World>>

HealthMoves(a, to) ==
    /\ Moving /\ health[a] # to
    /\ health' = [health EXCEPT ![a] = to]
    /\ UNCHANGED <<lines, backlog, alerting, World>>

BacklogMoves ==
    /\ Moving /\ backlog' = ~backlog
    /\ UNCHANGED <<lines, health, alerting, World>>

AlertsInit ==
    /\ lines \in [Accounts -> {"up", "down"}]
    /\ health = [a \in Accounts |-> "fine"]
    /\ backlog = FALSE
    /\ marks = [k \in AlertKeys |-> 0]
    /\ escalation = 0
    /\ quarantine = [a \in Accounts |-> 0]
    /\ alerting = [t \in Tasks |-> Idling]
    /\ rung = [k \in AlertKeys |-> [r \in 1..DedupWindow(k) |-> 0]]
    /\ moves = 0 /\ ticks = 0 /\ throws = 0

AlertsNext ==
    \/ \E t \in Tasks : Advance(t) \/ TickThrows(t)
    \/ IntervalPasses
    \/ \E a \in Accounts :
        \/ \E end \in {"banned", "down"} : SessionEnds(a, end)
        \/ \E to \in {"up", "down", "removed"} : LineMoves(a, to)
        \/ \E to \in {"fine", "failing", "unheard"} : HealthMoves(a, to)
    \/ BacklogMoves

AlertsSpec == AlertsInit /\ [][AlertsNext]_alertVars

\* Redis and PostgreSQL keep answering.  That setInterval keeps firing is for
\* the specification to add: the fairness of IntervalPasses.
AlertsFairness == \A t \in Tasks : WF_alertVars(Advance(t))

-----------------------------------------------------------------------------
(* Properties *)

\* The deliveries of an alert within its window, by what is left of it.
RungWithin(k) == UNION {{r} \X (1..rung[k][r]) : r \in 1..DedupWindow(k)}

\* The mark is written after the delivery, and ticks overlap: within its
\* window an alert is heard at most once for each handler that can be between
\* the two, and once more for each that a failing query kept from its mark.
AlertRepeatsBounded ==
    \A k \in AlertKeys :
        Cardinality(RungWithin(k)) <= Cardinality(Tasks) + throws

\* A pool without a single line rings again, half an hour after half an hour,
\* for as long as it stays empty: the mark and the monitor together do what
\* the escalation key, which nothing reads, does not.
EmptyPoolKeepsAlerting ==
    (<>[](Connected = {} /\ Standing # {})) =>
        []<>(\E t \in Tasks : alerting[t].at = "deliver"
                              /\ alerting[t].key = <<"POOL_EMPTY", Global>>)
=============================================================================
