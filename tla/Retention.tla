------------------------------ MODULE Retention ------------------------------
(***************************************************************************)
(* The retention job of the worker: it opens the partitions of `messages`  *)
(* for the months ahead, drops the ones that have left the window, sweeps  *)
(* the attempts they leave behind (no foreign key does) and cuts two       *)
(* tables by date.  It runs at boot and once a day; the flag that keeps    *)
(* two ticks apart does not cover the run of the boot.                     *)
(*                                                                         *)
(* Time is in days, and every month has DaysPerMonth of them; a row is the *)
(* day it was written.  The hour of the daily run is left out, since a day *)
(* may pass without one anyway, and so are the two tables cut by date.     *)
(***************************************************************************)
EXTENDS Integers, FiniteSets

CONSTANTS
    DaysPerMonth, RetentionDays,
    MonthsAhead,    \* partitions opened ahead of the current month: no more
                    \* than the two of the migration
    LastDay,        \* bound: days of the calendar
    MaxMessages,    \* bound: days on which a message is accepted
    MaxCutRuns       \* bound: queries that fail, and crashes

ASSUME RetentionAssumption ==
    /\ DaysPerMonth \in Nat \ {0} /\ RetentionDays \in Nat \ {0}
    /\ MonthsAhead \in 0..2
    /\ LastDay \in Nat /\ MaxMessages \in Nat /\ MaxCutRuns \in Nat

VARIABLES
    today,          \* the clock
    partitions,     \* months whose partition of messages exists
    messages,       \* days whose messages are in the table
    attempts,       \* days of messages whose attempts are in message_attempts
    jobs,           \* the run of the boot and the run of the tick
    lastRunDate,    \* RetentionScheduler.lastRunDate
    cutRuns,         \* used of MaxCutRuns
    stored,         \* history: days on which a message was accepted
    ensured,        \* history: the month of the last complete opening
    listed,         \* history: the day a complete run listed what to drop
    cutShort        \* history: a run ended between a drop and its sweep

retentionVars == <<today, partitions, messages, attempts, jobs,
                   lastRunDate, cutRuns, stored, ensured, listed, cutShort>>

Never == -1
Jobs == {"boot", "tick"}
MonthOf(day) == day \div DaysPerMonth
\* the bound of a partition: the first day of the month after its own
EndOf(month) == (month + 1) * DaysPerMonth
Resting == [at |-> "idle", ahead |-> 0, began |-> 0, listed |-> 0, doomed |-> {},
            dropped |-> FALSE]
Tables == <<partitions, messages, attempts>>
Histories == <<stored, ensured, listed, cutShort>>

Set(j, job) == jobs' = [jobs EXCEPT ![j] = job]
BeginRun(j) == Set(j, [Resting EXCEPT !.at = "open", !.began = today])

-----------------------------------------------------------------------------
(* runRetention *)

\* faulty: one month ahead less
OpenTooFew(j) ==
    /\ jobs[j].at = "open"
    /\ partitions' = partitions \cup {MonthOf(today) + jobs[j].ahead}
    /\ IF jobs[j].ahead + 1 < MonthsAhead
       THEN Set(j, [jobs[j] EXCEPT !.ahead = @ + 1]) /\ UNCHANGED ensured
       ELSE /\ Set(j, [jobs[j] EXCEPT !.at = "list"])
            /\ ensured' = IF MonthOf(jobs[j].began) = MonthOf(today)
                          THEN MonthOf(today) ELSE ensured
    /\ UNCHANGED <<today, messages, attempts, lastRunDate, cutRuns, stored,
                   listed, cutShort>>

\* ensureFuturePartitions, one month: its name is computed from now() each time
Open(j) ==
    /\ jobs[j].at = "open"
    /\ partitions' = partitions \cup {MonthOf(today) + jobs[j].ahead}
    /\ IF jobs[j].ahead < MonthsAhead
       THEN Set(j, [jobs[j] EXCEPT !.ahead = @ + 1]) /\ UNCHANGED ensured
       ELSE /\ Set(j, [jobs[j] EXCEPT !.at = "list"])
            /\ ensured' = IF MonthOf(jobs[j].began) = MonthOf(today)
                          THEN MonthOf(today) ELSE ensured
    /\ UNCHANGED <<today, messages, attempts, lastRunDate, cutRuns, stored,
                   listed, cutShort>>

\* faulty: the month has begun to leave the window, not left it
ExpiredByStart(month) == month * DaysPerMonth <= today - RetentionDays

Expired(month) == EndOf(month) <= today - RetentionDays

ListExpired(j) ==
    /\ jobs[j].at = "list"
    /\ Set(j, [jobs[j] EXCEPT !.at = "drop", !.listed = today,
                  !.doomed = {m \in partitions : Expired(m)}])
    /\ UNCHANGED <<today, Tables, lastRunDate, cutRuns, Histories>>

\* dropExpiredPartitions, one partition after the other, the oldest first
DropExpired(j) ==
    /\ jobs[j].at = "drop"
    /\ IF jobs[j].doomed = {}
       THEN /\ Set(j, [jobs[j] EXCEPT
                        !.at = IF jobs[j].dropped THEN "sweep" ELSE "cut"])
            /\ UNCHANGED <<partitions, messages>>
       ELSE LET doomed == jobs[j].doomed
                m == CHOOSE m \in doomed : \A n \in doomed : m <= n IN
            /\ partitions' = partitions \ {m}
            /\ messages' = {d \in messages : MonthOf(d) # m}
            /\ Set(j, [jobs[j] EXCEPT !.doomed = @ \ {m}, !.dropped = TRUE])
    /\ UNCHANGED <<today, attempts, lastRunDate, cutRuns, Histories>>

\* the attempts without a message, looked for only when something was dropped
Sweep(j) ==
    /\ jobs[j].at = "sweep"
    /\ attempts' = attempts \cap messages
    /\ cutShort' = FALSE
    /\ Set(j, [jobs[j] EXCEPT !.at = "cut", !.dropped = FALSE])
    /\ UNCHANGED <<today, partitions, messages, lastRunDate, cutRuns, stored,
                   ensured, listed>>

\* the last deletes; the run of a tick marks the day it began on
Cut(j) ==
    /\ jobs[j].at = "cut"
    /\ listed' = IF jobs[j].listed > listed THEN jobs[j].listed ELSE listed
    /\ lastRunDate' = IF j = "tick" THEN jobs[j].began ELSE today
    /\ Set(j, Resting)
    /\ UNCHANGED <<today, partitions, messages, attempts, cutRuns, stored, ensured,
                   cutShort>>

\* a query throws: the run ends there, and no day is marked
Fail(j) ==
    /\ jobs[j].at # "idle" /\ cutRuns < MaxCutRuns
    /\ cutRuns' = cutRuns + 1
    /\ cutShort' = (cutShort \/ jobs[j].dropped)
    /\ Set(j, Resting)
    /\ UNCHANGED <<today, Tables, lastRunDate, stored, ensured, listed>>

-----------------------------------------------------------------------------
(* RetentionScheduler and the world *)

\* tick: not while running, once a day, in its hour
Tick ==
    /\ jobs["tick"].at = "idle" /\ lastRunDate # today
    /\ BeginRun("tick")
    /\ UNCHANGED <<today, Tables, lastRunDate, cutRuns, Histories>>

\* the worker dies and starts again, at once or after a long stop
Restart ==
    /\ cutRuns < MaxCutRuns
    /\ cutRuns' = cutRuns + 1
    /\ cutShort' = (cutShort \/ \E j \in Jobs : jobs[j].dropped)
    /\ jobs' = [j \in Jobs |-> IF j = "boot" THEN [Resting EXCEPT !.at = "down"]
                                             ELSE Resting]
    /\ lastRunDate' = Never
    /\ UNCHANGED <<today, Tables, stored, ensured, listed>>

\* ensurePartitionsOnBoot
BootRun ==
    /\ jobs["boot"].at = "down"
    /\ BeginRun("boot")
    /\ UNCHANGED <<today, Tables, lastRunDate, cutRuns, Histories>>

\* a message of today and its attempt; without a partition the INSERT fails
Accept ==
    /\ Cardinality(stored) < MaxMessages
    /\ MonthOf(today) \in partitions
    /\ messages' = messages \cup {today}
    /\ stored' = stored \cup {today}
    /\ attempts' = attempts \cup {today}
    /\ UNCHANGED <<today, partitions, jobs, lastRunDate, cutRuns, ensured,
                   listed, cutShort>>

\* midnight; a run is over by the end of the day after its own
Elapse ==
    /\ today < LastDay
    /\ \A j \in Jobs : jobs[j].at \in {"idle", "down"} \/ jobs[j].began = today
    /\ today' = today + 1
    /\ UNCHANGED <<Tables, jobs, lastRunDate, cutRuns, Histories>>

\* the migration opens the month before, the current one and two ahead
RetentionInit ==
    /\ today = 0
    /\ partitions = -1..2
    /\ messages = {} /\ attempts = {}
    /\ jobs = [j \in Jobs |-> IF j = "boot" THEN [Resting EXCEPT !.at = "down"]
                                            ELSE Resting]
    /\ lastRunDate = Never /\ cutRuns = 0
    /\ stored = {} /\ ensured = 0 /\ listed = 0 /\ cutShort = FALSE

RunStep(j) ==
    Open(j) \/ ListExpired(j) \/ DropExpired(j) \/ Sweep(j) \/ Cut(j) \/ Fail(j)

RetentionNext ==
    \/ \E j \in Jobs : jobs[j].at # "down" /\ RunStep(j)
    \/ jobs["boot"].at # "down" /\ (Tick \/ Restart)
    \/ BootRun \/ Accept \/ Elapse

RetentionSpec == RetentionInit /\ [][RetentionNext]_retentionVars

-----------------------------------------------------------------------------
(* Properties *)

\* The month turns onto an open partition, so messages are accepted, unless
\* the opening has not once succeeded, within one and the same month, in the
\* MonthsAhead months before this one: a month's turn in the middle of the
\* loop, or the job of some days failing, is not enough.
MonthAlwaysOpen ==
    MonthOf(today) \notin partitions => ensured + MonthsAhead < MonthOf(today)

\* What is younger than the window is kept whatever runs overlap; what is
\* older by a month than the window a complete run looked through is gone, the
\* attempts too, unless a run was cut short between its drop and its sweep.
WindowKept ==
    /\ \A d \in stored : today - d <= RetentionDays => d \in messages
    /\ (~cutShort /\ \A j \in Jobs : jobs[j].at \in {"idle", "down"}) =>
        \A d \in messages \cup attempts :
            listed - d < RetentionDays + DaysPerMonth
=============================================================================
