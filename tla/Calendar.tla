------------------------------ MODULE Calendar ------------------------------
(***************************************************************************)
(* The tenant's calendar: the daily quota, the counters of the accounts    *)
(* and the hours of silence all hang on when a local day or hour begins,   *)
(* which the code finds by stepping through instants and asking for the    *)
(* local date of each.                                                     *)
(*                                                                         *)
(* An instant is a number of ticks, TicksPerMinute of them in a minute     *)
(* (the seconds the code keeps or clears), MinutesPerHour minutes in an    *)
(* hour and HoursPerDay hours in a day; the code's 48, 60, 180 and 25 * 60 *)
(* steps are written in these.  A zone is an offset in ticks, and another  *)
(* one from an instant of change on.  setUTCSeconds clears what an instant *)
(* has of a minute.                                                        *)
(***************************************************************************)
EXTENDS Integers

CONSTANTS TicksPerMinute, MinutesPerHour, HoursPerDay,
    SilentStart, SilentEnd,     \* DEFAULT_HUMANIZE
    Instants,                   \* the instants `now` may be
    Zones                       \* records [before, after, change]

ASSUME CalendarAssumption ==
    /\ {TicksPerMinute, MinutesPerHour, HoursPerDay} \subseteq Nat \ {0}
    /\ SilentStart \in 0..(HoursPerDay - 1) /\ SilentEnd \in 0..(HoursPerDay - 1)
    /\ Instants \subseteq Nat
    /\ \A z \in Zones : {z.before, z.after, z.change} \subseteq Int

VARIABLES now, zone,    \* what is asked
          answer        \* what the functions return; nothing before

calendarVars == <<now, zone, answer>>

Minute == TicksPerMinute
Hour == MinutesPerHour * Minute
DayLength == HoursPerDay * Hour

LocalTime(t) == t + (IF t < zone.change THEN zone.before ELSE zone.after)
LocalDay(t) == LocalTime(t) \div DayLength
LocalHour(t) == (LocalTime(t) % DayLength) \div Hour
ClearSeconds(t) == t - (t % Minute)

\* the first of the steps from t on that were found, or else none
FirstStep(found, t, step, none) ==
    IF found = {} THEN none
    ELSE t + step * CHOOSE i \in found : \A k \in found : i <= k

\* hour by hour until the date changes, then minute by minute
NextLocalMidnight(t) ==
    LET turned(u) == LocalDay(u) # LocalDay(t)
        hour == FirstStep({i \in 1..2 * HoursPerDay : turned(t + i * Hour)},
                          t, Hour, t + DayLength)
        last == hour - Hour
    IN FirstStep({i \in 1..MinutesPerHour : turned(last + i * Minute)},
                 last, Minute, hour)

\* faulty: takes the instant a day before the next midnight as it is
StartOfLocalDayUnrefined(t) == NextLocalMidnight(t) - DayLength

\* a day before the next midnight, then by minutes to where the date changes
StartOfLocalDay(t) ==
    LET guess == NextLocalMidnight(t) - DayLength
        steps == 3 * MinutesPerHour
        sameDay(u) == LocalDay(u) = LocalDay(t)
    IN IF sameDay(guess)
       THEN FirstStep({i \in 1..steps : ~sameDay(guess - i * Minute)},
                      guess, -Minute, guess - (steps + 1) * Minute) + Minute
       ELSE FirstStep({i \in 1..steps : sameDay(guess + i * Minute)},
                      guess, Minute, guess + steps * Minute)

StartOfLocalHour(t) ==
    LET left == {i \in 1..MinutesPerHour :
                    LocalHour(t - i * Minute) # LocalHour(t)}
    IN ClearSeconds(FirstStep(left, t, -Minute,
                              t - (MinutesPerHour + 1) * Minute) + Minute)

IsSilentHour(hour) ==
    CASE SilentStart = SilentEnd -> FALSE
      [] SilentStart < SilentEnd -> hour >= SilentStart /\ hour < SilentEnd
      [] OTHER -> hour >= SilentStart \/ hour < SilentEnd

\* 0 when a message may go now
SilentHourDelay(t, urgent) ==
    LET awake == {i \in 1..(HoursPerDay + 1) * MinutesPerHour :
                    LocalHour(t + i * Minute) = SilentEnd}
        end == ClearSeconds(FirstStep(awake, t, Minute, t))
    IN IF urgent \/ ~IsSilentHour(LocalHour(t)) \/ end < t THEN 0 ELSE end - t

CalendarInit == now \in Instants /\ zone \in Zones /\ answer = {}

Compute ==
    /\ answer = {}
    /\ answer' = {[midnight |-> NextLocalMidnight(now),
                   day |-> StartOfLocalDay(now), hour |-> StartOfLocalHour(now),
                   wait |-> SilentHourDelay(now, FALSE)]}
    /\ UNCHANGED <<now, zone>>

CalendarSpec == CalendarInit /\ [][Compute]_calendarVars

-----------------------------------------------------------------------------
(* Properties *)

\* What the loops find against what they are for: a day begins, and the next
\* one, within the first minute of it (the seconds of `now` are kept) and
\* nowhere but at a change of the local date, also on the days a change of
\* offset makes shorter or longer; an hour begins at its first tick (but for
\* the hour that such a day has twice); and the silence ends at the very first
\* tick of its last hour, so that no message is released into it.
CalendarExact ==
    \A a \in answer :
    LET midnight == a.midnight
        day == a.day
        hour == a.hour
        waited == now + a.wait
    IN /\ \A t \in now..(midnight - Minute) : LocalDay(t) = LocalDay(now)
       /\ LocalDay(midnight) = LocalDay(now) + 1
       /\ day <= now /\ \A t \in day..now : LocalDay(t) = LocalDay(now)
       /\ LocalDay(day - Minute) # LocalDay(now)
       /\ hour <= now /\ \A t \in hour..now : LocalHour(t) = LocalHour(now)
       /\ LocalHour(now - Hour) # LocalHour(now) => LocalTime(hour) % Hour = 0
       /\ IsSilentHour(LocalHour(now)) =>
            /\ waited > now /\ ~IsSilentHour(LocalHour(waited))
            /\ IsSilentHour(LocalHour(waited - 1))
=============================================================================
