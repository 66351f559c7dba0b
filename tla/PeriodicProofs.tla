---------------------------- MODULE PeriodicProofs ----------------------------
(***************************************************************************)
(* Theorems about the two components that a clock of the worker drives and *)
(* about the calendar.  The retention job: for any length of the months    *)
(* and of the window, any calendar, and any number of runs that fail.  The *)
(* alerts: for any finite pool, any number of handlers at a time, any      *)
(* window, and any number of queries that throw.  The calendar: for any    *)
(* length of its days and hours, in zones whose offset does not change.    *)
(***************************************************************************)
EXTENDS Retention, Alerts, Calendar, FiniteSetTheorems, WellFoundedInduction,
        TLAPS

-----------------------------------------------------------------------------
(* Retention: days and months *)

LEMMA DaysOfMonth ==
    ASSUME NEW d \in Int
    PROVE  /\ MonthOf(d) \in Int
           /\ MonthOf(d) * DaysPerMonth <= d
           /\ d < EndOf(MonthOf(d))
           /\ EndOf(MonthOf(d)) <= d + DaysPerMonth
  BY RetentionAssumption DEF MonthOf, EndOf

\* The end of a month is no later than the start of the next one.
LEMMA MonthsInOrder ==
    ASSUME NEW m \in Int, NEW n \in Int, m < n
    PROVE  EndOf(m) <= n * DaysPerMonth
  <1>1. \A k \in Nat : 0 <= k * DaysPerMonth
    BY RetentionAssumption
  <1>2. 0 <= (n - m - 1) * DaysPerMonth
    BY <1>1
  <1> QED
    BY <1>2, RetentionAssumption DEF EndOf

\* A later day is in no earlier month.
LEMMA MonthsFollow ==
    ASSUME NEW d \in Int, NEW e \in Int, d <= e
    PROVE  MonthOf(d) <= MonthOf(e)
  <1>1. MonthOf(d) \in Int /\ MonthOf(e) \in Int
    BY DaysOfMonth
  <1>2. CASE MonthOf(e) < MonthOf(d)
    <2>1. EndOf(MonthOf(e)) <= MonthOf(d) * DaysPerMonth
      BY <1>1, <1>2, MonthsInOrder
    <2>2. e < EndOf(MonthOf(e)) /\ MonthOf(d) * DaysPerMonth <= d
      BY DaysOfMonth
    <2> QED
      BY <1>1, <2>1, <2>2, RetentionAssumption DEF EndOf
  <1> QED
    BY <1>1, <1>2

\* A month that is over ended before the current one began.
LEMMA OverIsPast ==
    ASSUME NEW d \in Int, NEW m \in Int, EndOf(m) <= d
    PROVE  m < MonthOf(d)
  <1>1. MonthOf(d) \in Int
    BY DaysOfMonth
  <1>2. CASE m = MonthOf(d)
    BY <1>2, DaysOfMonth, RetentionAssumption DEF EndOf
  <1>3. CASE MonthOf(d) < m
    <2>1. EndOf(MonthOf(d)) <= m * DaysPerMonth
      BY <1>1, <1>3, MonthsInOrder
    <2>2. d < EndOf(MonthOf(d))
      BY DaysOfMonth
    <2>3. EndOf(m) = m * DaysPerMonth + DaysPerMonth
      BY RetentionAssumption DEF EndOf
    <2> QED
      BY <1>1, <2>1, <2>2, <2>3, RetentionAssumption DEF EndOf
  <1> QED
    BY <1>1, <1>2, <1>3

LEMMA EarliestMonth ==
    ASSUME NEW S \in SUBSET (Nat \cup {-1}), S # {}
    PROVE  \E m \in S : \A n \in S : m <= n
  <1> DEFINE T == {n + 1 : n \in S}
  <1>1. T \subseteq Nat
    <2>1. ASSUME NEW n \in Nat \cup {-1} PROVE n + 1 \in Nat
      OBVIOUS
    <2> QED
      BY <2>1
  <1>2. PICK n \in T : \A k \in T : ~(<<k, n>> \in OpToRel(<, Nat))
    <2>1. T # {}
      OBVIOUS
    <2> QED
      BY <1>1, <2>1, NatLessThanWellFounded, WFMin
  <1>3. ASSUME NEW k \in T PROVE n <= k
    <2>1. k \in Nat /\ n \in Nat
      BY <1>1
    <2>2. ~(k < n)
      BY <1>2, <2>1 DEF OpToRel
    <2> QED
      BY <2>1, <2>2
  <1>4. PICK m \in S : n = m + 1
    OBVIOUS
  <1>5. ASSUME NEW k \in S PROVE m <= k
    <2>1. m + 1 <= k + 1
      BY <1>3, <1>4
    <2>2. \A i \in Nat \cup {-1} : i \in Int
      OBVIOUS
    <2>3. m \in Nat \cup {-1} /\ k \in Nat \cup {-1}
      OBVIOUS
    <2>4. m \in Int /\ k \in Int
      BY <2>2, <2>3
    <2> QED
      BY <2>1, <2>4
  <1> QED
    BY <1>4, <1>5
-----------------------------------------------------------------------------
(* The invariant *)

Month == Nat \cup {-1}
Job == [at : {"idle", "down", "open", "list", "drop", "sweep", "cut"},
        ahead : Nat, began : Nat, listed : Nat, doomed : SUBSET Month,
        dropped : BOOLEAN]

\* Nothing was begun, listed or written later than today.
RetentionTypeOK ==
    /\ today \in Nat /\ partitions \subseteq Month
    /\ messages \subseteq Nat /\ attempts \subseteq Nat /\ stored \subseteq Nat
    /\ jobs \in [Jobs -> Job]
    /\ ensured \in Nat /\ listed \in 0..today /\ cutShort \in BOOLEAN
    /\ \A j \in Jobs : jobs[j].began <= today /\ jobs[j].listed <= today

\* The months from this one to the last that the last complete opening opened.
OpenAhead ==
    \A m \in MonthOf(today)..(ensured + MonthsAhead) : m \in partitions

\* The loop has opened this month and those after it, if the month did not turn.
OpenedSoFar ==
    \A j \in Jobs :
        (jobs[j].at = "open" /\ MonthOf(jobs[j].began) = MonthOf(today)) =>
            \A k \in Nat : k < jobs[j].ahead => MonthOf(today) + k \in partitions

\* What is younger than the window is there, in the partition of its month.
YoungKept == \A d \in stored : today - d <= RetentionDays => d \in messages
RowsInPartitions == \A d \in messages : MonthOf(d) \in partitions

\* A run dooms months that have left the window, and all that there were when
\* it looked: those that are opened later have not.
DoomedExpired == \A j \in Jobs : \A m \in jobs[j].doomed : Expired(m)
NothingMissed ==
    \A j \in Jobs : jobs[j].at \in {"drop", "sweep", "cut"} =>
        \A m \in partitions :
            EndOf(m) <= jobs[j].listed - RetentionDays => m \in jobs[j].doomed
DoomedWhileDropping ==
    \A j \in Jobs : jobs[j].at \in {"sweep", "cut"} => jobs[j].doomed = {}
LookedThrough == \A m \in partitions : listed - RetentionDays < EndOf(m)

\* Attempts outlive their messages between a drop and the sweep of its run.
SweepPending ==
    /\ \/ attempts \subseteq messages \/ cutShort
       \/ \E j \in Jobs : jobs[j].dropped
    /\ \A j \in Jobs : jobs[j].dropped => jobs[j].at \in {"drop", "sweep"}

RetentionInv ==
    /\ RetentionTypeOK
    /\ OpenAhead /\ OpenedSoFar
    /\ YoungKept /\ RowsInPartitions
    /\ DoomedExpired /\ NothingMissed /\ DoomedWhileDropping /\ LookedThrough
    /\ SweepPending

-----------------------------------------------------------------------------
(* Steps of a run *)

LEMMA SetTypes ==
    ASSUME RetentionTypeOK, NEW j \in Jobs, NEW r \in Job, Set(j, r)
    PROVE  /\ jobs' \in [Jobs -> Job]
           /\ jobs'[j] = r
           /\ \A i \in Jobs \ {j} : jobs'[i] = jobs[i]
  BY DEF Set, RetentionTypeOK

LEMMA RestingTypes == Resting \in Job
  BY DEF Resting, Job

LEMMA InitHolds == RetentionInit => RetentionInv
  <1> SUFFICES ASSUME RetentionInit PROVE RetentionInv
    OBVIOUS
  <1>1. [Resting EXCEPT !.at = "down"] \in Job
    BY DEF Resting, Job
  <1>2. RetentionTypeOK
    <2>1. -1..2 \subseteq Month
      BY DEF Month
    <2>2. jobs \in [Jobs -> Job]
      BY <1>1, RestingTypes DEF RetentionInit
    <2>3. \A j \in Jobs : jobs[j].began = 0 /\ jobs[j].listed = 0
      BY DEF RetentionInit, Resting
    <2>4. today = 0 /\ listed = 0 /\ ensured = 0 /\ cutShort = FALSE
      BY DEF RetentionInit
    <2>5. /\ partitions \subseteq Month
          /\ messages = {} /\ attempts = {} /\ stored = {}
      BY <2>1 DEF RetentionInit
    <2>6. today \in Nat /\ ensured \in Nat /\ listed \in 0..today
      BY <2>4
    <2>7. cutShort \in BOOLEAN
      BY <2>4
    <2>8. \A j \in Jobs : jobs[j].began <= today /\ jobs[j].listed <= today
      BY <2>3, <2>4
    <2>9. messages \subseteq Nat /\ attempts \subseteq Nat /\ stored \subseteq Nat
      BY <2>5
    <2> QED
      BY <2>2, <2>5, <2>6, <2>7, <2>8, <2>9 DEF RetentionTypeOK
  <1>3. MonthOf(today) = 0
    BY RetentionAssumption DEF RetentionInit, MonthOf
  <1>4. \A m \in partitions : 0 <= EndOf(m)
    <2>1. \A m \in {-1, 0, 1, 2} : 0 <= (m + 1) * DaysPerMonth
      BY RetentionAssumption
    <2> QED
      BY <2>1 DEF RetentionInit, EndOf
  <1>5. OpenAhead
    BY <1>3, RetentionAssumption DEF RetentionInit, OpenAhead
  <1>6. LookedThrough
    <2>1. \A m \in partitions : EndOf(m) \in Int
      BY RetentionAssumption DEF RetentionInit, EndOf
    <2> QED
      BY <1>4, <2>1, RetentionAssumption DEF RetentionInit, LookedThrough
  <1>7. \A j \in Jobs : jobs[j].at \in {"idle", "down"} /\ jobs[j].doomed = {}
                        /\ ~jobs[j].dropped
    BY DEF RetentionInit, Resting
  <1> QED
    BY <1>2, <1>5, <1>6, <1>7
    DEF RetentionInit, RetentionInv, OpenedSoFar, YoungKept, RowsInPartitions,
        DoomedExpired, NothingMissed, DoomedWhileDropping, SweepPending

\* A month that is opened now has not expired, and did not when a run looked.
LEMMA OpenedHasNotEnded ==
    ASSUME RetentionTypeOK, NEW k \in Nat
    PROVE  /\ MonthOf(today) + k \in Month
           /\ today < EndOf(MonthOf(today) + k)
  <1>1. MonthOf(today) \in Int /\ today < EndOf(MonthOf(today))
    BY DaysOfMonth DEF RetentionTypeOK
  <1>2. 0 <= MonthOf(today)
    BY RetentionAssumption DEF RetentionTypeOK, MonthOf
  <1>3. 0 <= k * DaysPerMonth
    BY RetentionAssumption
  <1>4. EndOf(MonthOf(today) + k) = EndOf(MonthOf(today)) + k * DaysPerMonth
    BY <1>1, RetentionAssumption DEF EndOf
  <1>5. EndOf(MonthOf(today)) \in Int /\ k * DaysPerMonth \in Int
    BY <1>1, RetentionAssumption DEF EndOf
  <1> QED
    BY <1>1, <1>2, <1>3, <1>4, <1>5 DEF Month, RetentionTypeOK

LEMMA OpenKeeps ==
    ASSUME RetentionInv, NEW j \in Jobs, Open(j)
    PROVE  RetentionInv'
  <1> DEFINE opened == MonthOf(today) + jobs[j].ahead
             r == IF jobs[j].ahead < MonthsAhead
                  THEN [jobs[j] EXCEPT !.ahead = @ + 1]
                  ELSE [jobs[j] EXCEPT !.at = "list"]
  <1>0. jobs[j] \in Job /\ today \in Nat
    BY DEF RetentionInv, RetentionTypeOK
  <1>1. r \in Job /\ Set(j, r)
    BY <1>0 DEF Open, Job
  <1>2. /\ jobs' \in [Jobs -> Job] /\ jobs'[j] = r
        /\ \A i \in Jobs \ {j} : jobs'[i] = jobs[i]
    BY <1>1, SetTypes DEF RetentionInv
  <1>3. /\ r.began = jobs[j].began /\ r.listed = jobs[j].listed
        /\ r.doomed = jobs[j].doomed /\ r.dropped = jobs[j].dropped
        /\ r.at \in {"open", "list"}
        /\ r.at = "open" => r.ahead = jobs[j].ahead + 1
    BY <1>0 DEF Open, Job
  <1> HIDE DEF r
  <1>4. opened \in Month /\ today < EndOf(opened)
    BY <1>0, OpenedHasNotEnded DEF RetentionInv, Job
  <1>5. partitions' = partitions \cup {opened}
    BY DEF Open
  <1>6. MonthOf(today) \in Nat
    BY RetentionAssumption DEF RetentionInv, RetentionTypeOK, MonthOf
  <1>7. UNCHANGED <<today, messages, attempts, stored, listed, cutShort>>
    BY DEF Open
  <1>8. RetentionTypeOK'
    <2>1. ensured' \in Nat
      BY <1>6 DEF Open, RetentionInv, RetentionTypeOK
    <2> QED
      BY <1>2, <1>3, <1>4, <1>5, <1>7, <2>1 DEF RetentionInv, RetentionTypeOK
  <1>9. OpenedSoFar'
    <2> SUFFICES ASSUME NEW i \in Jobs, jobs'[i].at = "open",
                        MonthOf(jobs'[i].began) = MonthOf(today),
                        NEW k \in Nat, k < jobs'[i].ahead
                 PROVE  MonthOf(today) + k \in partitions'
      BY <1>7 DEF OpenedSoFar
    <2>1. CASE i = j
      <3>1. r.at = "open" /\ r.ahead = jobs[j].ahead + 1 /\ k < jobs[j].ahead + 1
        BY <1>2, <1>3, <2>1
      <3>2. jobs[j].at = "open" /\ MonthOf(jobs[j].began) = MonthOf(today)
        BY <1>2, <1>3, <2>1 DEF Open
      <3>3. jobs[j].ahead \in Nat
        BY <1>0 DEF Job
      <3>4. CASE k < jobs[j].ahead
        BY <1>5, <3>2, <3>4 DEF RetentionInv, OpenedSoFar
      <3>5. CASE k = jobs[j].ahead
        BY <1>5, <3>5
      <3> QED
        BY <3>1, <3>3, <3>4, <3>5
    <2>2. CASE i # j
      BY <1>2, <1>5, <2>2 DEF RetentionInv, OpenedSoFar
    <2> QED
      BY <2>1, <2>2
  <1>10. OpenAhead'
    <2>1. CASE ensured' = ensured
      BY <1>5, <1>7, <2>1 DEF RetentionInv, OpenAhead
    <2>2. CASE ensured' # ensured
      <3>1. /\ ensured' = MonthOf(today) /\ MonthOf(jobs[j].began) = MonthOf(today)
            /\ ~(jobs[j].ahead < MonthsAhead) /\ jobs[j].at = "open"
        BY <2>2 DEF Open
      <3> SUFFICES ASSUME NEW m \in MonthOf(today)..(MonthOf(today) + MonthsAhead)
                   PROVE  m \in partitions'
        BY <1>7, <3>1 DEF OpenAhead
      <3>2. m - MonthOf(today) \in Nat /\ m - MonthOf(today) <= jobs[j].ahead
        <4>1. /\ MonthsAhead \in Nat /\ jobs[j].ahead \in Nat
              /\ MonthsAhead <= jobs[j].ahead
          BY <1>0, <3>1, RetentionAssumption DEF Job
        <4>2. /\ MonthOf(today) \in Int /\ m \in Int
              /\ MonthOf(today) <= m /\ m <= MonthOf(today) + MonthsAhead
          BY <1>6, <4>1
        <4> QED
          BY <4>1, <4>2
      <3>3. m = MonthOf(today) + (m - MonthOf(today))
        BY <1>6
      <3>4. CASE m - MonthOf(today) < jobs[j].ahead
        BY <1>5, <3>1, <3>2, <3>3, <3>4 DEF RetentionInv, OpenedSoFar
      <3>5. CASE m - MonthOf(today) = jobs[j].ahead
        BY <1>5, <3>3, <3>5
      <3> QED
        BY <1>0, <3>2, <3>4, <3>5 DEF Job
    <2> QED
      BY <2>1, <2>2
  <1>11. YoungKept' /\ RowsInPartitions' /\ SweepPending' /\ DoomedWhileDropping'
    <2>1. YoungKept' /\ RowsInPartitions'
      BY <1>5, <1>7 DEF RetentionInv, YoungKept, RowsInPartitions
    <2>2. ~jobs[j].dropped
      BY DEF Open, RetentionInv, SweepPending
    <2>3. SweepPending'
      BY <1>2, <1>3, <1>7, <2>2 DEF RetentionInv, SweepPending
    <2> QED
      BY <1>2, <1>3, <2>1, <2>3 DEF RetentionInv, DoomedWhileDropping
  <1>12. DoomedExpired'
    BY <1>2, <1>3, <1>7 DEF RetentionInv, DoomedExpired, Expired
  <1>13. NothingMissed' /\ LookedThrough'
    <2>1. EndOf(opened) \in Int
      BY <1>4, RetentionAssumption DEF EndOf, Month
    <2>2. \A d \in 0..today : d - RetentionDays < EndOf(opened)
      BY <1>0, <1>4, <2>1, RetentionAssumption
    <2>3. \A i \in Jobs : jobs[i].listed \in 0..today
      BY <1>0 DEF RetentionInv, RetentionTypeOK, Job
    <2>4. NothingMissed'
      <3> SUFFICES ASSUME NEW i \in Jobs, jobs'[i].at \in {"drop", "sweep", "cut"},
                          NEW m \in partitions',
                          EndOf(m) <= jobs'[i].listed - RetentionDays
                   PROVE  m \in jobs'[i].doomed
        BY DEF NothingMissed
      <3>1. jobs'[i] = jobs[i]
        BY <1>2, <1>3
      <3>2. CASE m = opened
        <4>1. jobs[i].listed - RetentionDays < EndOf(opened)
          BY <2>2, <2>3
        <4> QED
          BY <2>1, <2>3, <3>1, <3>2, <4>1, RetentionAssumption
      <3>3. CASE m \in partitions
        BY <3>1, <3>3 DEF RetentionInv, NothingMissed
      <3> QED
        BY <1>5, <3>2, <3>3
    <2>5. LookedThrough'
      BY <1>5, <1>7, <2>2 DEF RetentionInv, RetentionTypeOK, LookedThrough
    <2> QED
      BY <2>4, <2>5
  <1> QED
    BY <1>8, <1>9, <1>10, <1>11, <1>12, <1>13 DEF RetentionInv

LEMMA ListKeeps ==
    ASSUME RetentionInv, NEW j \in Jobs, ListExpired(j)
    PROVE  RetentionInv'
  <1> DEFINE r == [jobs[j] EXCEPT !.at = "drop", !.listed = today,
                                  !.doomed = {m \in partitions : Expired(m)}]
  <1>0. jobs[j] \in Job /\ today \in Nat /\ partitions \subseteq Month
    BY DEF RetentionInv, RetentionTypeOK
  <1>1. r \in Job /\ Set(j, r)
    <2>1. {m \in partitions : Expired(m)} \in SUBSET Month
      BY <1>0
    <2> HIDE DEF Month
    <2> QED
      BY <1>0, <2>1 DEF ListExpired, Job
  <1>2. /\ jobs' \in [Jobs -> Job] /\ jobs'[j] = r
        /\ \A i \in Jobs \ {j} : jobs'[i] = jobs[i]
    BY <1>1, SetTypes DEF RetentionInv
  <1>3. /\ r.began = jobs[j].began /\ r.listed = today /\ r.at = "drop"
        /\ r.doomed = {m \in partitions : Expired(m)}
        /\ r.dropped = jobs[j].dropped
    BY <1>0 DEF Job
  <1> HIDE DEF r
  <1>4. UNCHANGED <<today, partitions, messages, attempts, stored, ensured, listed,
                    cutShort>>
    BY DEF ListExpired, Tables, Histories
  <1>5. RetentionTypeOK'
    BY <1>0, <1>2, <1>3, <1>4 DEF RetentionInv, RetentionTypeOK
  <1>6. OpenAhead' /\ OpenedSoFar'
    BY <1>2, <1>3, <1>4 DEF RetentionInv, OpenAhead, OpenedSoFar
  <1>7. YoungKept' /\ RowsInPartitions' /\ LookedThrough'
    BY <1>4 DEF RetentionInv, YoungKept, RowsInPartitions, LookedThrough
  <1>8. DoomedExpired' /\ NothingMissed'
    BY <1>2, <1>3, <1>4 DEF RetentionInv, DoomedExpired, NothingMissed, Expired
  <1>9. DoomedWhileDropping' /\ SweepPending'
    BY <1>2, <1>3, <1>4 DEF RetentionInv, DoomedWhileDropping, SweepPending
  <1> QED
    BY <1>5, <1>6, <1>7, <1>8, <1>9 DEF RetentionInv

LEMMA DropKeeps ==
    ASSUME RetentionInv, NEW j \in Jobs, DropExpired(j)
    PROVE  RetentionInv'
  <1>0. jobs[j] \in Job /\ today \in Nat /\ jobs[j].at = "drop"
    BY DEF RetentionInv, RetentionTypeOK, DropExpired
  <1>a. UNCHANGED <<today, attempts, stored, ensured, listed, cutShort>>
    BY DEF DropExpired, Histories
  <1>1. CASE jobs[j].doomed = {}
    <2> DEFINE r == [jobs[j] EXCEPT !.at = IF jobs[j].dropped THEN "sweep"
                                           ELSE "cut"]
    <2>1. r \in Job /\ Set(j, r)
      BY <1>0, <1>1 DEF DropExpired, Job
    <2>2. /\ jobs' \in [Jobs -> Job] /\ jobs'[j] = r
          /\ \A i \in Jobs \ {j} : jobs'[i] = jobs[i]
      BY <2>1, SetTypes DEF RetentionInv
    <2>3. /\ r.began = jobs[j].began /\ r.listed = jobs[j].listed /\ r.doomed = {}
          /\ r.at \in {"sweep", "cut"} /\ r.dropped = jobs[j].dropped
          /\ r.dropped => r.at = "sweep"
      BY <1>0, <1>1 DEF Job
    <2> HIDE DEF r
    <2>4. UNCHANGED <<partitions, messages>>
      BY <1>1 DEF DropExpired
    <2>5. RetentionTypeOK'
      BY <1>a, <2>2, <2>3, <2>4 DEF RetentionInv, RetentionTypeOK
    <2>6. OpenAhead' /\ OpenedSoFar'
      BY <1>a, <2>2, <2>3, <2>4 DEF RetentionInv, OpenAhead, OpenedSoFar
    <2>7. YoungKept' /\ RowsInPartitions' /\ LookedThrough'
      BY <1>a, <2>4 DEF RetentionInv, YoungKept, RowsInPartitions, LookedThrough
    <2>8. DoomedExpired'
      BY <1>a, <2>2, <2>3 DEF RetentionInv, DoomedExpired, Expired
    <2>9. NothingMissed'
      BY <1>0, <1>1, <2>2, <2>3, <2>4 DEF RetentionInv, NothingMissed
    <2>10. DoomedWhileDropping' /\ SweepPending'
      BY <1>a, <2>2, <2>3, <2>4 DEF RetentionInv, DoomedWhileDropping, SweepPending
    <2> QED
      BY <2>5, <2>6, <2>7, <2>8, <2>9, <2>10 DEF RetentionInv
  <1>2. CASE jobs[j].doomed # {}
    <2> DEFINE doomed == jobs[j].doomed
    <2>1. PICK m \in doomed : /\ partitions' = partitions \ {m}
                              /\ messages' = {d \in messages : MonthOf(d) # m}
                              /\ Set(j, [jobs[j] EXCEPT !.doomed = @ \ {m},
                                                        !.dropped = TRUE])
      <3>1. doomed \in SUBSET (Nat \cup {-1})
        BY <1>0 DEF Job, Month
      <3>2. \E m \in doomed : \A n \in doomed : m <= n
        BY <1>2, <3>1, EarliestMonth
      <3> QED
        BY <1>2, <3>2 DEF DropExpired
    <2> DEFINE r == [jobs[j] EXCEPT !.doomed = @ \ {m}, !.dropped = TRUE]
    <2>2. r \in Job
      BY <1>0 DEF Job
    <2>3. /\ jobs' \in [Jobs -> Job] /\ jobs'[j] = r
          /\ \A i \in Jobs \ {j} : jobs'[i] = jobs[i]
      BY <2>1, <2>2, SetTypes DEF RetentionInv
    <2>4. /\ r.began = jobs[j].began /\ r.listed = jobs[j].listed
          /\ r.doomed = jobs[j].doomed \ {m} /\ r.at = "drop" /\ r.dropped
      BY <1>0 DEF Job
    <2> HIDE DEF r
    <2>5. m \in Int /\ Expired(m)
      BY <1>0 DEF RetentionInv, DoomedExpired, Job, Month
    <2>6. m < MonthOf(today)
      <3>1. EndOf(m) \in Int
        BY <2>5, RetentionAssumption DEF EndOf
      <3>2. EndOf(m) <= today
        BY <1>0, <2>5, <3>1, RetentionAssumption DEF Expired
      <3> QED
        BY <1>0, <2>5, <3>2, OverIsPast
    <2>7. MonthOf(today) \in Int
      BY <1>0, DaysOfMonth
    <2>8. RetentionTypeOK'
      BY <1>a, <2>1, <2>3, <2>4 DEF RetentionInv, RetentionTypeOK
    <2>9. OpenAhead'
      BY <1>a, <2>1, <2>5, <2>6, <2>7 DEF RetentionInv, OpenAhead
    <2>10. OpenedSoFar'
      <3>1. \A k \in Nat : MonthOf(today) + k # m
        BY <2>5, <2>6, <2>7
      <3> QED
        BY <1>0, <1>a, <2>1, <2>3, <2>4, <3>1 DEF RetentionInv, OpenedSoFar
    <2>11. YoungKept'
      <3> SUFFICES ASSUME NEW d \in stored, today - d <= RetentionDays
                   PROVE  d \in messages'
        BY <1>a DEF YoungKept
      <3>1. d \in messages /\ d \in Int
        BY DEF RetentionInv, YoungKept, RetentionTypeOK
      <3>2. d < EndOf(MonthOf(d)) /\ EndOf(MonthOf(d)) \in Int
        BY <3>1, DaysOfMonth, RetentionAssumption DEF EndOf
      <3>3. MonthOf(d) # m
        BY <1>0, <2>5, <3>1, <3>2, RetentionAssumption DEF Expired
      <3> QED
        BY <2>1, <3>1, <3>3
    <2>12. RowsInPartitions' /\ LookedThrough'
      BY <1>a, <2>1 DEF RetentionInv, RowsInPartitions, LookedThrough
    <2>13. DoomedExpired'
      BY <1>a, <2>3, <2>4 DEF RetentionInv, DoomedExpired, Expired
    <2>14. NothingMissed'
      BY <1>0, <2>1, <2>3, <2>4 DEF RetentionInv, NothingMissed
    <2>15. DoomedWhileDropping' /\ SweepPending'
      BY <2>3, <2>4 DEF RetentionInv, DoomedWhileDropping, SweepPending
    <2> QED
      BY <2>8, <2>9, <2>10, <2>11, <2>12, <2>13, <2>14, <2>15 DEF RetentionInv
  <1> QED
    BY <1>1, <1>2

LEMMA SweepKeeps ==
    ASSUME RetentionInv, NEW j \in Jobs, Sweep(j)
    PROVE  RetentionInv'
  <1> DEFINE r == [jobs[j] EXCEPT !.at = "cut", !.dropped = FALSE]
  <1>0. jobs[j] \in Job /\ jobs[j].at = "sweep"
    BY DEF RetentionInv, RetentionTypeOK, Sweep
  <1>1. r \in Job /\ Set(j, r)
    BY <1>0 DEF Sweep, Job
  <1>2. /\ jobs' \in [Jobs -> Job] /\ jobs'[j] = r
        /\ \A i \in Jobs \ {j} : jobs'[i] = jobs[i]
    BY <1>1, SetTypes DEF RetentionInv
  <1>3. /\ r.began = jobs[j].began /\ r.listed = jobs[j].listed /\ r.at = "cut"
        /\ r.doomed = jobs[j].doomed /\ ~r.dropped
    BY <1>0 DEF Job
  <1> HIDE DEF r
  <1>4. /\ UNCHANGED <<today, partitions, messages, stored, ensured, listed>>
        /\ attempts' = attempts \cap messages /\ cutShort' = FALSE
    BY DEF Sweep
  <1>5. RetentionTypeOK'
    BY <1>2, <1>3, <1>4 DEF RetentionInv, RetentionTypeOK
  <1>6. OpenAhead' /\ OpenedSoFar'
    BY <1>2, <1>3, <1>4 DEF RetentionInv, OpenAhead, OpenedSoFar
  <1>7. YoungKept' /\ RowsInPartitions' /\ LookedThrough'
    BY <1>4 DEF RetentionInv, YoungKept, RowsInPartitions, LookedThrough
  <1>8. DoomedExpired' /\ NothingMissed'
    BY <1>0, <1>2, <1>3, <1>4
    DEF RetentionInv, DoomedExpired, NothingMissed, Expired
  <1>9. DoomedWhileDropping'
    BY <1>0, <1>2, <1>3 DEF RetentionInv, DoomedWhileDropping
  <1>10. SweepPending'
    BY <1>2, <1>3, <1>4 DEF RetentionInv, SweepPending
  <1> QED
    BY <1>5, <1>6, <1>7, <1>8, <1>9, <1>10 DEF RetentionInv

LEMMA CutKeeps ==
    ASSUME RetentionInv, NEW j \in Jobs, Cut(j)
    PROVE  RetentionInv'
  <1>0. /\ jobs[j] \in Job /\ jobs[j].at = "cut" /\ ~jobs[j].dropped
        /\ jobs[j].doomed = {}
    BY DEF RetentionInv, RetentionTypeOK, SweepPending, DoomedWhileDropping, Cut
  <1>1. /\ jobs' \in [Jobs -> Job] /\ jobs'[j] = Resting
        /\ \A i \in Jobs \ {j} : jobs'[i] = jobs[i]
    BY RestingTypes, SetTypes DEF RetentionInv, Cut
  <1>2. /\ UNCHANGED <<today, partitions, messages, attempts, stored, ensured,
                       cutShort>>
        /\ listed' = listed \/ listed' = jobs[j].listed
    BY DEF Cut
  <1>3. RetentionTypeOK'
    BY <1>0, <1>1, <1>2 DEF RetentionInv, RetentionTypeOK, Resting, Job
  <1>4. OpenAhead' /\ OpenedSoFar'
    BY <1>1, <1>2 DEF RetentionInv, OpenAhead, OpenedSoFar, Resting
  <1>5. YoungKept' /\ RowsInPartitions'
    BY <1>2 DEF RetentionInv, YoungKept, RowsInPartitions
  <1>6. LookedThrough'
    <2>1. \A m \in partitions : EndOf(m) \in Int
      BY RetentionAssumption DEF EndOf, RetentionInv, RetentionTypeOK, Month
    <2>2. jobs[j].listed - RetentionDays \in Int
      BY <1>0, RetentionAssumption DEF Job
    <2>3. \A m \in partitions : jobs[j].listed - RetentionDays < EndOf(m)
      BY <1>0, <2>1, <2>2 DEF RetentionInv, NothingMissed
    <2> QED
      BY <1>2, <2>3 DEF RetentionInv, LookedThrough
  <1>7. DoomedExpired' /\ NothingMissed' /\ DoomedWhileDropping'
    BY <1>1, <1>2 DEF RetentionInv, DoomedExpired, NothingMissed, Expired,
                      DoomedWhileDropping, Resting
  <1>8. SweepPending'
    BY <1>0, <1>1, <1>2 DEF RetentionInv, SweepPending, Resting
  <1> QED
    BY <1>3, <1>4, <1>5, <1>6, <1>7, <1>8 DEF RetentionInv

\* A run that begins, fails or is lost has nothing doomed or dropped.
Blank(r) ==
    /\ r \in Job /\ r.at \in {"idle", "down", "open"}
    /\ r.ahead = 0 /\ r.began \in 0..today /\ r.listed = 0
    /\ r.doomed = {} /\ ~r.dropped

LEMMA BlankKeeps ==
    ASSUME RetentionInv,
           UNCHANGED <<today, Tables, stored, ensured, listed>>,
           jobs' \in [Jobs -> Job],
           \A i \in Jobs : Blank(jobs'[i]) \/ jobs'[i] = jobs[i],
           cutShort' \in BOOLEAN,
           (\E i \in Jobs : jobs[i].dropped /\ jobs'[i] # jobs[i]) => cutShort',
           cutShort => cutShort'
    PROVE  RetentionInv'
  <1>1. /\ UNCHANGED <<today, partitions, messages, attempts, stored, ensured,
                       listed>>
        /\ today \in Nat
    BY DEF Tables, RetentionInv, RetentionTypeOK
  <1>2. RetentionTypeOK'
    BY <1>1 DEF RetentionInv, RetentionTypeOK, Blank
  <1>3. OpenAhead' /\ OpenedSoFar'
    BY <1>1 DEF RetentionInv, OpenAhead, OpenedSoFar, Blank
  <1>4. YoungKept' /\ RowsInPartitions' /\ LookedThrough'
    BY <1>1 DEF RetentionInv, YoungKept, RowsInPartitions, LookedThrough
  <1>5. DoomedExpired' /\ NothingMissed' /\ DoomedWhileDropping'
    BY <1>1 DEF RetentionInv, DoomedExpired, NothingMissed, Expired,
                DoomedWhileDropping, Blank
  <1>6. SweepPending'
    BY <1>1 DEF RetentionInv, SweepPending, Blank
  <1> QED
    BY <1>2, <1>3, <1>4, <1>5, <1>6 DEF RetentionInv

\* The jobs rest between two months' openings: the beginning and the end of a run.
LEMMA RunEndsKeep ==
    ASSUME RetentionInv, NEW j \in Jobs, Fail(j) \/ Tick \/ BootRun \/ Restart
    PROVE  RetentionInv'
  <1>0. today \in Nat /\ jobs \in [Jobs -> Job] /\ cutShort \in BOOLEAN
    BY DEF RetentionInv, RetentionTypeOK
  <1>1. Blank(Resting) /\ Blank([Resting EXCEPT !.at = "down"])
        /\ Blank([Resting EXCEPT !.at = "open", !.began = today])
    <2> DEFINE begun == [Resting EXCEPT !.at = "open", !.began = today]
               down == [Resting EXCEPT !.at = "down"]
    <2>1. Blank(Resting)
      BY <1>0 DEF Blank, Resting, Job
    <2>2. Blank(down)
      <3>1. down \in Job
        BY DEF Resting, Job
      <3>2. down.at = "down" /\ down.ahead = 0 /\ down.began = 0
            /\ down.listed = 0 /\ down.doomed = {} /\ down.dropped = FALSE
        BY DEF Resting
      <3> HIDE DEF down
      <3> QED
        BY <1>0, <3>1, <3>2 DEF Blank
    <2>3. begun \in Job
      BY <1>0 DEF Resting, Job
    <2>4. begun.at = "open" /\ begun.ahead = 0 /\ begun.began = today
          /\ begun.listed = 0 /\ begun.doomed = {} /\ begun.dropped = FALSE
      BY DEF Resting
    <2>5. Blank(begun)
      <3> HIDE DEF begun
      <3> QED
        BY <1>0, <2>3, <2>4 DEF Blank
    <2> QED
      BY <2>1, <2>2, <2>5
  <1>2. CASE Fail(j)
    <2>1. /\ jobs' \in [Jobs -> Job] /\ jobs'[j] = Resting
          /\ \A i \in Jobs \ {j} : jobs'[i] = jobs[i]
      BY <1>2, RestingTypes, SetTypes DEF RetentionInv, Fail
    <2> QED
      BY <1>0, <1>1, <1>2, <2>1, BlankKeeps DEF Fail
  <1>3. ASSUME NEW i \in Jobs, BeginRun(i), ~jobs[i].dropped,
               UNCHANGED <<today, Tables, Histories>>
        PROVE  RetentionInv'
    <2> DEFINE r == [Resting EXCEPT !.at = "open", !.began = today]
    <2>1. r \in Job /\ Set(i, r)
      BY <1>1, <1>3 DEF BeginRun, Blank
    <2>2. /\ jobs' \in [Jobs -> Job] /\ jobs'[i] = r
          /\ \A k \in Jobs \ {i} : jobs'[k] = jobs[k]
      BY <2>1, SetTypes DEF RetentionInv
    <2>3. UNCHANGED <<stored, ensured, listed, cutShort>>
      BY <1>3 DEF Histories
    <2> QED
      BY <1>0, <1>1, <1>3, <2>2, <2>3, BlankKeeps
  <1>4. CASE Tick
    BY <1>3, <1>4 DEF Tick, Jobs, RetentionInv, SweepPending
  <1>5. CASE BootRun
    BY <1>3, <1>5 DEF BootRun, Jobs, RetentionInv, SweepPending
  <1>6. CASE Restart
    <2>1. \A i \in Jobs : Blank(jobs'[i])
      BY <1>1, <1>6 DEF Restart
    <2>2. jobs' \in [Jobs -> Job]
      BY <1>1, <1>6 DEF Restart, Blank
    <2> QED
      BY <1>0, <1>6, <2>1, <2>2, BlankKeeps DEF Restart
  <1> QED
    BY <1>2, <1>4, <1>5, <1>6

LEMMA AcceptKeeps ==
    ASSUME RetentionInv, Accept
    PROVE  RetentionInv'
  <1>1. /\ UNCHANGED <<today, partitions, jobs, ensured, listed, cutShort>>
        /\ messages' = messages \cup {today} /\ stored' = stored \cup {today}
        /\ attempts' = attempts \cup {today} /\ MonthOf(today) \in partitions
    BY DEF Accept
  <1>2. RetentionTypeOK'
    BY <1>1 DEF RetentionInv, RetentionTypeOK
  <1>3. OpenAhead' /\ OpenedSoFar' /\ LookedThrough'
    BY <1>1 DEF RetentionInv, OpenAhead, OpenedSoFar, LookedThrough
  <1>4. YoungKept' /\ RowsInPartitions'
    BY <1>1 DEF RetentionInv, YoungKept, RowsInPartitions
  <1>5. DoomedExpired' /\ NothingMissed' /\ DoomedWhileDropping'
    BY <1>1 DEF RetentionInv, DoomedExpired, NothingMissed, Expired,
                DoomedWhileDropping
  <1>6. SweepPending'
    BY <1>1 DEF RetentionInv, SweepPending
  <1> QED
    BY <1>2, <1>3, <1>4, <1>5, <1>6 DEF RetentionInv

LEMMA ElapseKeeps ==
    ASSUME RetentionInv, Elapse
    PROVE  RetentionInv'
  <1>1. /\ UNCHANGED <<partitions, messages, attempts, jobs, stored, ensured,
                       listed, cutShort>>
        /\ today' = today + 1 /\ today \in Nat
    BY DEF Elapse, Tables, Histories, RetentionInv, RetentionTypeOK
  <1>2. MonthOf(today) \in Int /\ MonthOf(today') \in Int
        /\ MonthOf(today) <= MonthOf(today')
    BY <1>1, DaysOfMonth, MonthsFollow
  <1>3. RetentionTypeOK'
    <2>1. \A j \in Jobs : jobs[j].began \in Nat /\ jobs[j].listed \in Nat
      BY DEF RetentionInv, RetentionTypeOK, Job
    <2> QED
      BY <1>1, <2>1 DEF RetentionInv, RetentionTypeOK
  <1>4. OpenAhead'
    BY <1>1, <1>2 DEF RetentionInv, OpenAhead
  <1>5. OpenedSoFar'
    <2> SUFFICES ASSUME NEW j \in Jobs, jobs[j].at = "open",
                        MonthOf(jobs[j].began) = MonthOf(today')
                 PROVE  MonthOf(today) = MonthOf(today')
      BY <1>1 DEF RetentionInv, OpenedSoFar
    <2>1. jobs[j].began \in Int /\ jobs[j].began <= today
      BY DEF RetentionInv, RetentionTypeOK, Job
    <2>2. MonthOf(jobs[j].began) <= MonthOf(today)
      BY <1>1, <2>1, MonthsFollow
    <2> QED
      BY <1>2, <2>2
  <1>6. YoungKept' /\ RowsInPartitions' /\ LookedThrough'
    <2>1. \A d \in stored :
             today' - d <= RetentionDays => today - d <= RetentionDays
      BY <1>1, RetentionAssumption DEF RetentionInv, RetentionTypeOK
    <2> QED
      BY <1>1, <2>1 DEF RetentionInv, YoungKept, RowsInPartitions, LookedThrough
  <1>7. DoomedExpired'
    <2>1. \A j \in Jobs : \A m \in jobs[j].doomed : EndOf(m) \in Int
      BY RetentionAssumption DEF EndOf, RetentionInv, RetentionTypeOK, Job, Month
    <2> QED
      BY <1>1, <2>1, RetentionAssumption DEF RetentionInv, DoomedExpired, Expired
  <1>8. NothingMissed' /\ DoomedWhileDropping' /\ SweepPending'
    BY <1>1 DEF RetentionInv, NothingMissed, DoomedWhileDropping, SweepPending
  <1> QED
    BY <1>3, <1>4, <1>5, <1>6, <1>7, <1>8 DEF RetentionInv

LEMMA NextKeeps ==
    ASSUME RetentionInv, [RetentionNext]_retentionVars
    PROVE  RetentionInv'
  <1>1. ASSUME NEW j \in Jobs, RunStep(j)
        PROVE  RetentionInv'
    BY <1>1, OpenKeeps, ListKeeps, DropKeeps, SweepKeeps, CutKeeps, RunEndsKeep
    DEF RunStep
  <1>2. CASE Tick \/ Restart \/ BootRun
    BY <1>2, RunEndsKeep DEF Jobs
  <1>3. CASE UNCHANGED retentionVars
    BY <1>3
    DEF retentionVars, RetentionInv, RetentionTypeOK, OpenAhead, OpenedSoFar,
        YoungKept, RowsInPartitions, DoomedExpired, NothingMissed, Expired,
        DoomedWhileDropping, LookedThrough, SweepPending
  <1> QED
    BY <1>1, <1>2, <1>3, AcceptKeeps, ElapseKeeps DEF RetentionNext

-----------------------------------------------------------------------------
(* Theorems *)

LEMMA InvariantHolds == RetentionSpec => []RetentionInv
  <1>1. RetentionInv /\ [RetentionNext]_retentionVars => RetentionInv'
    BY NextKeeps
  <1> QED
    BY <1>1, InitHolds, PTL DEF RetentionSpec

\* The current month has its partition, so that messages are accepted, unless
\* the opening (ensureFuturePartitions) has not once succeeded within one and
\* the same month in the MonthsAhead months before this one.
THEOREM MonthOpen == RetentionSpec => []MonthAlwaysOpen
  <1>1. RetentionInv => MonthAlwaysOpen
    <2> SUFFICES ASSUME RetentionInv PROVE MonthAlwaysOpen
      OBVIOUS
    <2>1. MonthOf(today) \in Int /\ ensured + MonthsAhead \in Int
      BY DaysOfMonth, RetentionAssumption DEF RetentionInv, RetentionTypeOK
    <2>2. CASE MonthOf(today) <= ensured + MonthsAhead
      BY <2>1, <2>2 DEF RetentionInv, OpenAhead, MonthAlwaysOpen
    <2>3. CASE ensured + MonthsAhead < MonthOf(today)
      BY <2>3 DEF MonthAlwaysOpen
    <2> QED
      BY <2>1, <2>2, <2>3
  <1> QED
    BY <1>1, InvariantHolds, PTL

\* dropExpiredPartitions never takes a message that is younger than the window,
\* whatever runs overlap; and when no run is under way, no message or attempt is
\* older by a month than the window that a complete run looked through, unless a
\* run was cut short between its drop and its sweep.
THEOREM WindowRespected == RetentionSpec => []WindowKept
  <1>1. RetentionInv => WindowKept
    <2> SUFFICES ASSUME RetentionInv PROVE WindowKept
      OBVIOUS
    <2>1. \A d \in stored : today - d <= RetentionDays => d \in messages
      BY DEF RetentionInv, YoungKept
    <2>2. ASSUME ~cutShort, \A j \in Jobs : jobs[j].at \in {"idle", "down"},
                 NEW d \in messages \cup attempts
          PROVE  listed - d < RetentionDays + DaysPerMonth
      <3>1. d \in messages
        BY <2>2 DEF RetentionInv, SweepPending
      <3>2. d \in Int /\ listed \in Int
        BY <3>1 DEF RetentionInv, RetentionTypeOK
      <3>3. listed - RetentionDays < EndOf(MonthOf(d))
        BY <3>1 DEF RetentionInv, RowsInPartitions, LookedThrough
      <3>4. EndOf(MonthOf(d)) <= d + DaysPerMonth /\ EndOf(MonthOf(d)) \in Int
        BY <3>2, DaysOfMonth, RetentionAssumption DEF EndOf
      <3> QED
        BY <3>2, <3>3, <3>4, RetentionAssumption
    <2> QED
      BY <2>1, <2>2 DEF WindowKept
  <1> QED
    BY <1>1, InvariantHolds, PTL

-----------------------------------------------------------------------------
(* Alerts: the types, and what pays for a delivery *)

AlertSteps ==
    {"idle", "get", "deliver", "mark", "escalate", "active", "total", "clear",
     "queue", "health", "next", "messages", "event", "row"}
Alerting ==
    [at : AlertSteps, key : AlertKeys, none : BOOLEAN,
     left : SUBSET Accounts, failing : SUBSET Accounts]

AlertTypes ==
    /\ alerting \in [Tasks -> Alerting]
    /\ \A t \in Tasks : alerting[t].at = "row" => alerting[t].key[2] \in Accounts
    /\ DOMAIN marks = AlertKeys /\ DOMAIN rung = AlertKeys
    /\ \A k \in AlertKeys : /\ marks[k] \in 0..DedupWindow(k)
                            /\ rung[k] \in [1..DedupWindow(k) -> Nat]
    /\ throws \in Nat

\* The handlers about to deliver an alert, or to write its mark.
AtKey(k, at) == {t \in Tasks : alerting[t].at = at /\ alerting[t].key = k}
\* The deliveries that will still be within the window when the mark expires
Outlive(k) == {p \in RungWithin(k) : p[1] > marks[k]}

\* Every delivery within the window, and every one about to be made, is paid for
\* by a handler or by a query that threw; those the mark does not cover are by a
\* handler that has yet to write it.
RungPaid(k) ==
    Cardinality(RungWithin(k)) + Cardinality(AtKey(k, "deliver"))
        <= Cardinality(Tasks) + throws
MarkOwed(k) ==
    Cardinality(Outlive(k)) <= Cardinality(AtKey(k, "mark")) + throws
RungInv == AlertTypes /\ \A k \in AlertKeys : RungPaid(k) /\ MarkOwed(k)

LEMMA WindowIsNat ==
    ASSUME NEW k \in AlertKeys
    PROVE  DedupWindow(k) \in Nat /\ DedupWindow(k) >= 1
  BY AlertsAssumption DEF DedupWindow

\* A delivery within the window is a pair of what is left of it and a number.
LEMMA WithinIs ==
    ASSUME NEW k \in AlertKeys
    PROVE  /\ \A p : p \in RungWithin(k) <=>
                  /\ p = <<p[1], p[2]>>
                  /\ p[1] \in 1..DedupWindow(k)
                  /\ p[2] \in 1..rung[k][p[1]]
           /\ \A r, i : <<r, i>> \in RungWithin(k) <=>
                  r \in 1..DedupWindow(k) /\ i \in 1..rung[k][r]
  <1>1. \A p : p \in RungWithin(k) <=>
              \E r \in 1..DedupWindow(k) : p \in {r} \X (1..rung[k][r])
    BY DEF RungWithin
  <1> QED
    BY <1>1

LEMMA WithinFinite ==
    ASSUME AlertTypes, NEW k \in AlertKeys
    PROVE  IsFiniteSet(RungWithin(k)) /\ IsFiniteSet(Outlive(k))
  <1> DEFINE Parts == {{r} \X (1..rung[k][r]) : r \in 1..DedupWindow(k)}
             Bound == (1..DedupWindow(k))
                          \X (UNION {1..rung[k][r] : r \in 1..DedupWindow(k)})
  <1>1. IsFiniteSet(1..DedupWindow(k))
    BY WindowIsNat, FS_Interval
  <1>2. IsFiniteSet(UNION {1..rung[k][r] : r \in 1..DedupWindow(k)})
    <2> DEFINE f == [r \in 1..DedupWindow(k) |-> 1..rung[k][r]]
               T == {1..rung[k][r] : r \in 1..DedupWindow(k)}
    <2>1. f \in Surjection(1..DedupWindow(k), T)
      BY DEF Surjection
    <2>2. IsFiniteSet(T)
      BY <1>1, <2>1, FS_Surjection
    <2>3. \A r \in 1..DedupWindow(k) : rung[k][r] \in Nat
      BY DEF AlertTypes
    <2>4. \A u \in T : IsFiniteSet(u)
      BY <2>3, FS_Interval
    <2> QED
      BY <2>2, <2>4, FS_UNION
  <1>3. IsFiniteSet(Bound)
    BY <1>1, <1>2, FS_Product
  <1>4. RungWithin(k) \in SUBSET Bound
    <2> SUFFICES ASSUME NEW p \in RungWithin(k) PROVE p \in Bound
      OBVIOUS
    <2>1. /\ p = <<p[1], p[2]>>
          /\ p[1] \in 1..DedupWindow(k)
          /\ p[2] \in 1..rung[k][p[1]]
      BY WithinIs
    <2>2. p[2] \in UNION {1..rung[k][r] : r \in 1..DedupWindow(k)}
      BY <2>1
    <2> QED
      BY <2>1, <2>2
  <1>5. IsFiniteSet(RungWithin(k))
    BY <1>3, <1>4, FS_Subset
  <1>6. Outlive(k) \in SUBSET RungWithin(k)
    BY DEF Outlive
  <1> QED
    BY <1>5, <1>6, FS_Subset

LEMMA AtKeyFinite ==
    ASSUME NEW k, NEW at
    PROVE  /\ IsFiniteSet(AtKey(k, at)) /\ Cardinality(AtKey(k, at)) \in Nat
           /\ IsFiniteSet(Tasks) /\ Cardinality(Tasks) \in Nat
  <1>1. IsFiniteSet(Tasks) /\ AtKey(k, at) \in SUBSET Tasks
    BY AlertsAssumption DEF AtKey
  <1> QED
    BY <1>1, FS_Subset, FS_CardinalityType

LEMMA InitRung == AlertsInit => RungInv
  <1> SUFFICES ASSUME AlertsInit PROVE RungInv
    OBVIOUS
  <1>1. AlertTypes
    <2>1. Idling \in Alerting /\ Idling.at = "idle"
      BY DEF Idling, Alerting, AlertSteps, AlertKeys, PoolTypes
    <2>2. \A k \in AlertKeys : DedupWindow(k) \in Nat
      BY WindowIsNat
    <2> QED
      BY <2>1, <2>2 DEF AlertsInit, AlertTypes
  <1>2. ASSUME NEW k \in AlertKeys PROVE RungPaid(k) /\ MarkOwed(k)
    <2>1. RungWithin(k) = {}
      <3> SUFFICES ASSUME NEW p \in RungWithin(k) PROVE FALSE
        OBVIOUS
      <3>1. p[1] \in 1..DedupWindow(k) /\ p[2] \in 1..rung[k][p[1]]
        BY WithinIs
      <3> QED
        BY <3>1 DEF AlertsInit
    <2>2. AtKey(k, "deliver") = {} /\ AtKey(k, "mark") = {} /\ Outlive(k) = {}
      BY <2>1 DEF AtKey, AlertsInit, Idling, Outlive
    <2> QED
      BY <2>1, <2>2, FS_EmptySet, AtKeyFinite DEF RungPaid, MarkOwed, AlertsInit
  <1> QED
    BY <1>1, <1>2 DEF RungInv

-----------------------------------------------------------------------------
(* The steps of a handler, by what they do to the alerts in its hands. *)

\* the handler is on neither side of a delivery
Aside(t) == alerting'[t].at \notin {"deliver", "mark"}
Others(t) == \A u \in Tasks \ {t} : alerting'[u] = alerting[u]

\* A record of a handler with another step or another alert is one too.
LEMMA MovesTyped ==
    ASSUME AlertTypes, NEW t \in Tasks
    PROVE  /\ \A at \in AlertSteps \ {"row"} : GoOn(t, at) =>
                /\ alerting' \in [Tasks -> Alerting] /\ Others(t)
                /\ alerting'[t].at = at /\ alerting'[t].key = alerting[t].key
           /\ \A type \in PoolTypes \cup AccountTypes,
                 e \in {Global} \cup Accounts :
                <<type, e>> \in AlertKeys /\ Ring(t, type, e) =>
                /\ alerting' \in [Tasks -> Alerting] /\ Others(t)
                /\ alerting'[t].at = "get"
           /\ Finish(t) =>
                /\ alerting' \in [Tasks -> Alerting] /\ Others(t)
                /\ alerting'[t].at = "idle"
  <1>1. alerting \in [Tasks -> Alerting]
    BY DEF AlertTypes
  <1>2. Idling \in Alerting /\ Idling.at = "idle"
    BY DEF Idling, Alerting, AlertSteps, AlertKeys, PoolTypes
  <1>3. ASSUME NEW at \in AlertSteps \ {"row"}, GoOn(t, at)
        PROVE  /\ alerting' \in [Tasks -> Alerting] /\ Others(t)
               /\ alerting'[t].at = at /\ alerting'[t].key = alerting[t].key
    BY <1>1, <1>3 DEF GoOn, Others, Alerting
  <1>4. ASSUME NEW type \in PoolTypes \cup AccountTypes,
               NEW e \in {Global} \cup Accounts,
               <<type, e>> \in AlertKeys, Ring(t, type, e)
        PROVE  /\ alerting' \in [Tasks -> Alerting] /\ Others(t)
               /\ alerting'[t].at = "get"
    <2> DEFINE q == <<type, e>>
    <2>1. q \in AlertKeys
      BY <1>4
    <2>2. alerting' = [alerting EXCEPT ![t].at = "get", ![t].key = q]
      BY <1>4 DEF Ring
    <2> HIDE DEF q
    <2> QED
      BY <1>1, <2>1, <2>2 DEF Others, Alerting, AlertSteps
  <1> QED
    BY <1>1, <1>2, <1>3, <1>4 DEF Finish, Others

LEMMA ReturnsTyped ==
    ASSUME AlertTypes, NEW t \in Tasks, Return(t)
    PROVE  /\ alerting' \in [Tasks -> Alerting] /\ Others(t)
           /\ alerting'[t].at \notin {"deliver", "mark", "row"}
  <1>1. \/ \E at \in {"queue", "health", "next"} : GoOn(t, at)
        \/ Finish(t)
    BY DEF Return
  <1> QED
    BY <1>1, MovesTyped DEF AlertSteps

\* What a handler does that touches neither side of a delivery.
LEMMA AsideTyped ==
    ASSUME AlertTypes, NEW t \in Tasks,
           \/ ReadMark(t) /\ marks[alerting[t].key] > 0
           \/ Escalate(t) \/ CountConnected(t) \/ CountTotal(t)
           \/ ClearEscalation(t) \/ CheckQueueDepth(t) \/ ListAccounts(t)
           \/ NextAccount(t) \/ Evaluate(t) \/ RecordSuspicion(t) \/ ReadRow(t)
    PROVE  /\ alerting' \in [Tasks -> Alerting] /\ Others(t) /\ Aside(t)
           /\ alerting'[t].at # "row"
           /\ alerting[t].at \notin {"deliver", "mark"}
           /\ UNCHANGED <<marks, rung>>
  <1> DEFINE Goal == /\ alerting' \in [Tasks -> Alerting] /\ Others(t) /\ Aside(t)
                     /\ alerting'[t].at # "row"
                     /\ alerting[t].at \notin {"deliver", "mark"}
                     /\ UNCHANGED <<marks, rung>>
  <1> USE DEF Aside
  <1>a. \A at \in AlertSteps \ {"row", "deliver", "mark"} : GoOn(t, at) =>
            alerting' \in [Tasks -> Alerting] /\ Others(t) /\ alerting'[t].at = at
    BY MovesTyped
  <1>b. \A type \in PoolTypes : Ring(t, type, Global) =>
            /\ alerting' \in [Tasks -> Alerting]
            /\ Others(t)
            /\ alerting'[t].at = "get"
    <2>1. \A type \in PoolTypes : <<type, Global>> \in AlertKeys
      BY DEF AlertKeys
    <2> QED
      BY <2>1, MovesTyped
  <1>c. \A type \in AccountTypes, a \in Accounts : Ring(t, type, a) =>
            /\ alerting' \in [Tasks -> Alerting]
            /\ Others(t)
            /\ alerting'[t].at = "get"
    <2>1. \A type \in AccountTypes, a \in Accounts : <<type, a>> \in AlertKeys
      BY DEF AlertKeys
    <2> QED
      BY <2>1, MovesTyped
  <1>d. Finish(t) =>
            /\ alerting' \in [Tasks -> Alerting]
            /\ Others(t)
            /\ alerting'[t].at = "idle"
    BY MovesTyped
  <1>e. alerting \in [Tasks -> Alerting] /\ Connected \subseteq Accounts
    BY DEF AlertTypes, Connected
  <1>1. CASE ReadMark(t) /\ marks[alerting[t].key] > 0
    BY <1>1, ReturnsTyped DEF ReadMark
  <1>2. CASE Escalate(t)
    BY <1>2, ReturnsTyped DEF Escalate
  <1>3. CASE CountConnected(t)
    <2>1. CASE GoOn(t, "clear")
      BY <1>3, <2>1, <1>a DEF CountConnected, AlertSteps
    <2>2. CASE alerting' = [alerting EXCEPT ![t].at = "total",
                                            ![t].none = (Connected = {})]
      <3> DEFINE none == (Connected = {})
      <3>1. none \in BOOLEAN
        OBVIOUS
      <3>2. alerting' = [alerting EXCEPT ![t].at = "total", ![t].none = none]
        BY <2>2
      <3> HIDE DEF none
      <3>3. /\ alerting' \in [Tasks -> Alerting]
            /\ Others(t)
            /\ alerting'[t].at = "total"
        BY <3>1, <3>2, <1>e DEF Others, Alerting, AlertSteps
      <3> QED
        BY <1>3, <3>3 DEF CountConnected
    <2> QED
      BY <1>3, <2>1, <2>2 DEF CountConnected
  <1>4. CASE CountTotal(t)
    BY <1>4, <1>a, <1>b DEF CountTotal, AlertSteps, PoolTypes
  <1>5. CASE ClearEscalation(t)
    BY <1>5, <1>a DEF ClearEscalation, AlertSteps
  <1>6. CASE CheckQueueDepth(t)
    BY <1>6, <1>a, <1>b DEF CheckQueueDepth, AlertSteps, PoolTypes
  <1>7. CASE ListAccounts(t)
    <2> DEFINE bad == {a \in Connected : health[a] = "failing"}
    <2>1. bad \subseteq Accounts
      BY <1>e
    <2>2. alerting' = [alerting EXCEPT ![t].at = "next", ![t].left = Connected,
                                       ![t].failing = bad]
      BY <1>7 DEF ListAccounts
    <2> DEFINE up == Connected
    <2>3. up \subseteq Accounts
               /\ alerting' = [alerting EXCEPT ![t].at = "next", ![t].left = up,
                                                ![t].failing = bad]
      BY <2>2, <1>e
    <2> HIDE DEF bad, up
    <2>4. /\ alerting' = [alerting EXCEPT
                 ![t] = [alerting[t] EXCEPT !.at = "next", !.left = up,
                                            !.failing = bad]]
          /\ [alerting[t] EXCEPT !.at = "next", !.left = up, !.failing = bad]
                 \in Alerting
      BY <2>1, <2>3, <1>e DEF Alerting, AlertSteps
    <2>5. alerting' \in [Tasks -> Alerting] /\ Others(t) /\ alerting'[t].at = "next"
      BY <2>4, <1>e DEF Others
    <2> QED
      BY <1>7, <2>5 DEF ListAccounts
  <1>8. CASE NextAccount(t)
    <2>1. CASE Finish(t)
      BY <1>8, <2>1, <1>d DEF NextAccount
    <2>2. ASSUME NEW a \in alerting[t].left,
                 alerting' = [alerting EXCEPT ![t].left = @ \ {a}]
          PROVE  Goal
      <3> DEFINE rest == alerting[t].left \ {a}
                 next == [alerting[t] EXCEPT !.left = rest]
      <3>1. alerting[t].at = "next" /\ alerting[t] \in Alerting
        BY <1>8, <1>e DEF NextAccount
      <3>2. rest \in SUBSET Accounts
        BY <3>1 DEF Alerting
      <3>3. alerting' = [alerting EXCEPT ![t] = next]
        BY <2>2, <1>e
      <3> HIDE DEF rest
      <3>4. next \in Alerting /\ next.at = "next"
        BY <3>1, <3>2 DEF Alerting
      <3> HIDE DEF next
      <3>5. /\ alerting' \in [Tasks -> Alerting]
            /\ Others(t)
            /\ alerting'[t].at = "next"
        BY <3>3, <3>4, <1>e DEF Others
      <3> QED
        BY <1>8, <3>1, <3>5 DEF NextAccount
    <2>3. ASSUME NEW a \in alerting[t].left,
                 alerting' = [alerting EXCEPT ![t].at = "messages",
                                 ![t].key = <<"ACCOUNT_SUSPECT", a>>,
                                 ![t].left = @ \ {a}]
          PROVE  Goal
      <3> DEFINE q == <<"ACCOUNT_SUSPECT", a>>
      <3>1. q \in AlertKeys
        BY <1>e DEF AlertKeys, AccountTypes, Alerting
      <3>2. alerting' = [alerting EXCEPT ![t].at = "messages", ![t].key = q,
                                         ![t].left = @ \ {a}]
        BY <2>3
      <3> HIDE DEF q
      <3>3. /\ alerting' \in [Tasks -> Alerting]
            /\ Others(t)
            /\ alerting'[t].at = "messages"
        BY <3>1, <3>2, <1>e DEF Others, Alerting, AlertSteps
      <3> QED
        BY <1>8, <3>3 DEF NextAccount
    <2> QED
      BY <1>8, <2>1, <2>2, <2>3 DEF NextAccount
  <1>9. CASE Evaluate(t)
    BY <1>9, <1>a DEF Evaluate, AlertSteps
  <1>10. CASE RecordSuspicion(t)
    BY <1>10, <1>a DEF RecordSuspicion, AlertSteps
  <1>11. CASE ReadRow(t)
    <2>1. alerting[t].at = "row" /\ alerting[t].key[2] \in Accounts
      BY <1>11 DEF ReadRow, AlertTypes
    <2>2. Finish(t) \/ \E type \in AccountTypes : Ring(t, type, alerting[t].key[2])
      BY <1>11 DEF ReadRow, AccountTypes
    <2> QED
      BY <1>11, <2>1, <2>2, <1>c, <1>d DEF ReadRow
  <1> QED
    BY <1>1, <1>2, <1>3, <1>4, <1>5, <1>6, <1>7, <1>8, <1>9, <1>10, <1>11
-----------------------------------------------------------------------------
(* The counts *)

\* A step that leaves deliveries, marks and both sides of them alone.
LEMMA QuietRung ==
    ASSUME RungInv, NEW k \in AlertKeys, UNCHANGED <<marks, rung, throws>>,
           \A u \in Tasks : \A at \in {"deliver", "mark"} :
               (alerting'[u].at = at /\ alerting'[u].key = k) <=>
               (alerting[u].at = at /\ alerting[u].key = k)
    PROVE  (RungPaid(k) /\ MarkOwed(k))'
  <1>1. /\ AtKey(k, "deliver")' = AtKey(k, "deliver")
        /\ AtKey(k, "mark")' = AtKey(k, "mark")
    BY DEF AtKey
  <1>2. RungWithin(k)' = RungWithin(k) /\ Outlive(k)' = Outlive(k)
    BY DEF RungWithin, Outlive
  <1> QED
    BY <1>1, <1>2 DEF RungInv, RungPaid, MarkOwed

\* Where nothing of an alert is within its window there is room for one more.
LEMMA Room ==
    ASSUME RungInv, NEW t \in Tasks, alerting[t].at = "get",
           marks[alerting[t].key] = 0
    PROVE  LET k == alerting[t].key IN
           Cardinality(RungWithin(k)) + Cardinality(AtKey(k, "deliver")) + 1
               <= Cardinality(Tasks) + throws
  <1> DEFINE k == alerting[t].key
  <1>k. k \in AlertKeys /\ throws \in Nat
    BY DEF RungInv, AlertTypes, Alerting
  <1>z. marks[k] = 0
    OBVIOUS
  <1>1. Outlive(k) = RungWithin(k)
    <2>1. \A p \in RungWithin(k) : p[1] > 0
      BY <1>k, WithinIs, WindowIsNat
    <2> QED
      BY <1>z, <2>1 DEF Outlive
  <1>2. Cardinality(RungWithin(k)) <= Cardinality(AtKey(k, "mark")) + throws
    BY <1>1, <1>k DEF RungInv, MarkOwed
  <1> DEFINE D == AtKey(k, "deliver")
             M == AtKey(k, "mark")
  <1>3. IsFiniteSet(D) /\ IsFiniteSet(M) /\ Cardinality(D) \in Nat
        /\ Cardinality(M) \in Nat /\ IsFiniteSet(Tasks)
    BY AtKeyFinite
  <1>4. D \cap M = {} /\ D \cup M \in SUBSET (Tasks \ {t})
    BY DEF AtKey
  <1>5. Cardinality(D \cup M) = Cardinality(D) + Cardinality(M)
    <2>1. Cardinality(D \cap M) = 0
      BY <1>4, FS_EmptySet
    <2> HIDE DEF D, M
    <2>2. Cardinality(D \cup M)
              = Cardinality(D) + Cardinality(M) - Cardinality(D \cap M)
      BY <1>3, FS_Union
    <2> QED
      BY <1>3, <2>1, <2>2
  <1>6. /\ IsFiniteSet(Tasks \ {t})
        /\ Cardinality(Tasks \ {t}) = Cardinality(Tasks) - 1
    BY <1>3, FS_RemoveElement
  <1>7. Cardinality(D \cup M) <= Cardinality(Tasks \ {t})
    BY <1>4, <1>6, FS_Subset
  <1>8. Cardinality(RungWithin(k)) \in Nat /\ Cardinality(Tasks) \in Nat
    BY <1>k, WithinFinite, FS_CardinalityType, AtKeyFinite DEF RungInv
  <1> HIDE DEF D, M, k
  <1>9. Cardinality(RungWithin(k)) + Cardinality(D) + 1
            <= Cardinality(Tasks) + throws
    BY <1>2, <1>3, <1>5, <1>6, <1>7, <1>8, <1>k DEF M
  <1> QED
    BY <1>9 DEF k, D

\* A handler passes the mark: one delivery more is under way.
LEMMA PassRung ==
    ASSUME RungInv, NEW t \in Tasks, ReadMark(t), marks[alerting[t].key] = 0,
           UNCHANGED throws
    PROVE  RungInv'
  <1>q. PICK q \in AlertKeys : q = alerting[t].key
    BY DEF RungInv, AlertTypes, Alerting
  <1>1. AlertTypes /\ q \in AlertKeys
    BY DEF RungInv
  <1>2. GoOn(t, "deliver") /\ alerting[t].at = "get" /\ UNCHANGED <<marks, rung>>
    BY DEF ReadMark
  <1>3. alerting' \in [Tasks -> Alerting] /\ Others(t)
        /\ alerting'[t].at = "deliver" /\ alerting'[t].key = q
    BY <1>q, <1>1, <1>2, MovesTyped DEF AlertSteps
  <1>4. AlertTypes'
    BY <1>1, <1>2, <1>3 DEF AlertTypes, Others
  <1>5. ASSUME NEW k \in AlertKeys, k # q PROVE (RungPaid(k) /\ MarkOwed(k))'
    <2>1. \A u \in Tasks : \A at \in {"deliver", "mark"} :
               (alerting'[u].at = at /\ alerting'[u].key = k) <=>
               (alerting[u].at = at /\ alerting[u].key = k)
      BY <1>q, <1>2, <1>3, <1>5 DEF Others
    <2> QED
      BY <1>2, <2>1, QuietRung
  <1>6. (RungPaid(q) /\ MarkOwed(q))'
    <2> SUFFICES ASSUME NEW k \in AlertKeys, k = q
                 PROVE  (RungPaid(k) /\ MarkOwed(k))'
      BY <1>1
    <2>1. AtKey(k, "deliver")' = AtKey(k, "deliver") \cup {t}
      BY <1>3 DEF AtKey, Others
    <2>2. AtKey(k, "mark")' = AtKey(k, "mark")
      BY <1>q, <1>2, <1>3 DEF AtKey, Others
    <2>3. RungWithin(k)' = RungWithin(k) /\ Outlive(k)' = Outlive(k)
      BY <1>2 DEF RungWithin, Outlive
    <2>4. Cardinality(RungWithin(k)) + Cardinality(AtKey(k, "deliver")) + 1
               <= Cardinality(Tasks) + throws
      BY <1>q, <1>2, Room
    <2>5. t \notin AtKey(k, "deliver")
      BY <1>2 DEF AtKey
    <2>6. Cardinality(AtKey(k, "deliver") \cup {t})
              = Cardinality(AtKey(k, "deliver")) + 1
      BY <2>5, AtKeyFinite, FS_AddElement
    <2>8. throws \in Nat /\ Cardinality(Tasks) \in Nat
      BY <1>1, AtKeyFinite DEF AlertTypes
    <2>7. /\ Cardinality(RungWithin(k)) \in Nat
          /\ Cardinality(AtKey(k, "deliver")) \in Nat
      BY <1>1, WithinFinite, AtKeyFinite, FS_CardinalityType
    <2> QED
      <3>1. RungPaid(k)'
        <4>1. Cardinality(AtKey(k, "deliver")')
                  = Cardinality(AtKey(k, "deliver")) + 1
          BY <2>1, <2>6
        <4>2. Cardinality(RungWithin(k)') + Cardinality(AtKey(k, "deliver")')
                  <= Cardinality(Tasks) + throws'
          BY <2>3, <2>4, <2>7, <2>8, <4>1
        <4> QED
          BY <4>2 DEF RungPaid
      <3>2. MarkOwed(k)'
        BY <2>2, <2>3 DEF MarkOwed, RungInv
      <3> QED
        BY <3>1, <3>2
  <1> QED
    BY <1>4, <1>5, <1>6 DEF RungInv

\* A delivery: from now on it is owed a mark.
LEMMA DeliverRung ==
    ASSUME RungInv, NEW t \in Tasks, Deliver(t), UNCHANGED throws
    PROVE  RungInv'
  <1>q. PICK q \in AlertKeys : q = alerting[t].key
    BY DEF RungInv, AlertTypes, Alerting
  <1> DEFINE w == DedupWindow(q)
  <1>1. AlertTypes /\ q \in AlertKeys /\ w \in Nat /\ w >= 1
    BY WindowIsNat DEF RungInv
  <1>2. GoOn(t, "mark") /\ alerting[t].at = "deliver" /\ marks' = marks
    BY DEF Deliver
  <1>3. alerting' \in [Tasks -> Alerting] /\ Others(t)
        /\ alerting'[t].at = "mark" /\ alerting'[t].key = q
    BY <1>q, <1>1, <1>2, MovesTyped DEF AlertSteps
  <1>4. rung' = [rung EXCEPT ![q] = [rung[q] EXCEPT ![w] = @ + 1]]
    BY <1>q, <1>1 DEF Deliver, AlertTypes
  <1>5. AlertTypes'
    <2>1. [rung[q] EXCEPT ![w] = @ + 1] \in [1..w -> Nat]
      BY <1>1 DEF AlertTypes
    <2>2. DOMAIN rung' = AlertKeys
          /\ \A k \in AlertKeys : rung'[k] \in [1..DedupWindow(k) -> Nat]
      BY <1>1, <1>4, <2>1 DEF AlertTypes
    <2> QED
      BY <1>1, <1>2, <1>3, <2>2 DEF AlertTypes, Others
  <1>6. ASSUME NEW k \in AlertKeys, k # q PROVE (RungPaid(k) /\ MarkOwed(k))'
    <2>1. /\ AtKey(k, "deliver")' = AtKey(k, "deliver")
          /\ AtKey(k, "mark")' = AtKey(k, "mark")
      BY <1>q, <1>2, <1>3, <1>6 DEF AtKey, Others
    <2>2. rung'[k] = rung[k] /\ marks'[k] = marks[k]
      BY <1>1, <1>2, <1>4, <1>6 DEF AlertTypes
    <2>3. RungWithin(k)' = RungWithin(k) /\ Outlive(k)' = Outlive(k)
      BY <2>2 DEF RungWithin, Outlive
    <2> QED
      BY <2>1, <2>3 DEF RungInv, RungPaid, MarkOwed
  <1>7. (RungPaid(q) /\ MarkOwed(q))'
    <2> SUFFICES ASSUME NEW k \in AlertKeys, k = q
                 PROVE  (RungPaid(k) /\ MarkOwed(k))'
      BY <1>1
    <2> DEFINE p == <<w, rung[k][w] + 1>>
    <2>1. /\ rung[k] \in [1..w -> Nat] /\ rung'[k] \in [1..w -> Nat]
          /\ rung'[k][w] = rung[k][w] + 1
          /\ \A r \in 1..w : r # w => rung'[k][r] = rung[k][r]
      BY <1>1, <1>4, <1>5 DEF AlertTypes
    <2>2. RungWithin(k)' = RungWithin(k) \cup {p}
      <3>1. \A x : x \in RungWithin(k) <=>
               x = <<x[1], x[2]>> /\ x[1] \in 1..w /\ x[2] \in 1..rung[k][x[1]]
        BY WithinIs
      <3>2. \A x : x \in RungWithin(k)' <=>
               x = <<x[1], x[2]>> /\ x[1] \in 1..w /\ x[2] \in 1..rung'[k][x[1]]
        <4>1. \A x : x \in RungWithin(k)' <=>
                \E r \in 1..w : x \in {r} \X (1..rung'[k][r])
          BY DEF RungWithin
        <4> QED
          BY <4>1
      <3>3. ASSUME NEW x \in RungWithin(k)' PROVE x \in RungWithin(k) \cup {p}
        <4>1. x = <<x[1], x[2]>> /\ x[1] \in 1..w /\ x[2] \in 1..rung'[k][x[1]]
          BY <3>2, <3>3
        <4>2. CASE x[1] # w
          <5>1. rung'[k][x[1]] = rung[k][x[1]]
            BY <2>1, <4>1, <4>2
          <5> QED
            BY <3>1, <4>1, <5>1
        <4>3. CASE x[1] = w
          <5>1. x[2] \in 1..rung[k][w] \/ x[2] = rung[k][w] + 1
            BY <1>1, <2>1, <4>1, <4>3
          <5> QED
            BY <3>1, <4>1, <4>3, <5>1
        <4> QED
          BY <4>2, <4>3
      <3>4. ASSUME NEW x \in RungWithin(k) PROVE x \in RungWithin(k)'
        <4>1. x = <<x[1], x[2]>> /\ x[1] \in 1..w /\ x[2] \in 1..rung[k][x[1]]
          BY <3>1, <3>4
        <4>2. rung[k][x[1]] \in Nat /\ rung'[k][x[1]] \in Nat
              /\ rung[k][x[1]] <= rung'[k][x[1]]
          BY <1>1, <2>1, <4>1
        <4>3. x[2] \in 1..rung'[k][x[1]]
          BY <4>1, <4>2
        <4> QED
          BY <3>2, <4>1, <4>3
      <3>5. p \in RungWithin(k)'
        <4>1. w \in 1..w /\ rung[k][w] + 1 \in 1..rung'[k][w]
          BY <1>1, <2>1
        <4>2. p[1] = w /\ p[2] = rung[k][w] + 1 /\ p = <<p[1], p[2]>>
          OBVIOUS
        <4> QED
          BY <3>2, <4>1, <4>2
      <3> QED
        BY <3>3, <3>4, <3>5
    <2>3. p \notin RungWithin(k)
      BY <1>1, <2>1, WithinIs
    <2>4. Outlive(k)' \in SUBSET (Outlive(k) \cup {p})
      BY <1>2, <2>2 DEF Outlive
    <2>5. /\ AtKey(k, "deliver")' = AtKey(k, "deliver") \ {t}
          /\ t \in AtKey(k, "deliver")
      BY <1>q, <1>2, <1>3 DEF AtKey, Others
    <2>6. AtKey(k, "mark")' = AtKey(k, "mark") \cup {t} /\ t \notin AtKey(k, "mark")
      BY <1>q, <1>2, <1>3 DEF AtKey, Others
    <2> HIDE DEF p
    <2>7. IsFiniteSet(RungWithin(k)) /\ IsFiniteSet(Outlive(k))
          /\ Cardinality(RungWithin(k)) \in Nat /\ Cardinality(Outlive(k)) \in Nat
      BY <1>1, WithinFinite, FS_CardinalityType
    <2>8. Cardinality(RungWithin(k) \cup {p}) = Cardinality(RungWithin(k)) + 1
      BY <2>3, <2>7, FS_AddElement
    <2>9. /\ IsFiniteSet(Outlive(k) \cup {p})
          /\ Cardinality(Outlive(k) \cup {p}) <= Cardinality(Outlive(k)) + 1
          /\ Cardinality(Outlive(k) \cup {p}) \in Nat
      <3>1. IsFiniteSet(Outlive(k) \cup {p})
            /\ Cardinality(Outlive(k) \cup {p}) = IF p \in Outlive(k)
                   THEN Cardinality(Outlive(k)) ELSE Cardinality(Outlive(k)) + 1
        BY <2>7, FS_AddElement
      <3> QED
        BY <2>7, <3>1
    <2>10. /\ Cardinality(Outlive(k)') <= Cardinality(Outlive(k)) + 1
           /\ Cardinality(Outlive(k)') \in Nat
      <3>1. /\ IsFiniteSet(Outlive(k)')
            /\ Cardinality(Outlive(k)') <= Cardinality(Outlive(k) \cup {p})
        BY <2>4, <2>9, FS_Subset
      <3>2. Cardinality(Outlive(k)') \in Nat
        BY <3>1, FS_CardinalityType
      <3> QED
        BY <2>7, <2>9, <3>1, <3>2
    <2>11. Cardinality(AtKey(k, "deliver") \ {t})
               = Cardinality(AtKey(k, "deliver")) - 1
           /\ Cardinality(AtKey(k, "mark") \cup {t})
                  = Cardinality(AtKey(k, "mark")) + 1
      <3>1. IsFiniteSet(AtKey(k, "deliver")) /\ IsFiniteSet(AtKey(k, "mark"))
        BY AtKeyFinite
      <3>2. Cardinality(AtKey(k, "deliver") \ {t})
                = Cardinality(AtKey(k, "deliver")) - 1
        BY <2>5, <3>1, FS_RemoveElement
      <3>3. Cardinality(AtKey(k, "mark") \cup {t})
                = Cardinality(AtKey(k, "mark")) + 1
        BY <2>6, <3>1, FS_AddElement
      <3> QED
        BY <3>2, <3>3
    <2>12. /\ Cardinality(AtKey(k, "deliver")) \in Nat
           /\ Cardinality(AtKey(k, "mark")) \in Nat
           /\ Cardinality(Tasks) \in Nat /\ throws \in Nat /\ throws' = throws
      BY <1>1, AtKeyFinite DEF AlertTypes
    <2>13. RungPaid(k) /\ MarkOwed(k)
      BY DEF RungInv
    <2>14. RungPaid(k)'
      BY <2>2, <2>5, <2>7, <2>8, <2>11, <2>12, <2>13 DEF RungPaid
    <2>15. MarkOwed(k)'
      <3>1. Cardinality(Outlive(k)) <= Cardinality(AtKey(k, "mark")) + throws
        BY <2>13 DEF MarkOwed
      <3>2. Cardinality(AtKey(k, "mark")') = Cardinality(AtKey(k, "mark")) + 1
        BY <2>6, <2>11
      <3>3. Cardinality(Outlive(k)') <= Cardinality(AtKey(k, "mark")') + throws'
        BY <2>7, <2>10, <2>12, <3>1, <3>2
      <3> QED
        BY <3>3 DEF MarkOwed
    <2> QED
      BY <2>14, <2>15
  <1> QED
    BY <1>5, <1>6, <1>7 DEF RungInv
\* The mark is written: what was delivered before it is gone when it expires.
LEMMA MarkRung ==
    ASSUME RungInv, NEW t \in Tasks, MarkSent(t), UNCHANGED throws
    PROVE  RungInv'
  <1>q. PICK q \in AlertKeys : q = alerting[t].key
    BY DEF RungInv, AlertTypes, Alerting
  <1>1. AlertTypes /\ DedupWindow(q) \in Nat
    BY WindowIsNat DEF RungInv
  <1>2. /\ alerting[t].at = "mark" /\ UNCHANGED rung
        /\ marks' = [marks EXCEPT ![q] = DedupWindow(q)]
    BY <1>q DEF MarkSent
  <1>3. alerting' \in [Tasks -> Alerting] /\ Others(t)
        /\ alerting'[t].at \notin {"deliver", "mark", "row"}
    BY <1>1, MovesTyped, ReturnsTyped DEF MarkSent, AlertSteps
  <1>4. AlertTypes'
    BY <1>1, <1>2, <1>3 DEF AlertTypes, Others
  <1>5. ASSUME NEW k \in AlertKeys PROVE RungPaid(k)'
    <2>1. /\ AtKey(k, "deliver")' = AtKey(k, "deliver")
          /\ RungWithin(k)' = RungWithin(k)
      BY <1>2, <1>3 DEF AtKey, Others, RungWithin
    <2> QED
      BY <2>1 DEF RungInv, RungPaid
  <1>6. ASSUME NEW k \in AlertKeys, k # q PROVE MarkOwed(k)'
    <2>1. AtKey(k, "mark")' = AtKey(k, "mark") /\ RungWithin(k)' = RungWithin(k)
      BY <1>q, <1>2, <1>3, <1>6 DEF AtKey, Others, RungWithin
    <2>2. marks'[k] = marks[k]
      BY <1>1, <1>2, <1>6 DEF AlertTypes
    <2>3. Outlive(k)' = Outlive(k)
      BY <2>1, <2>2 DEF Outlive
    <2> QED
      BY <2>1, <2>3 DEF RungInv, MarkOwed
  <1>7. MarkOwed(q)'
    <2>1. \A p \in RungWithin(q) : p[1] \in 1..DedupWindow(q)
      BY WithinIs
    <2>2. marks'[q] = DedupWindow(q) /\ RungWithin(q)' = RungWithin(q)
      BY <1>1, <1>2 DEF AlertTypes, RungWithin
    <2>3. Outlive(q)' = {}
      BY <1>1, <2>1, <2>2 DEF Outlive
    <2>4. Cardinality(Outlive(q)') = 0
      BY <2>3, FS_EmptySet
    <2>5. AtKey(q, "mark")' \in SUBSET Tasks
      BY DEF AtKey
    <2>6. Cardinality(AtKey(q, "mark")') \in Nat
      BY <2>5, AlertsAssumption, FS_Subset, FS_CardinalityType
    <2> QED
      BY <1>4, <2>4, <2>6 DEF MarkOwed, AlertTypes
  <1> QED
    BY <1>4, <1>5, <1>6, <1>7 DEF RungInv

\* What leaves both sides alone: the rest of a handler, a new one, the world.
LEMMA AsideRung ==
    ASSUME RungInv, UNCHANGED <<marks, rung, throws>>,
           alerting' \in [Tasks -> Alerting],
           \A u \in Tasks : alerting'[u].at = "row" =>
               alerting'[u].key[2] \in Accounts,
           \A u \in Tasks : \/ alerting'[u] = alerting[u]
                            \/ /\ alerting[u].at \notin {"deliver", "mark"}
                               /\ Aside(u)
    PROVE  RungInv'
  <1>1. AlertTypes'
    BY DEF RungInv, AlertTypes
  <1>2. ASSUME NEW k \in AlertKeys PROVE (RungPaid(k) /\ MarkOwed(k))'
    <2>1. \A u \in Tasks : \A at \in {"deliver", "mark"} :
               (alerting'[u].at = at /\ alerting'[u].key = k) <=>
               (alerting[u].at = at /\ alerting[u].key = k)
      BY DEF Aside
    <2> QED
      BY <2>1, QuietRung
  <1> QED
    BY <1>1, <1>2 DEF RungInv

\* A query that throws: what was under way is lost, and counted as such.
LEMMA ThrowRung ==
    ASSUME RungInv, NEW t \in Tasks, TickThrows(t)
    PROVE  RungInv'
  <1>1. AlertTypes /\ throws \in Nat /\ throws' = throws + 1
        /\ UNCHANGED <<marks, rung>>
    BY DEF RungInv, AlertTypes, TickThrows
  <1>2. alerting' \in [Tasks -> Alerting] /\ Others(t) /\ alerting'[t].at = "idle"
    BY <1>1, MovesTyped DEF TickThrows
  <1>3. AlertTypes'
    BY <1>1, <1>2 DEF AlertTypes, Others
  <1>4. ASSUME NEW k \in AlertKeys PROVE (RungPaid(k) /\ MarkOwed(k))'
    <2> DEFINE D == AtKey(k, "deliver")
               M == AtKey(k, "mark")
    <2>1. RungWithin(k)' = RungWithin(k) /\ Outlive(k)' = Outlive(k)
      BY <1>1 DEF RungWithin, Outlive
    <2>2. D' = D \ {t} /\ M' = M \ {t}
      BY <1>2 DEF AtKey, Others
    <2>3. IsFiniteSet(D) /\ IsFiniteSet(M) /\ Cardinality(D) \in Nat
          /\ Cardinality(M) \in Nat /\ Cardinality(Tasks) \in Nat
      BY AtKeyFinite
    <2>4. Cardinality(RungWithin(k)) \in Nat /\ Cardinality(Outlive(k)) \in Nat
      BY <1>1, WithinFinite, FS_CardinalityType
    <2>5. RungPaid(k) /\ MarkOwed(k)
      BY DEF RungInv
    <2>6. \A S : IsFiniteSet(S) => Cardinality(S \ {t}) =
              IF t \in S THEN Cardinality(S) - 1 ELSE Cardinality(S)
      BY FS_RemoveElement
    <2>7. /\ Cardinality(D \ {t}) =
                IF t \in D THEN Cardinality(D) - 1 ELSE Cardinality(D)
          /\ Cardinality(M \ {t}) =
                IF t \in M THEN Cardinality(M) - 1 ELSE Cardinality(M)
      BY <2>3, <2>6
    <2> HIDE DEF D, M
    <2>8. Cardinality(RungWithin(k)) + Cardinality(D \ {t})
              <= Cardinality(Tasks) + throws'
      BY <1>1, <2>3, <2>4, <2>5, <2>7 DEF RungPaid, D
    <2>9. Cardinality(Outlive(k)) <= Cardinality(M \ {t}) + throws'
      BY <1>1, <2>3, <2>4, <2>5, <2>7 DEF MarkOwed, M
    <2> QED
      BY <2>1, <2>2, <2>8, <2>9 DEF RungPaid, MarkOwed, D, M
  <1> QED
    BY <1>3, <1>4 DEF RungInv

\* An interval passes: every window and every mark gets shorter by one, so
\* nothing comes within a window, and nothing outlives its mark that did not.
LEMMA IntervalRung ==
    ASSUME RungInv, IntervalPasses
    PROVE  RungInv'
  <1>1. AlertTypes /\ UNCHANGED throws /\ throws \in Nat
    BY DEF RungInv, AlertTypes, IntervalPasses
  <1>2. PICK t \in Tasks : alerting[t].at = "idle" /\ GoOn(t, "active")
    BY DEF IntervalPasses
  <1>3. alerting' \in [Tasks -> Alerting] /\ Others(t) /\ alerting'[t].at = "active"
    BY <1>1, <1>2, MovesTyped DEF AlertSteps
  <1>4. \A k \in AlertKeys : /\ marks'[k] = Sooner(marks[k])
                             /\ rung'[k] = Aged(rung[k])
    BY DEF IntervalPasses
  <1>5. DOMAIN marks' = AlertKeys /\ DOMAIN rung' = AlertKeys
    BY DEF IntervalPasses
  <1>6. ASSUME NEW k \in AlertKeys
        PROVE  /\ marks'[k] \in 0..DedupWindow(k)
               /\ marks[k] \in Nat /\ marks'[k] \in Nat /\ marks[k] <= marks'[k] + 1
               /\ rung'[k] \in [1..DedupWindow(k) -> Nat]
               /\ \A r \in 1..DedupWindow(k) :
                     rung'[k][r] = IF r + 1 \in 1..DedupWindow(k)
                                   THEN rung[k][r + 1] ELSE 0
    <2>1. marks[k] \in 0..DedupWindow(k) /\ DedupWindow(k) \in Nat
          /\ rung[k] \in [1..DedupWindow(k) -> Nat]
      BY <1>1, WindowIsNat DEF AlertTypes
    <2>2. marks'[k] = IF marks[k] = 0 THEN 0 ELSE marks[k] - 1
      BY <1>4 DEF Sooner
    <2>3. rung'[k] = [r \in 1..DedupWindow(k) |->
                IF r + 1 \in 1..DedupWindow(k) THEN rung[k][r + 1] ELSE 0]
      BY <1>4, <2>1 DEF Aged
    <2> QED
      BY <2>1, <2>2, <2>3
  <1>7. AlertTypes'
    BY <1>1, <1>3, <1>5, <1>6 DEF AlertTypes, Others
  <1>8. ASSUME NEW k \in AlertKeys PROVE (RungPaid(k) /\ MarkOwed(k))'
    <2> DEFINE f == [p \in RungWithin(k)' |-> <<p[1] + 1, p[2]>>]
               g == [p \in Outlive(k)' |-> <<p[1] + 1, p[2]>>]
    <2>1. ASSUME NEW p \in RungWithin(k)'
          PROVE  /\ p = <<p[1], p[2]>> /\ p[1] \in Nat
                 /\ <<p[1] + 1, p[2]>> \in RungWithin(k)
      <3>1. PICK r \in 1..DedupWindow(k) : p \in {r} \X (1..rung'[k][r])
        BY DEF RungWithin
      <3>2. p = <<p[1], p[2]>> /\ p[1] = r /\ p[2] \in 1..rung'[k][r]
        BY <3>1
      <3>3. r + 1 \in 1..DedupWindow(k) /\ rung'[k][r] = rung[k][r + 1]
        BY <1>6, <3>2
      <3> QED
        BY <3>2, <3>3, WithinIs, WindowIsNat
    <2>2. \A p \in RungWithin(k)', x \in RungWithin(k)' :
              <<p[1] + 1, p[2]>> = <<x[1] + 1, x[2]>> => p = x
      <3> SUFFICES ASSUME NEW p \in RungWithin(k)', NEW x \in RungWithin(k)',
                          <<p[1] + 1, p[2]>> = <<x[1] + 1, x[2]>>
                   PROVE  p = x
        OBVIOUS
      <3>1. p[1] + 1 = x[1] + 1 /\ p[2] = x[2]
        OBVIOUS
      <3>2. p[1] \in Int /\ x[1] \in Int
        <4>1. p[1] \in Nat /\ x[1] \in Nat
          BY <2>1
        <4> QED
          BY <4>1
      <3>3. p[1] = x[1]
        BY <3>1, <3>2
      <3> QED
        BY <2>1, <3>1, <3>3
    <2>3. f \in Injection(RungWithin(k)', RungWithin(k))
      BY <2>1, <2>2 DEF Injection, IsInjective
    <2>4. g \in Injection(Outlive(k)', Outlive(k))
      <3>1. ASSUME NEW p \in Outlive(k)' PROVE <<p[1] + 1, p[2]>> \in Outlive(k)
        <4>1. p \in RungWithin(k)' /\ p[1] > marks'[k]
          BY <3>1 DEF Outlive
        <4>2. p[1] + 1 > marks[k]
          <5>1. p[1] \in Nat
            BY <2>1, <4>1
          <5>2. marks[k] \in Nat /\ marks'[k] \in Nat /\ marks[k] <= marks'[k] + 1
            BY <1>6
          <5> QED
            BY <4>1, <5>1, <5>2
        <4> QED
          BY <2>1, <4>1, <4>2 DEF Outlive
      <3>2. Outlive(k)' \subseteq RungWithin(k)'
        BY DEF Outlive
      <3> QED
        BY <2>2, <3>1, <3>2 DEF Injection, IsInjective
    <2> HIDE DEF f, g
    <2>5. IsFiniteSet(RungWithin(k)) /\ IsFiniteSet(Outlive(k))
          /\ Cardinality(RungWithin(k)) \in Nat /\ Cardinality(Outlive(k)) \in Nat
      BY <1>1, WithinFinite, FS_CardinalityType
    <2>6. IsFiniteSet(RungWithin(k)')
          /\ Cardinality(RungWithin(k)') <= Cardinality(RungWithin(k))
      BY <2>3, <2>5, FS_Injection
    <2>7. IsFiniteSet(Outlive(k)')
          /\ Cardinality(Outlive(k)') <= Cardinality(Outlive(k))
      BY <2>4, <2>5, FS_Injection
    <2>8. Cardinality(RungWithin(k)') \in Nat /\ Cardinality(Outlive(k)') \in Nat
      BY <2>6, <2>7, FS_CardinalityType
    <2>9. /\ AtKey(k, "deliver")' = AtKey(k, "deliver")
          /\ AtKey(k, "mark")' = AtKey(k, "mark")
      BY <1>2, <1>3 DEF AtKey, Others
    <2>10. /\ Cardinality(AtKey(k, "deliver")) \in Nat
           /\ Cardinality(AtKey(k, "mark")) \in Nat
           /\ Cardinality(Tasks) \in Nat
      BY AtKeyFinite
    <2>11. RungPaid(k) /\ MarkOwed(k)
      BY DEF RungInv
    <2>12. Cardinality(RungWithin(k)') + Cardinality(AtKey(k, "deliver"))
               <= Cardinality(Tasks) + throws
      BY <1>1, <2>5, <2>6, <2>8, <2>10, <2>11 DEF RungPaid
    <2>13. Cardinality(Outlive(k)') <= Cardinality(AtKey(k, "mark")) + throws
      BY <1>1, <2>5, <2>7, <2>8, <2>10, <2>11 DEF MarkOwed
    <2> QED
      BY <1>1, <2>9, <2>12, <2>13 DEF RungPaid, MarkOwed
  <1> QED
    BY <1>7, <1>8 DEF RungInv

LEMMA NextRung ==
    ASSUME RungInv, [AlertsNext]_alertVars
    PROVE  RungInv'
  <1>a. AlertTypes /\ alerting \in [Tasks -> Alerting]
        /\ \A u \in Tasks : alerting[u].at = "row" =>
              alerting[u].key[2] \in Accounts
    BY DEF RungInv, AlertTypes
  <1>1. ASSUME NEW t \in Tasks, Advance(t) PROVE RungInv'
    <2>1. TaskSteps(t) /\ UNCHANGED throws
      BY <1>1 DEF Advance
    <2>2. CASE ReadMark(t) /\ marks[alerting[t].key] = 0
      BY <2>1, <2>2, PassRung
    <2>3. CASE Deliver(t)
      BY <2>1, <2>3, DeliverRung
    <2>4. CASE MarkSent(t)
      BY <2>1, <2>4, MarkRung
    <2>5. CASE \/ ReadMark(t) /\ marks[alerting[t].key] > 0
               \/ Escalate(t) \/ CountConnected(t) \/ CountTotal(t)
               \/ ClearEscalation(t) \/ CheckQueueDepth(t) \/ ListAccounts(t)
               \/ NextAccount(t) \/ Evaluate(t) \/ RecordSuspicion(t) \/ ReadRow(t)
      <3>1. /\ alerting' \in [Tasks -> Alerting] /\ Others(t) /\ Aside(t)
            /\ alerting'[t].at # "row"
            /\ alerting[t].at \notin {"deliver", "mark"}
            /\ UNCHANGED <<marks, rung>>
        BY <1>a, <2>5, AsideTyped
      <3> QED
        BY <1>a, <2>1, <3>1, AsideRung DEF Others
    <2>6. marks[alerting[t].key] = 0 \/ marks[alerting[t].key] > 0
      <3>1. alerting[t].key \in AlertKeys
        BY <1>a DEF Alerting
      <3>2. marks[alerting[t].key] \in 0..DedupWindow(alerting[t].key)
        BY <1>a, <3>1 DEF AlertTypes
      <3> QED
        BY <3>2
    <2> QED
      BY <2>1, <2>2, <2>3, <2>4, <2>5, <2>6 DEF TaskSteps
  <1>2. ASSUME NEW t \in Tasks, TickThrows(t) PROVE RungInv'
    BY <1>2, ThrowRung
  <1>3. CASE IntervalPasses
    BY <1>3, IntervalRung
  <1>4. ASSUME NEW a \in Accounts, NEW end \in {"banned", "down"},
               SessionEnds(a, end)
        PROVE  RungInv'
    <2> DEFINE q == <<"ACCOUNT_DISCONNECTED", a>>
    <2>1. q \in AlertKeys /\ q[2] = a
      BY DEF AlertKeys, AccountTypes
    <2>2. PICK t \in Tasks : /\ alerting[t].at = "idle"
                             /\ alerting' = [alerting EXCEPT ![t].at = "row",
                                                             ![t].key = q]
      BY <1>4 DEF SessionEnds
    <2> HIDE DEF q
    <2>3. alerting' \in [Tasks -> Alerting] /\ Others(t)
          /\ alerting'[t].at = "row" /\ alerting'[t].key = q
      BY <1>a, <2>1, <2>2 DEF Alerting, AlertSteps, Others
    <2>4. UNCHANGED <<marks, rung, throws>>
      BY <1>4 DEF SessionEnds, World
    <2> QED
      BY <1>a, <2>1, <2>2, <2>3, <2>4, AsideRung DEF Others, Aside
  <1>5. ASSUME UNCHANGED <<alerting, marks, rung, throws>> PROVE RungInv'
    BY <1>a, <1>5, AsideRung
  <1>6. CASE \/ \E a \in Accounts :
                 \/ \E to \in {"up", "down", "removed"} : LineMoves(a, to)
                 \/ \E to \in {"fine", "failing", "unheard"} : HealthMoves(a, to)
             \/ BacklogMoves
    BY <1>5, <1>6 DEF LineMoves, HealthMoves, BacklogMoves, World
  <1>7. CASE UNCHANGED alertVars
    BY <1>5, <1>7 DEF alertVars
  <1> QED
    BY <1>1, <1>2, <1>3, <1>4, <1>6, <1>7 DEF AlertsNext

\* A ban, an empty pool, a full queue are heard at most once in their window
\* by each handler that can be between the mark it read and the mark it writes,
\* and once more for each query that threw in between: fire() of the alerts.
THEOREM RepeatsBounded == AlertsSpec => []AlertRepeatsBounded
  <1>1. RungInv => AlertRepeatsBounded
    <2> SUFFICES ASSUME RungInv, NEW k \in AlertKeys
                 PROVE  Cardinality(RungWithin(k)) <= Cardinality(Tasks) + throws
      BY DEF AlertRepeatsBounded
    <2>1. Cardinality(RungWithin(k)) + Cardinality(AtKey(k, "deliver"))
              <= Cardinality(Tasks) + throws
      BY DEF RungInv, RungPaid
    <2>2. Cardinality(RungWithin(k)) \in Nat
      BY WithinFinite, FS_CardinalityType DEF RungInv
    <2>3. Cardinality(AtKey(k, "deliver")) \in Nat /\ Cardinality(Tasks) \in Nat
          /\ throws \in Nat
      BY AtKeyFinite DEF RungInv, AlertTypes
    <2> QED
      BY <2>1, <2>2, <2>3
  <1>2. AlertsInit => RungInv
    BY InitRung
  <1>3. RungInv /\ [AlertsNext]_alertVars => RungInv'
    BY NextRung
  <1> QED
    BY <1>1, <1>2, <1>3, PTL DEF AlertsSpec

-----------------------------------------------------------------------------
(* The calendar: days and hours of a zone whose offset does not change *)

\* The zone has one offset, of whole minutes.
FixedZone ==
    /\ zone.before \in Int /\ zone.after = zone.before
    /\ zone.before % Minute = 0

LEMMA Quotient ==
    ASSUME NEW a \in Int, NEW b \in Nat \ {0}
    PROVE  \E d \in Int, r \in 0..(b - 1) :
              a \div b = d /\ a % b = r /\ a = d * b + r
  OBVIOUS

\* A multiple is the next one after a smaller multiple, or later.
LEMMA Grows ==
    ASSUME NEW a \in Int, NEW b \in Int, NEW c \in Nat, a < b
    PROVE  a * c + c <= b * c
  <1>1. b - a - 1 \in Nat
    OBVIOUS
  <1>2. 0 <= (b - a - 1) * c
    BY <1>1
  <1> QED
    BY <1>2

LEMMA QuotientIs ==
    ASSUME NEW b \in Nat \ {0}, NEW q \in Int, NEW r \in 0..(b - 1)
    PROVE  (q * b + r) \div b = q /\ (q * b + r) % b = r
  <1> DEFINE a == q * b + r
  <1>1. PICK p \in Int, s \in 0..(b - 1) :
               a \div b = p /\ a % b = s /\ a = p * b + s
    BY Quotient
  <1>2. ~(p < q)
    BY <1>1, Grows
  <1>3. ~(q < p)
    BY <1>1, Grows
  <1> QED
    BY <1>1, <1>2, <1>3

LEMMA Units ==
    /\ Minute \in Nat \ {0} /\ Hour \in Nat \ {0} /\ DayLength \in Nat \ {0}
    /\ MinutesPerHour \in Nat \ {0} /\ HoursPerDay \in Nat \ {0}
    /\ Hour = MinutesPerHour * Minute /\ DayLength = HoursPerDay * Hour
    /\ Minute <= Hour /\ Hour <= DayLength
    /\ SilentEnd \in 0..(HoursPerDay - 1) /\ SilentStart \in 0..(HoursPerDay - 1)
  <1>1. /\ Minute \in Nat \ {0} /\ MinutesPerHour \in Nat \ {0}
        /\ HoursPerDay \in Nat \ {0}
        /\ SilentEnd \in 0..(HoursPerDay - 1)
        /\ SilentStart \in 0..(HoursPerDay - 1)
    BY CalendarAssumption DEF Minute
  <1>2. /\ Hour = MinutesPerHour * Minute /\ Hour \in Nat
        /\ DayLength = HoursPerDay * Hour /\ DayLength \in Nat
    BY <1>1 DEF Hour, DayLength
  <1>3. Minute <= Hour
    BY <1>1, <1>2, Grows, 0 < MinutesPerHour
  <1>4. Hour <= DayLength
    BY <1>1, <1>2, Grows, 0 < HoursPerDay
  <1> QED
    BY <1>1, <1>2, <1>3, <1>4

\* Local time is a whole number of minutes away from that of the clock.
LEMMA LocalIs ==
    ASSUME FixedZone
    PROVE  \E w \in Int : \A t \in Int : LocalTime(t) = t + w * Minute
  <1> DEFINE z == zone.before
  <1>1. z \in Int /\ z % Minute = 0 /\ Minute \in Nat \ {0}
    BY Units DEF FixedZone
  <1> HIDE DEF z
  <1>2. PICK d \in Int, r \in 0..(Minute - 1) :
               z \div Minute = d /\ z % Minute = r /\ z = d * Minute + r
    BY <1>1, Quotient
  <1>3. \A t \in Int : LocalTime(t) = t + zone.before
    BY DEF FixedZone, LocalTime
  <1> QED
    BY <1>1, <1>2, <1>3 DEF z

\* Local time passes as time does.
LEMMA LocalMoves ==
    ASSUME FixedZone
    PROVE  \E offset \in Int : \A t \in Int : LocalTime(t) = t + offset
  <1>1. PICK w \in Int : \A t \in Int : LocalTime(t) = t + w * Minute
    BY LocalIs
  <1>2. w * Minute \in Int
    BY Units
  <1> QED
    BY <1>1, <1>2

\* The day whose ticks contain a local time is the local day.
LEMMA DayIs ==
    ASSUME FixedZone, NEW t \in Int, NEW q \in Int
    PROVE  /\ LocalDay(t) \in Int
           /\ LocalDay(t) = q <=> /\ q * DayLength <= LocalTime(t)
                                  /\ LocalTime(t) < q * DayLength + DayLength
  <1> DEFINE x == LocalTime(t)
  <1>1. x \in Int /\ DayLength \in Nat \ {0}
    <2>1. PICK offset \in Int : \A u \in Int : LocalTime(u) = u + offset
      BY LocalMoves
    <2> QED
      BY <2>1, Units
  <1> HIDE DEF x
  <1>0. PICK p \in Int, r \in 0..(DayLength - 1) :
           /\ x \div DayLength = p /\ x % DayLength = r
           /\ x = p * DayLength + r
    BY <1>1, Quotient
  <1>2. /\ p * DayLength <= x /\ x < p * DayLength + DayLength
        /\ p * DayLength \in Int /\ q * DayLength \in Int
    BY <1>1, <1>0
  <1>3. p < q => p * DayLength + DayLength <= q * DayLength
    BY <1>1, <1>2, Grows
  <1>4. q < p => q * DayLength + DayLength <= p * DayLength
    BY <1>1, <1>2, Grows
  <1>5. p = q <=> q * DayLength <= x /\ x < q * DayLength + DayLength
    BY <1>1, <1>2, <1>3, <1>4
  <1> QED
    BY <1>0, <1>5 DEF x, LocalDay

\* The start of hour h of day q.
HourStart(q, h) == q * DayLength + h * Hour

\* What lies within an hour of a day has its number.
LEMMA HourIs ==
    ASSUME FixedZone, NEW t \in Int, NEW q \in Int, NEW h \in 0..(HoursPerDay - 1),
           HourStart(q, h) <= LocalTime(t), LocalTime(t) < HourStart(q, h) + Hour
    PROVE  LocalHour(t) = h
  <1>0. PICK offset \in Int : \A u \in Int : LocalTime(u) = u + offset
    BY LocalMoves
  <1> DEFINE x == LocalTime(t)
             y == x - q * DayLength
             s == y - h * Hour
  <1>1. /\ x \in Int /\ Hour \in Nat \ {0} /\ DayLength \in Nat \ {0}
        /\ q * DayLength \in Int /\ h * Hour \in Int
        /\ HoursPerDay \in Nat \ {0} /\ DayLength = HoursPerDay * Hour
    BY <1>0, Units
  <1>2. s \in 0..(Hour - 1)
    BY <1>1 DEF HourStart
  <1>3. h * Hour + Hour <= HoursPerDay * Hour /\ 0 <= h * Hour
    BY <1>1, Grows
  <1>4. y \in 0..(DayLength - 1)
    BY <1>1, <1>2, <1>3
  <1>5. x = q * DayLength + y /\ y = h * Hour + s
    BY <1>1
  <1> HIDE DEF y, s, x
  <1>6. x % DayLength = y
    BY <1>1, <1>4, <1>5, QuotientIs
  <1>7. y \div Hour = h
    <2>1. (h * Hour + s) \div Hour = h
      <3>1. h \in Int
        BY <1>1
      <3> QED
        BY <1>1, <1>2, <3>1, QuotientIs
    <2> QED
      BY <2>1, <1>5
  <1> QED
    BY <1>6, <1>7 DEF LocalHour, x

\* Every instant is in the hour and the day that it is said to be in.
LEMMA HourFound ==
    ASSUME FixedZone, NEW t \in Int
    PROVE  /\ LocalHour(t) \in 0..(HoursPerDay - 1) /\ LocalDay(t) \in Int
           /\ HourStart(LocalDay(t), LocalHour(t)) \in Int
           /\ HourStart(LocalDay(t), LocalHour(t)) <= LocalTime(t)
           /\ LocalTime(t) < HourStart(LocalDay(t), LocalHour(t)) + Hour
  <1>0. PICK offset \in Int : \A u \in Int : LocalTime(u) = u + offset
    BY LocalMoves
  <1> DEFINE x == LocalTime(t)
  <1>1. /\ x \in Int /\ Hour \in Nat \ {0} /\ DayLength \in Nat \ {0}
        /\ HoursPerDay \in Nat \ {0} /\ DayLength = HoursPerDay * Hour
    BY <1>0, Units
  <1> HIDE DEF x
  <1>2. PICK q \in Int, y \in 0..(DayLength - 1) :
           /\ x \div DayLength = q /\ x % DayLength = y
           /\ x = q * DayLength + y
    BY <1>1, Quotient
  <1>3. PICK h \in Int, s \in 0..(Hour - 1) :
               y \div Hour = h /\ y % Hour = s /\ y = h * Hour + s
    <2>1. y \in Int
      BY <1>1
    <2> QED
      BY <1>1, <2>1, Quotient
  <1>4. /\ q * DayLength \in Int /\ h * Hour \in Int /\ y \in Int /\ s \in Int
        /\ 0 <= y /\ y < DayLength /\ 0 <= s /\ s < Hour
    BY <1>1, <1>2, <1>3
  <1>5. ~(h < 0)
    <2>1. h < 0 => h * Hour + Hour <= 0 * Hour
      BY <1>1, <1>3, Grows
    <2> QED
      BY <1>1, <1>2, <1>3, <1>4, <2>1
  <1>6. ~(HoursPerDay <= h)
    <2>1. HoursPerDay < h => HoursPerDay * Hour + Hour <= h * Hour
      BY <1>1, <1>3, Grows
    <2> QED
      BY <1>1, <1>2, <1>3, <1>4, <2>1
  <1>7. h \in 0..(HoursPerDay - 1)
    BY <1>1, <1>3, <1>5, <1>6
  <1>8. LocalDay(t) = q /\ LocalHour(t) = h
    BY <1>2, <1>3 DEF LocalDay, LocalHour, x
  <1>9. /\ HourStart(q, h) \in Int /\ HourStart(q, h) <= x
        /\ x < HourStart(q, h) + Hour
    BY <1>1, <1>2, <1>3, <1>4 DEF HourStart
  <1> QED
    BY <1>2, <1>7, <1>8, <1>9 DEF x

\* The first of the steps found is the one before which none was.
LEMMA FirstFound ==
    ASSUME NEW F \in SUBSET Nat, F # {},
           NEW t \in Int, NEW step \in Int, NEW none
    PROVE  \E i \in F : /\ \A k \in F : i <= k
                        /\ FirstStep(F, t, step, none) = t + step * i
  <1>1. PICK j \in F : \A k \in F : ~(<<k, j>> \in OpToRel(<, Nat))
    BY NatLessThanWellFounded, WFMin
  <1>2. \A k \in F : j <= k
    <2>1. ASSUME NEW k \in F PROVE j <= k
      <3>1. k \in Nat /\ j \in Nat
        OBVIOUS
      <3>2. ~(k < j)
        BY <1>1, <3>1 DEF OpToRel
      <3> QED
        BY <3>1, <3>2
    <2> QED
      BY <2>1
  <1> DEFINE i == CHOOSE i \in F : \A k \in F : i <= k
  <1>3. i \in F /\ \A k \in F : i <= k
    BY <1>2
  <1> QED
    BY <1>3 DEF FirstStep

\* The first minute of the next day, at the seconds of t.
LEMMA MidnightFound ==
    ASSUME FixedZone, NEW t \in Int, NEW m, m = NextLocalMidnight(t),
           NEW q, q = LocalDay(t)
    PROVE  /\ m \in Int /\ q \in Int
           /\ q * DayLength + DayLength <= LocalTime(m)
           /\ LocalTime(m) - Minute < q * DayLength + DayLength
           /\ \E c \in Int : m = t + c * Minute
  <1> DEFINE turned(u) == LocalDay(u) # LocalDay(t)
             F == {i \in 1..2 * HoursPerDay : turned(t + i * Hour)}
             hour == FirstStep(F, t, Hour, t + DayLength)
             last == hour - Hour
             G == {i \in 1..MinutesPerHour : turned(last + i * Minute)}
  <1>1. m = FirstStep(G, last, Minute, hour)
    BY DEF NextLocalMidnight
  <1>0. PICK offset \in Int : \A u \in Int : LocalTime(u) = u + offset
    BY LocalMoves
  <1>2. /\ q \in Int /\ q * DayLength \in Int
        /\ q * DayLength <= LocalTime(t)
        /\ LocalTime(t) < q * DayLength + DayLength
    BY DayIs, Units
  <1>3. ASSUME NEW u \in Int, t <= u
        PROVE  turned(u) <=> q * DayLength + DayLength <= LocalTime(u)
    <2>1. LocalDay(u) = q <=> /\ q * DayLength <= LocalTime(u)
                              /\ LocalTime(u) < q * DayLength + DayLength
      BY <1>2, DayIs
    <2>2. q * DayLength <= LocalTime(u) /\ LocalTime(u) \in Int
      BY <1>0, <1>2, <1>3
    <2>3. q * DayLength + DayLength \in Int
      BY <1>2, Units
    <2> QED
      BY <2>1, <2>2, <2>3
  <1>4. \A i \in Int : t + i * Hour \in Int
    BY Units
  <1> HIDE DEF turned
  <1>5. HoursPerDay \in F
    <2>1. t <= t + DayLength /\ t + DayLength \in Int
      BY Units
    <2>2. q * DayLength + DayLength <= LocalTime(t + DayLength)
      BY <1>0, <1>2, <2>1, Units
    <2>3. turned(t + HoursPerDay * Hour)
      BY <1>3, <2>1, <2>2, Units
    <2> QED
      BY <2>3, Units
  <1>6. PICK i \in F : (\A k \in F : i <= k) /\ hour = t + Hour * i
    <2> HIDE DEF F
    <2>1. F \in SUBSET Nat
      BY DEF F
    <2>2. Hour \in Int /\ F # {}
      BY <1>5, Units
    <2> HIDE DEF hour
    <2>3. hour = FirstStep(F, t, Hour, t + DayLength)
      BY DEF hour
    <2> QED
      BY <2>1, <2>2, <2>3, FirstFound
  <1>7. /\ i \in Int /\ 1 <= i /\ i <= 2 * HoursPerDay /\ turned(t + i * Hour)
        /\ (i - 1) * Hour \in Int /\ 0 <= (i - 1) * Hour
    <2>1. i \in 1..2 * HoursPerDay /\ turned(t + i * Hour)
      OBVIOUS
    <2>2. i - 1 \in Nat
      BY <2>1, Units
    <2> HIDE DEF F
    <2> QED
      BY <2>1, <2>2, Units
  <1>8. last = t + (i - 1) * Hour /\ last \in Int /\ t <= last
        /\ last + Hour = t + i * Hour /\ hour = last + Hour
    BY <1>6, <1>7, Units
  <1>9. ~turned(last)
    <2>1. CASE i = 1
      BY <1>8, <2>1, Units DEF turned
    <2>2. CASE i # 1
      <3>1. i - 1 \in 1..2 * HoursPerDay
        BY <1>7, <2>2, Units
      <3>2. i - 1 \notin F
        <4> HIDE DEF F
        <4> QED
          BY <1>6, <1>7
      <3>3. ~turned(t + (i - 1) * Hour)
        BY <3>1, <3>2
      <3> QED
        BY <3>3, <1>8
    <2> QED
      BY <2>1, <2>2
  <1> HIDE DEF F, last, hour
  <1>10. MinutesPerHour \in G
    BY <1>7, <1>8, Units
  <1>11. PICK j \in G : (\A k \in G : j <= k) /\ m = last + Minute * j
    <2> HIDE DEF G
    <2>1. G \in SUBSET Nat
      BY DEF G
    <2>2. Minute \in Int /\ G # {} /\ last \in Int
      BY <1>8, <1>10, Units
    <2> QED
      BY <1>1, <2>1, <2>2, FirstFound
  <1>12. /\ j \in Int /\ 1 <= j /\ j <= MinutesPerHour
         /\ turned(last + j * Minute)
         /\ (j - 1) * Minute \in Int /\ 0 <= (j - 1) * Minute
    <2>1. j \in 1..MinutesPerHour /\ turned(last + j * Minute)
      OBVIOUS
    <2>2. j - 1 \in Nat
      BY <2>1, Units
    <2> HIDE DEF G
    <2> QED
      BY <2>1, <2>2, Units
  <1>13. /\ m \in Int /\ m - Minute = last + (j - 1) * Minute
         /\ m = last + j * Minute /\ t <= m - Minute /\ m - Minute \in Int
    BY <1>8, <1>11, <1>12, Units
  <1>14. ~turned(m - Minute)
    <2>1. CASE j = 1
      BY <1>8, <1>9, <1>13, <2>1, Units
    <2>2. CASE j # 1
      <3>1. j - 1 \in 1..MinutesPerHour
        BY <1>12, <2>2, Units
      <3>2. j - 1 \notin G
        <4> HIDE DEF G
        <4> QED
          BY <1>11, <1>12
      <3>3. ~turned(last + (j - 1) * Minute)
        BY <3>1, <3>2
      <3> QED
        BY <3>3, <1>13
    <2> QED
      BY <2>1, <2>2
  <1>15. /\ q * DayLength + DayLength <= LocalTime(m)
         /\ ~(q * DayLength + DayLength <= LocalTime(m - Minute))
    <2>1. t <= m
      BY <1>13, Units
    <2> QED
      BY <1>3, <1>12, <1>13, <1>14, <2>1
  <1>16. LocalTime(m - Minute) = LocalTime(m) - Minute /\ LocalTime(m) \in Int
    BY <1>0, <1>13, Units
  <1>17. m = t + ((i - 1) * MinutesPerHour + j) * Minute
    BY <1>7, <1>8, <1>12, <1>13, Units
  <1>18. (i - 1) * MinutesPerHour + j \in Int
    BY <1>7, <1>12, Units
  <1> HIDE DEF G
  <1>19. LocalTime(m) - Minute < q * DayLength + DayLength
    <2>1. q * DayLength + DayLength \in Int /\ LocalTime(m) - Minute \in Int
      BY <1>2, <1>16, Units
    <2> QED
      BY <1>15, <1>16, <2>1
  <1> QED
    BY <1>2, <1>13, <1>15, <1>17, <1>18, <1>19

\* The first minute of this day, no later than t.
LEMMA DayFound ==
    ASSUME FixedZone, NEW t \in Int, NEW d, d = StartOfLocalDay(t),
           NEW q, q = LocalDay(t)
    PROVE  /\ d \in Int /\ q \in Int /\ d <= t
           /\ q * DayLength <= LocalTime(d)
           /\ LocalTime(d) - Minute < q * DayLength
  <1> DEFINE m == NextLocalMidnight(t)
             guess == m - DayLength
             sameDay(u) == LocalDay(u) = LocalDay(t)
             F == {i \in 1..3 * MinutesPerHour : ~sameDay(guess - i * Minute)}
  <1>0. PICK offset \in Int : \A u \in Int : LocalTime(u) = u + offset
    BY LocalMoves
  <1>1. /\ m \in Int /\ q \in Int
        /\ q * DayLength + DayLength <= LocalTime(m)
        /\ LocalTime(m) - Minute < q * DayLength + DayLength
    BY MidnightFound
  <1>2. PICK c \in Int : m = t + c * Minute
    BY MidnightFound
  <1> HIDE DEF m
  <1>3. /\ guess \in Int /\ q * DayLength \in Int /\ LocalTime(guess) \in Int
        /\ q * DayLength <= LocalTime(guess)
        /\ LocalTime(guess) - Minute < q * DayLength
    BY <1>0, <1>1, Units
  <1>4. sameDay(guess)
    <2>1. LocalDay(guess) = q <=> /\ q * DayLength <= LocalTime(guess)
                                  /\ LocalTime(guess) < q * DayLength + DayLength
      BY <1>1, <1>3, DayIs
    <2> HIDE DEF guess
    <2> QED
      BY <1>3, <2>1, Units
  <1>5. 1 \in F
    <2> DEFINE before == guess - 1 * Minute
    <2>1. before \in Int /\ LocalTime(before) < q * DayLength
      BY <1>0, <1>3, Units
    <2>2. LocalDay(before) = q <=> /\ q * DayLength <= LocalTime(before)
                                   /\ LocalTime(before) < q * DayLength + DayLength
      BY <1>1, <2>1, DayIs
    <2>3. q * DayLength \in Int /\ LocalTime(before) \in Int
      BY <1>0, <1>3, <2>1
    <2> HIDE DEF before
    <2>4. ~sameDay(before)
      BY <2>1, <2>2, <2>3
    <2>5. 1 \in 1..3 * MinutesPerHour
      BY Units
    <2> QED
      BY <2>4, <2>5 DEF before
  <1> DEFINE none == guess - (3 * MinutesPerHour + 1) * Minute
  <1>6. d = FirstStep(F, guess, -Minute, none) + Minute
    BY <1>4 DEF StartOfLocalDay, m
  <1>7. \A i \in F : i \in Int /\ 1 <= i
    BY Units
  <1>8. F \in SUBSET Nat /\ -Minute \in Int
    BY Units
  <1> HIDE DEF F, guess, none
  <1>9. PICK i \in F : /\ \A k \in F : i <= k
                      /\ FirstStep(F, guess, -Minute, none) = guess + (-Minute) * i
    BY <1>3, <1>5, <1>8, FirstFound
  <1>10. i = 1
    BY <1>5, <1>7, <1>9
  <1>11. d = guess
    BY <1>3, <1>6, <1>9, <1>10, Units
  <1>12. guess <= t
    <2> DEFINE e == HoursPerDay * MinutesPerHour - c
    <2>1. e \in Int /\ t - guess = e * Minute
      BY <1>2, Units DEF guess
    <2> HIDE DEF e
    <2>2. -Minute < t - guess
      <3>1. q * DayLength <= LocalTime(t)
        BY DayIs, <1>1
      <3> QED
        BY <1>0, <1>3, <3>1, Units
    <2>3. ~(e < 0)
      <3>1. e < 0 => e * Minute + Minute <= 0 * Minute
        BY <2>1, Units, Grows
      <3>2. e * Minute \in Int
        BY <2>1, Units
      <3> QED
        BY <2>1, <2>2, <3>1, <3>2, <1>3, Units
    <2>4. 0 <= e * Minute
      BY <2>1, <2>3, Units
    <2> QED
      BY <1>3, <2>1, <2>4
  <1> QED
    BY <1>1, <1>3, <1>11, <1>12

\* A local time that begins a minute is that of an instant without seconds.
LEMMA Cleared ==
    ASSUME FixedZone, NEW u \in Int, NEW c \in Int,
           c * Minute <= LocalTime(u), LocalTime(u) < c * Minute + Minute
    PROVE  ClearSeconds(u) \in Int /\ LocalTime(ClearSeconds(u)) = c * Minute
  <1>1. PICK w \in Int : \A t \in Int : LocalTime(t) = t + w * Minute
    BY LocalIs
  <1> DEFINE s == LocalTime(u) - c * Minute
  <1>2. /\ s \in 0..(Minute - 1) /\ c - w \in Int /\ u = (c - w) * Minute + s
        /\ w * Minute \in Int /\ c * Minute \in Int
    BY <1>1, Units
  <1> HIDE DEF s
  <1>3. ((c - w) * Minute + s) % Minute = s
    BY <1>2, Units, QuotientIs
  <1>4. u % Minute = s
    BY <1>2, <1>3
  <1>5. ClearSeconds(u) = u - s /\ u - s \in Int
    BY <1>2, <1>4 DEF ClearSeconds
  <1>6. u - s = c * Minute - w * Minute
    BY <1>2, Units
  <1> QED
    BY <1>1, <1>2, <1>5, <1>6

\* The hour before hour h, which may be the last one of the day before.
LEMMA HourBefore ==
    ASSUME FixedZone, NEW u \in Int, NEW q \in Int, NEW h \in 0..(HoursPerDay - 1),
           HourStart(q, h) - Hour <= LocalTime(u), LocalTime(u) < HourStart(q, h)
    PROVE  LocalHour(u) = IF h = 0 THEN HoursPerDay - 1 ELSE h - 1
  <1>0. PICK offset \in Int : \A t \in Int : LocalTime(t) = t + offset
    BY LocalMoves
  <1>1. CASE h = 0
    <2>1. HourStart(q - 1, HoursPerDay - 1) = HourStart(q, h) - Hour
      BY <1>1, Units DEF HourStart
    <2>2. HoursPerDay - 1 \in 0..(HoursPerDay - 1) /\ q - 1 \in Int
      BY Units
    <2>3. HourStart(q, h) \in Int /\ LocalTime(u) \in Int
      BY <1>0, <1>1, Units DEF HourStart
    <2>4. /\ HourStart(q - 1, HoursPerDay - 1) <= LocalTime(u)
          /\ LocalTime(u) < HourStart(q - 1, HoursPerDay - 1) + Hour
      BY <2>1, <2>3, Units
    <2> QED
      BY <1>1, <2>2, <2>4, HourIs
  <1>2. CASE h # 0
    <2>1. h - 1 \in 0..(HoursPerDay - 1) /\ h \in Int
      BY <1>2, Units
    <2>2. HourStart(q, h - 1) = HourStart(q, h) - Hour
      BY <2>1, Units DEF HourStart
    <2>3. HourStart(q, h) \in Int /\ LocalTime(u) \in Int
      BY <1>0, <2>1, Units DEF HourStart
    <2>4. /\ HourStart(q, h - 1) <= LocalTime(u)
          /\ LocalTime(u) < HourStart(q, h - 1) + Hour
      BY <2>2, <2>3, Units
    <2> QED
      BY <1>2, <2>1, <2>4, HourIs
  <1> QED
    BY <1>1, <1>2

\* An hour begins at a whole minute, and at a whole hour.
LEMMA StartIs ==
    ASSUME NEW q \in Int, NEW h \in 0..(HoursPerDay - 1)
    PROVE  /\ HourStart(q, h) \in Int /\ HourStart(q, h) % Hour = 0
           /\ \E c \in Int : HourStart(q, h) = c * Minute
  <1>1. h \in Int /\ q * HoursPerDay + h \in Int
    BY Units
  <1>2. HourStart(q, h) = (q * HoursPerDay + h) * Hour + 0
    BY <1>1, Units DEF HourStart
  <1>3. ((q * HoursPerDay + h) * Hour + 0) % Hour = 0
    <2>1. 0 \in 0..(Hour - 1)
      BY Units
    <2> QED
      BY <1>1, <2>1, Units, QuotientIs
  <1>4. HourStart(q, h) = ((q * HoursPerDay + h) * MinutesPerHour) * Minute
    BY <1>1, <1>2, Units
  <1>5. (q * HoursPerDay + h) * MinutesPerHour \in Int
    BY <1>1, Units
  <1>6. HourStart(q, h) \in Int
    BY <1>1, Units DEF HourStart
  <1>7. HourStart(q, h) % Hour = 0
    BY <1>2, <1>3
  <1>8. \E c \in Int : HourStart(q, h) = c * Minute
    BY <1>4, <1>5
  <1> QED
    BY <1>6, <1>7, <1>8

\* The first tick of this hour, unless the hour before has the same number.
LEMMA HourStartFound ==
    ASSUME FixedZone, NEW t \in Int, NEW r, r = StartOfLocalHour(t)
    PROVE  /\ r \in Int /\ r <= t
           /\ \A u \in r..t : LocalHour(u) = LocalHour(t)
           /\ LocalHour(t - Hour) # LocalHour(t) => LocalTime(r) % Hour = 0
  <1> DEFINE h == LocalHour(t)
             q == LocalDay(t)
             base == HourStart(q, h)
             F == {i \in 1..MinutesPerHour : LocalHour(t - i * Minute) # h}
             none == t - (MinutesPerHour + 1) * Minute
             found == FirstStep(F, t, -Minute, none)
             v == found + Minute
  <1>0. PICK offset \in Int : \A u \in Int : LocalTime(u) = u + offset
    BY LocalMoves
  <1>1. /\ h \in 0..(HoursPerDay - 1) /\ q \in Int /\ base \in Int
        /\ base <= LocalTime(t) /\ LocalTime(t) < base + Hour
    BY HourFound
  <1>2. r = ClearSeconds(v)
    BY DEF StartOfLocalHour
  <1>3. base % Hour = 0 /\ \E c \in Int : base = c * Minute
    BY <1>1, StartIs
  <1>4. ASSUME NEW u \in Int, base <= LocalTime(u), LocalTime(u) < base + Hour
        PROVE  LocalHour(u) = h
    BY <1>1, <1>4, HourIs
  <1>5. ASSUME NEW u \in Int, base - Hour <= LocalTime(u), LocalTime(u) < base
        PROVE  LocalHour(u) # h \/ HoursPerDay = 1
    <2>1. LocalHour(u) = IF h = 0 THEN HoursPerDay - 1 ELSE h - 1
      BY <1>1, <1>5, HourBefore
    <2> HIDE DEF h
    <2> QED
      BY <1>1, <2>1, Units
  <1> HIDE DEF h, q, base
  <1>6. CASE F = {}
    <2>1. found = none /\ v = t - Hour /\ v \in Int
      <3>1. found = none
        BY <1>6 DEF FirstStep
      <3> QED
        BY <3>1, Units
    <2>2. LocalHour(t - Hour) = h
      <3>1. MinutesPerHour \in 1..MinutesPerHour
        BY Units
      <3>2. LocalHour(t - MinutesPerHour * Minute) = h
        BY <1>6, <3>1
      <3> QED
        BY <3>2, Units
    <2> HIDE DEF F, none, found, v
    <2>3. HoursPerDay = 1
      <3>1. base - Hour <= LocalTime(v) /\ LocalTime(v) < base
        BY <1>0, <1>1, <2>1, Units
      <3> QED
        BY <1>5, <2>1, <2>2, <3>1
    <2>4. \A u \in Int : LocalHour(u) = h
      <3>1. \A u \in Int : LocalHour(u) \in 0..(HoursPerDay - 1)
        BY HourFound
      <3>2. \A i \in 0..(HoursPerDay - 1) : i = 0
        BY <2>3
      <3> QED
        BY <1>1, <3>1, <3>2
    <2>5. r \in Int /\ r <= t
      <3>1. PICK d \in Int, s \in 0..(Minute - 1) :
                 v \div Minute = d /\ v % Minute = s /\ v = d * Minute + s
        BY <2>1, Units, Quotient
      <3>2. r = v - s
        BY <1>2, <3>1 DEF ClearSeconds
      <3> QED
        BY <2>1, <3>1, <3>2, Units
    <2>6. \A u \in r..t : u \in Int
      BY <2>5
    <2> QED
      BY <2>2, <2>4, <2>5, <2>6 DEF h
  <1>7. CASE F # {}
    <2>1. F \in SUBSET Nat /\ -Minute \in Int
      BY Units
    <2>2. PICK i \in F : (\A k \in F : i <= k) /\ found = t + (-Minute) * i
      <3> HIDE DEF F, none
      <3> QED
        BY <1>7, <2>1, FirstFound
    <2>3. /\ i \in Int /\ 1 <= i /\ i <= MinutesPerHour
          /\ LocalHour(t - i * Minute) # h
          /\ (i - 1) * Minute \in Int /\ 0 <= (i - 1) * Minute
      <3>1. i \in 1..MinutesPerHour /\ LocalHour(t - i * Minute) # h
        OBVIOUS
      <3>2. i - 1 \in Nat
        BY <3>1, Units
      <3> HIDE DEF F
      <3> QED
        BY <3>1, <3>2, Units
    <2> HIDE DEF found
    <2>4. /\ v = t - (i - 1) * Minute /\ v \in Int /\ v <= t
          /\ v - Minute = t - i * Minute /\ v - Minute \in Int
      BY <2>2, <2>3, Units
    <2>5. t - Hour <= v - Minute
      <3>1. i < MinutesPerHour => i * Minute + Minute <= MinutesPerHour * Minute
        BY <2>3, Units, Grows
      <3>2. i * Minute <= Hour
        <4> HIDE DEF F
        <4>1. i * Minute \in Int /\ Hour = MinutesPerHour * Minute
          BY <2>3, Units
        <4>2. CASE i = MinutesPerHour
          BY <4>1, <4>2, Units
        <4>3. CASE i < MinutesPerHour
          BY <3>1, <4>1, <4>3, Units
        <4> QED
          BY <2>3, <4>2, <4>3, Units
      <3> QED
        BY <2>3, <2>4, <3>2, Units
    <2>6. LocalHour(v) = h
      <3>1. CASE i = 1
        <4>1. v = t
          BY <2>4, <3>1, Units
        <4> QED
          BY <4>1 DEF h
      <3>2. CASE i # 1
        <4>1. i - 1 \in 1..MinutesPerHour
          BY <2>3, <3>2, Units
        <4>2. i - 1 \notin F
          <5> HIDE DEF F
          <5> QED
            BY <2>2, <2>3
        <4>3. ~(LocalHour(t - (i - 1) * Minute) # h)
          BY <4>1, <4>2
        <4> QED
          BY <4>3, <2>4
      <3> QED
        BY <3>1, <3>2
    <2> HIDE DEF F, v
    <2>7. LocalTime(v - Minute) < base
      <3>1. LocalTime(v - Minute) < base + Hour /\ LocalTime(v - Minute) \in Int
        BY <1>0, <1>1, <2>4, Units
      <3>2. ~(base <= LocalTime(v - Minute))
        BY <1>4, <2>3, <2>4, <3>1
      <3> QED
        BY <1>1, <3>1, <3>2
    <2>8. base - Hour <= LocalTime(v - Minute)
      BY <1>0, <1>1, <2>4, <2>5, Units
    <2>9. HoursPerDay # 1
      <3>1. \A u \in Int : LocalHour(u) \in 0..(HoursPerDay - 1)
        BY HourFound
      <3>2. HoursPerDay = 1 => \A k \in 0..(HoursPerDay - 1) : k = 0
        OBVIOUS
      <3> QED
        BY <1>1, <2>3, <2>4, <3>1, <3>2
    <2>10. base <= LocalTime(v)
      <3>1. base - Hour <= LocalTime(v) /\ LocalTime(v) \in Int
        BY <1>0, <1>1, <2>4, <2>8, Units
      <3>2. ~(LocalTime(v) < base)
        BY <1>5, <2>4, <2>6, <2>9, <3>1
      <3> QED
        BY <1>1, <3>1, <3>2
    <2>11. LocalTime(v) < base + Minute
      BY <1>0, <1>1, <2>4, <2>7, Units
    <2>12. r \in Int /\ LocalTime(r) = base
      BY <1>2, <1>3, <2>4, <2>10, <2>11, Cleared
    <2>13. r <= t
      BY <1>0, <1>1, <2>12
    <2>14. ASSUME NEW u \in r..t PROVE LocalHour(u) = h
      <3>1. u \in Int /\ r <= u /\ u <= t
        BY <2>12
      <3>2. base <= LocalTime(u) /\ LocalTime(u) < base + Hour
        BY <1>0, <1>1, <2>12, <3>1, Units
      <3> QED
        BY <1>4, <3>1, <3>2
    <2> QED
      BY <1>3, <2>12, <2>13, <2>14 DEF h
  <1> QED
    BY <1>6, <1>7

\* The hour the silence ends at is not silent, the one before it is.
LEMMA SilentHours ==
    /\ ~IsSilentHour(SilentEnd)
    /\ \A k : IsSilentHour(k) =>
          IsSilentHour(IF SilentEnd = 0 THEN HoursPerDay - 1 ELSE SilentEnd - 1)
  <1>1. /\ SilentEnd \in Int /\ SilentStart \in Int /\ HoursPerDay \in Int
        /\ 0 <= SilentEnd /\ SilentEnd <= HoursPerDay - 1
        /\ 0 <= SilentStart /\ SilentStart <= HoursPerDay - 1
    BY Units
  <1>2. CASE SilentStart = SilentEnd
    BY <1>1, <1>2 DEF IsSilentHour
  <1>3. CASE SilentStart < SilentEnd
    BY <1>1, <1>3 DEF IsSilentHour
  <1>4. CASE SilentEnd < SilentStart
    BY <1>1, <1>4 DEF IsSilentHour
  <1> QED
    BY <1>1, <1>2, <1>3, <1>4

QuietWait(t) == SilentHourDelay(t, FALSE)

\* The wait is until the first tick of the hour the silence ends at.
LEMMA SilenceEnds ==
    ASSUME FixedZone, NEW t \in Int, IsSilentHour(LocalHour(t)),
           NEW e, e = t + QuietWait(t)
    PROVE  /\ QuietWait(t) \in Int
           /\ e \in Int /\ t < e /\ ~IsSilentHour(LocalHour(e))
           /\ IsSilentHour(LocalHour(e - 1))
  <1> DEFINE h == LocalHour(t)
             q == LocalDay(t)
             n == (HoursPerDay + 1) * MinutesPerHour
             F == {i \in 1..n : LocalHour(t + i * Minute) = SilentEnd}
             u == FirstStep(F, t, Minute, t)
             end == ClearSeconds(u)
  <1>0. PICK offset \in Int : \A x \in Int : LocalTime(x) = x + offset
    BY LocalMoves
  <1>1. /\ h \in 0..(HoursPerDay - 1) /\ q \in Int /\ HourStart(q, h) \in Int
        /\ HourStart(q, h) <= LocalTime(t) /\ LocalTime(t) < HourStart(q, h) + Hour
    BY HourFound
  <1>2. h # SilentEnd
    BY SilentHours
  <1>3. QuietWait(t) = (IF end < t THEN 0 ELSE end - t)
    BY DEF SilentHourDelay, QuietWait
  <1> HIDE DEF h, q
  <1>4. \E i \in Int : /\ 1 <= i /\ i <= n
                       /\ LocalHour(t + i * Minute) = SilentEnd
    <2> DEFINE y == LocalTime(t) - HourStart(q, h)
    <2>1. y \in 0..(Hour - 1)
      BY <1>0, <1>1, Units
    <2>2. PICK m \in Int, s \in 0..(Minute - 1) :
               y \div Minute = m /\ y % Minute = s /\ y = m * Minute + s
      <3> HIDE DEF y
      <3>1. y \in Int
        BY <2>1, Units
      <3> QED
        BY <3>1, Units, Quotient
    <2>3. 0 <= y /\ y < Hour /\ LocalTime(t) = HourStart(q, h) + y
      BY <1>0, <1>1, <2>1, Units
    <2> HIDE DEF y
    <2>4. 0 <= m /\ m < MinutesPerHour
      <3>1. m < 0 => m * Minute + Minute <= 0 * Minute
        BY Units, Grows
      <3>2. MinutesPerHour < m => MinutesPerHour * Minute + Minute <= m * Minute
        BY Units, Grows
      <3>3. m * Minute \in Int /\ MinutesPerHour * Minute = Hour
        BY Units
      <3> QED
        BY <2>2, <2>3, <3>1, <3>2, <3>3, Units
    <2>5. ASSUME NEW days \in Int, NEW i \in Int,
                 i = days * HoursPerDay * MinutesPerHour
                       + (SilentEnd - h) * MinutesPerHour - m
          PROVE  LocalHour(t + i * Minute) = SilentEnd
      <3>1. t + i * Minute \in Int /\ h \in Int /\ SilentEnd \in Int
        BY <1>1, Units
      <3>2. /\ q * DayLength \in Int /\ h * Hour \in Int /\ SilentEnd * Hour \in Int
            /\ days * DayLength \in Int /\ m * Minute \in Int
        BY <1>1, <3>1, Units
      <3>3. i * Minute = days * DayLength + SilentEnd * Hour - h * Hour - m * Minute
        BY <2>5, <3>1, Units
      <3>4. LocalTime(t + i * Minute) = HourStart(q + days, SilentEnd) + s
        <4>1. LocalTime(t + i * Minute) = LocalTime(t) + i * Minute
          BY <1>0, <3>1, Units
        <4>2. LocalTime(t) = q * DayLength + h * Hour + m * Minute + s
          BY <2>2, <2>3, <3>2 DEF HourStart
        <4>3. (q + days) * DayLength = q * DayLength + days * DayLength
          BY <1>1, Units
        <4>4. HourStart(q + days, SilentEnd)
                 = (q + days) * DayLength + SilentEnd * Hour
          BY DEF HourStart
        <4> QED
          BY <4>1, <4>2, <4>3, <4>4, <3>2, <3>3
      <3>5. /\ HourStart(q + days, SilentEnd) <= LocalTime(t + i * Minute)
            /\ LocalTime(t + i * Minute) < HourStart(q + days, SilentEnd) + Hour
        <4>1. HourStart(q + days, SilentEnd) \in Int
          BY <1>1, Units, StartIs
        <4> QED
          BY <3>4, <4>1, Units
      <3>6. q + days \in Int
        BY <1>1
      <3> QED
        BY <3>1, <3>5, <3>6, Units, HourIs
    <2>6. CASE h < SilentEnd
      <3> DEFINE i == (SilentEnd - h) * MinutesPerHour - m
      <3>1. /\ i \in Int
            /\ i = 0 * HoursPerDay * MinutesPerHour
                     + (SilentEnd - h) * MinutesPerHour - m
        BY <1>1, Units
      <3>2. 1 <= i /\ i <= n
        <4>1. /\ SilentEnd - h \in Int /\ 0 < SilentEnd - h
              /\ SilentEnd - h < HoursPerDay + 1 /\ HoursPerDay + 1 \in Int
          BY <1>1, <2>6, Units
        <4>2. 0 * MinutesPerHour + MinutesPerHour
                 <= (SilentEnd - h) * MinutesPerHour
          BY <4>1, Units, Grows
        <4>3. (SilentEnd - h) * MinutesPerHour + MinutesPerHour <= n
          BY <4>1, Units, Grows
        <4>4. (SilentEnd - h) * MinutesPerHour \in Int /\ n \in Int
          BY <4>1, Units
        <4> QED
          BY <2>4, <4>2, <4>3, <4>4, Units
      <3> HIDE DEF i, n
      <3> QED
        BY <2>5, <3>1, <3>2
    <2>7. CASE SilentEnd < h
      <3> DEFINE k == HoursPerDay + SilentEnd - h
                 i == k * MinutesPerHour - m
      <3>1. /\ i \in Int
            /\ i = 1 * HoursPerDay * MinutesPerHour
                     + (SilentEnd - h) * MinutesPerHour - m
        BY <1>1, Units
      <3>2. 1 <= i /\ i <= n
        <4>1. /\ k \in Int /\ 0 < k
              /\ k < HoursPerDay + 1 /\ HoursPerDay + 1 \in Int
          BY <1>1, <2>7, Units
        <4> HIDE DEF k
        <4>2. 0 * MinutesPerHour + MinutesPerHour <= k * MinutesPerHour
          BY <4>1, Units, Grows
        <4>3. k * MinutesPerHour + MinutesPerHour <= n
          BY <4>1, Units, Grows
        <4>4. k * MinutesPerHour \in Int /\ n \in Int
          BY <4>1, Units
        <4> QED
          BY <2>4, <4>2, <4>3, <4>4, Units
      <3> HIDE DEF i, n
      <3> QED
        BY <2>5, <3>1, <3>2
    <2> QED
      BY <1>1, <1>2, <2>6, <2>7, Units
  <1>5. n \in Nat
    BY Units
  <1> HIDE DEF n
  <1>6. F \in SUBSET Nat /\ F # {} /\ Minute \in Int
    <2>1. F \in SUBSET Nat /\ Minute \in Int
      BY Units
    <2>2. PICK i \in Int : /\ 1 <= i /\ i <= n
                          /\ LocalHour(t + i * Minute) = SilentEnd
      BY <1>4
    <2>3. i \in 1..n
      BY <1>5, <2>2
    <2> QED
      BY <2>1, <2>2, <2>3
  <1>7. PICK i \in F : (\A k \in F : i <= k) /\ u = t + Minute * i
    <2> HIDE DEF F
    <2> QED
      BY <1>6, FirstFound
  <1>8. /\ i \in Int /\ 1 <= i /\ i <= n
        /\ LocalHour(t + i * Minute) = SilentEnd
        /\ (i - 1) * Minute \in Int /\ 0 <= (i - 1) * Minute
    <2>1. i \in 1..n /\ LocalHour(t + i * Minute) = SilentEnd
      OBVIOUS
    <2>2. i - 1 \in Nat
      BY <1>5, <2>1
    <2> HIDE DEF F
    <2> QED
      BY <1>5, <2>1, <2>2, Units
  <1> HIDE DEF u
  <1>9. /\ u = t + i * Minute /\ u \in Int /\ u - Minute \in Int
        /\ u - Minute = t + (i - 1) * Minute /\ t <= u - Minute
    BY <1>7, <1>8, Units
  <1>10. LocalHour(u - Minute) # SilentEnd
    <2>1. CASE i = 1
      <3>1. u - Minute = t
        BY <1>9, <2>1, Units
      <3> QED
        BY <1>2, <3>1 DEF h
    <2>2. CASE i # 1
      <3>1. i - 1 \in 1..n
        BY <1>5, <1>8, <2>2
      <3>2. i - 1 \notin F
        <4> HIDE DEF F
        <4> QED
          BY <1>7, <1>8
      <3>3. LocalHour(t + (i - 1) * Minute) # SilentEnd
        BY <3>1, <3>2
      <3> QED
        BY <1>9, <3>3
    <2> QED
      BY <2>1, <2>2
  <1> DEFINE p == LocalDay(u)
             base == HourStart(p, SilentEnd)
  <1>11. /\ p \in Int /\ base \in Int /\ base <= LocalTime(u)
         /\ LocalTime(u) < base + Hour /\ LocalHour(u) = SilentEnd
    BY <1>8, <1>9, HourFound
  <1>12. \E c \in Int : base = c * Minute
    BY <1>11, Units, StartIs
  <1> HIDE DEF p, F
  <1>13. LocalTime(u) < base + Minute
    <2>1. ~(base <= LocalTime(u - Minute) /\ LocalTime(u - Minute) < base + Hour)
      BY <1>9, <1>10, <1>11, Units, HourIs
    <2>2. LocalTime(u - Minute) = LocalTime(u) - Minute /\ LocalTime(u) \in Int
      BY <1>0, <1>9, Units
    <2> HIDE DEF base
    <2> QED
      BY <1>11, <2>1, <2>2, Units
  <1>14. end \in Int /\ LocalTime(end) = base
    <2> HIDE DEF base
    <2> QED
      BY <1>9, <1>11, <1>12, <1>13, Cleared
  <1> HIDE DEF end
  <1>15. t < end
    <2> HIDE DEF base
    <2>1. u - Minute < end
      BY <1>0, <1>9, <1>11, <1>13, <1>14, Units
    <2> QED
      BY <1>9, <1>14, <2>1, Units
  <1>16. e = end
    <2>1. ~(end < t)
      BY <1>14, <1>15
    <2>2. e = t + (end - t)
      BY <1>3, <2>1
    <2>3. t \in Int /\ end \in Int
      BY <1>14
    <2> HIDE DEF base
    <2> QED
      BY <2>2, <2>3
  <1>17. LocalHour(end) = SilentEnd
    <2>1. base <= LocalTime(end) /\ LocalTime(end) < base + Hour
      <3> HIDE DEF base
      <3> QED
        BY <1>11, <1>14, Units
    <2> QED
      BY <1>11, <1>14, <2>1, Units, HourIs
  <1>18. LocalHour(end - 1)
           = IF SilentEnd = 0 THEN HoursPerDay - 1 ELSE SilentEnd - 1
    <2>1. base - Hour <= LocalTime(end - 1) /\ LocalTime(end - 1) < base
      <3> HIDE DEF base
      <3> QED
        BY <1>0, <1>11, <1>14, Units
    <2>2. end - 1 \in Int
      BY <1>14
    <2> QED
      BY <1>11, <2>1, <2>2, Units, HourBefore
  <1>19. QuietWait(t) \in Int
    BY <1>3, <1>14
  <1> QED
    BY <1>14, <1>15, <1>16, <1>17, <1>18, <1>19, SilentHours

\* The functions depend on the zone and on nothing else that changes.
LEMMA Unmoved ==
    ASSUME zone' = zone, NEW t
    PROVE  /\ NextLocalMidnight(t)' = NextLocalMidnight(t)
           /\ StartOfLocalDay(t)' = StartOfLocalDay(t)
           /\ StartOfLocalHour(t)' = StartOfLocalHour(t)
           /\ SilentHourDelay(t, FALSE)' = SilentHourDelay(t, FALSE)
  <1>1. \A x : LocalTime(x)' = LocalTime(x)
    BY DEF LocalTime
  <1>2. \A x : LocalDay(x)' = LocalDay(x) /\ LocalHour(x)' = LocalHour(x)
    BY <1>1 DEF LocalDay, LocalHour
  <1> DEFINE F == {i \in 1..2 * HoursPerDay : LocalDay(t + i * Hour) # LocalDay(t)}
             hour == FirstStep(F, t, Hour, t + DayLength)
             last == hour - Hour
             G == {i \in 1..MinutesPerHour :
                      LocalDay(last + i * Minute) # LocalDay(t)}
  <1>3. F' = F
    BY <1>2
  <1>4. last' = last /\ hour' = hour
    BY <1>3
  <1>5. G' = G
    BY <1>2, <1>4
  <1>6. NextLocalMidnight(t)' = NextLocalMidnight(t)
    BY <1>4, <1>5 DEF NextLocalMidnight
  <1> DEFINE guess == NextLocalMidnight(t) - DayLength
             B == {i \in 1..3 * MinutesPerHour :
                      ~(LocalDay(guess - i * Minute) = LocalDay(t))}
             C == {i \in 1..3 * MinutesPerHour :
                      LocalDay(guess + i * Minute) = LocalDay(t)}
  <1>7. guess' = guess
    BY <1>6
  <1>8. B' = B /\ C' = C
    BY <1>2, <1>7
  <1>9. StartOfLocalDay(t)' = StartOfLocalDay(t)
    BY <1>2, <1>7, <1>8 DEF StartOfLocalDay
  <1> DEFINE L == {i \in 1..MinutesPerHour :
                      LocalHour(t - i * Minute) # LocalHour(t)}
             A == {i \in 1..(HoursPerDay + 1) * MinutesPerHour :
                      LocalHour(t + i * Minute) = SilentEnd}
  <1>10. L' = L /\ A' = A
    BY <1>2
  <1>11. StartOfLocalHour(t)' = StartOfLocalHour(t)
    BY <1>10 DEF StartOfLocalHour
  <1>12. SilentHourDelay(t, FALSE)' = SilentHourDelay(t, FALSE)
    BY <1>2, <1>10 DEF SilentHourDelay
  <1> QED
    BY <1>6, <1>9, <1>11, <1>12

\* What is asked, and what the functions returned.
Answered ==
    /\ now \in Instants /\ zone \in Zones
    /\ answer \subseteq {[midnight |-> NextLocalMidnight(now),
                          day |-> StartOfLocalDay(now),
                          hour |-> StartOfLocalHour(now),
                          wait |-> SilentHourDelay(now, FALSE)]}

\* In a zone whose offset is a whole number of minutes and does not change (today
\* those that env.ts names), nextLocalMidnightUtc, startOfLocalDayUtc,
\* startOfLocalHourUtc and silentHourDelayMs find for every instant where its day
\* and its hour begin and where the silence ends, for days and hours of any length
\* and any hours of silence.
THEOREM FixedZoneExact ==
    ASSUME \A z \in Zones : z.after = z.before /\ z.before % Minute = 0
    PROVE  CalendarSpec => []CalendarExact
  <1>1. CalendarInit => Answered
    BY DEF CalendarInit, Answered
  <1>2. Answered /\ [Compute]_calendarVars => Answered'
    <2> SUFFICES ASSUME Answered, [Compute]_calendarVars PROVE Answered'
      OBVIOUS
    <2>1. PICK n : n = now
      OBVIOUS
    <2>2. now' = n /\ zone' = zone
      BY <2>1 DEF Compute, calendarVars
    <2> DEFINE found == [midnight |-> NextLocalMidnight(n),
                         day |-> StartOfLocalDay(n),
                         hour |-> StartOfLocalHour(n),
                         wait |-> SilentHourDelay(n, FALSE)]
    <2>3. found' = found
      BY <2>2, Unmoved
    <2>4. answer \subseteq {found} /\ n \in Instants /\ zone \in Zones
      BY <2>1 DEF Answered
    <2>5. answer' = {found} \/ answer' = answer
      BY <2>1 DEF Compute, calendarVars
    <2>6. answer' \subseteq {found'}
      BY <2>3, <2>4, <2>5
    <2> QED
      BY <2>2, <2>4, <2>6 DEF Answered
  <1>3. Answered => CalendarExact
    <2> SUFFICES
          ASSUME Answered, NEW a \in answer
          PROVE  LET midnight == a.midnight
                     day == a.day
                     hour == a.hour
                     waited == now + a.wait
                 IN /\ \A t \in now..(midnight - Minute) :
                           LocalDay(t) = LocalDay(now)
                    /\ LocalDay(midnight) = LocalDay(now) + 1
                    /\ day <= now /\ \A t \in day..now : LocalDay(t) = LocalDay(now)
                    /\ LocalDay(day - Minute) # LocalDay(now)
                    /\ hour <= now
                    /\ \A t \in hour..now : LocalHour(t) = LocalHour(now)
                    /\ LocalHour(now - Hour) # LocalHour(now)
                          => LocalTime(hour) % Hour = 0
                    /\ IsSilentHour(LocalHour(now)) =>
                          /\ waited > now /\ ~IsSilentHour(LocalHour(waited))
                          /\ IsSilentHour(LocalHour(waited - 1))
      BY DEF CalendarExact
    <2>1. FixedZone /\ now \in Int
      <3>1. zone \in Zones /\ now \in Instants
        BY DEF Answered
      <3>2. zone.before \in {zone.before, zone.after, zone.change}
        OBVIOUS
      <3>3. {zone.before, zone.after, zone.change} \subseteq Int
        BY <3>1, CalendarAssumption
      <3>4. zone.before \in Int
        BY <3>2, <3>3
      <3>5. now \in Int
        BY <3>1, CalendarAssumption
      <3> QED
        BY <3>1, <3>4, <3>5 DEF FixedZone
    <2>2. /\ a.midnight = NextLocalMidnight(now) /\ a.day = StartOfLocalDay(now)
          /\ a.hour = StartOfLocalHour(now)
          /\ a.wait = QuietWait(now)
      <3>1. a = [midnight |-> NextLocalMidnight(now), day |-> StartOfLocalDay(now),
                 hour |-> StartOfLocalHour(now),
                 wait |-> SilentHourDelay(now, FALSE)]
        BY DEF Answered
      <3> QED
        BY <3>1 DEF QuietWait
    <2> DEFINE q == LocalDay(now)
               m == a.midnight
               d == a.day
    <2>3. PICK offset \in Int : \A u \in Int : LocalTime(u) = u + offset
      BY <2>1, LocalMoves
    <2>4. /\ m \in Int /\ q \in Int
          /\ q * DayLength + DayLength <= LocalTime(m)
          /\ LocalTime(m) - Minute < q * DayLength + DayLength
      BY <2>1, <2>2, MidnightFound
    <2>5. /\ d \in Int /\ d <= now /\ q * DayLength <= LocalTime(d)
          /\ LocalTime(d) - Minute < q * DayLength
      BY <2>1, <2>2, DayFound
    <2>6. \A u \in Int : \A k \in Int :
            LocalDay(u) = k <=> /\ k * DayLength <= LocalTime(u)
                                /\ LocalTime(u) < k * DayLength + DayLength
      BY <2>1, DayIs
    <2>7. q * DayLength \in Int /\ (q + 1) * DayLength = q * DayLength + DayLength
      BY <2>4, Units
    <2>8. /\ q * DayLength <= LocalTime(now)
          /\ LocalTime(now) < q * DayLength + DayLength
      BY <2>1, <2>4, <2>6
    <2> HIDE DEF q, m, d
    <2>9. ASSUME NEW t \in now..(m - Minute) PROVE LocalDay(t) = q
      <3>1. t \in Int /\ now <= t /\ t <= m - Minute
        BY <2>1, <2>4, Units
      <3>2. q * DayLength <= LocalTime(t)
        BY <2>1, <2>3, <2>7, <2>8, <3>1
      <3>3. LocalTime(t) < q * DayLength + DayLength
        BY <2>3, <2>4, <2>7, <3>1, Units
      <3>4. LocalDay(t) = q <=> /\ q * DayLength <= LocalTime(t)
                                /\ LocalTime(t) < q * DayLength + DayLength
        BY <2>4, <2>6, <3>1
      <3> QED
        BY <3>2, <3>3, <3>4
    <2>10. LocalDay(m) = q + 1
      <3> DEFINE k == q + 1
      <3>1. k \in Int /\ k * DayLength = q * DayLength + DayLength
        BY <2>4, <2>7
      <3> HIDE DEF k
      <3>2. LocalDay(m) = k <=> /\ k * DayLength <= LocalTime(m)
                                /\ LocalTime(m) < k * DayLength + DayLength
        BY <2>4, <2>6, <3>1
      <3>3. LocalTime(m) < k * DayLength + DayLength
        BY <2>3, <2>4, <2>7, <3>1, Units
      <3> QED
        BY <2>4, <3>1, <3>2, <3>3 DEF k
    <2>11. ASSUME NEW t \in d..now PROVE LocalDay(t) = q
      <3>1. t \in Int /\ d <= t /\ t <= now
        BY <2>1, <2>5
      <3>2. q * DayLength <= LocalTime(t)
        BY <2>3, <2>5, <2>7, <3>1
      <3>3. LocalTime(t) < q * DayLength + DayLength
        BY <2>1, <2>3, <2>7, <2>8, <3>1, Units
      <3>4. LocalDay(t) = q <=> /\ q * DayLength <= LocalTime(t)
                                /\ LocalTime(t) < q * DayLength + DayLength
        BY <2>4, <2>6, <3>1
      <3> QED
        BY <3>2, <3>3, <3>4
    <2>12. LocalDay(d - Minute) # q
      <3>1. d - Minute \in Int /\ LocalTime(d - Minute) < q * DayLength
        BY <2>3, <2>5, <2>7, Units
      <3>2. LocalTime(d - Minute) \in Int
        BY <2>3, <3>1
      <3> QED
        BY <2>4, <2>6, <2>7, <3>1, <3>2
    <2>13. /\ a.hour <= now
           /\ \A t \in a.hour..now : LocalHour(t) = LocalHour(now)
           /\ LocalHour(now - Hour) # LocalHour(now) =>
                 LocalTime(a.hour) % Hour = 0
      BY <2>1, <2>2, HourStartFound
    <2>14. IsSilentHour(LocalHour(now)) =>
              /\ now + a.wait > now
              /\ ~IsSilentHour(LocalHour(now + a.wait))
              /\ IsSilentHour(LocalHour((now + a.wait) - 1))
      <3> DEFINE e == now + QuietWait(now)
      <3>1. IsSilentHour(LocalHour(now)) =>
               /\ a.wait \in Int
               /\ e \in Int /\ now < e /\ ~IsSilentHour(LocalHour(e))
               /\ IsSilentHour(LocalHour(e - 1))
        BY <2>1, <2>2, SilenceEnds
      <3>2. e = now + a.wait
        BY <2>2
      <3> HIDE DEF e
      <3>3. IsSilentHour(LocalHour(now)) =>
               now + a.wait > now /\ (now + a.wait) - 1 = e - 1
        BY <2>1, <3>1, <3>2
      <3> QED
        BY <3>1, <3>2, <3>3
    <2>15. \A t \in now..(a.midnight - Minute) : LocalDay(t) = LocalDay(now)
      BY <2>9 DEF q, m
    <2>16. LocalDay(a.midnight) = LocalDay(now) + 1
      BY <2>10 DEF q, m
    <2>17. a.day <= now /\ LocalDay(a.day - Minute) # LocalDay(now)
      BY <2>5, <2>12 DEF q, d
    <2>18. \A t \in a.day..now : LocalDay(t) = LocalDay(now)
      BY <2>11 DEF q, d
    <2> QED
      BY <2>13, <2>14, <2>15, <2>16, <2>17, <2>18
  <1> QED
    BY <1>1, <1>2, <1>3, PTL DEF CalendarSpec
=============================================================================
