------------------------------- MODULE Intake -------------------------------
(***************************************************************************)
(* The public API of one project: the token check with its cache in Redis, *)
(* the request counter of the minute, the daily quota, and the idempotent  *)
(* creation of messages, one at a time, in bulk and with media.  What      *)
(* becomes of a message once its job is queued is module Outbound.         *)
(*                                                                         *)
(* A request is a sequence of awaits (Redis, Postgres, BullMQ) and others  *)
(* run in between.  The day of the tenant, the month of a partition and    *)
(* the minute of the counter are three clocks that turn on their own.      *)
(***************************************************************************)
EXTENDS Naturals, Sequences, FiniteSets

CONSTANTS
    Clients,    \* requests that are under way at a time
    Keys,       \* external ids
    NoKey,      \* a message without external id
    MaxBulk,    \* messages of one bulk request
    MaxQuota,   \* the largest daily quota
    MaxLimit,   \* the largest number of requests per minute
    Forms,      \* what the panel may save: active, limit and typed quota
    MaxRows,    \* bound: messages ever created
    MaxTurns    \* bound: settings saved, token ended, day or month turned

ASSUME IntakeAssumption ==
    /\ NoKey \notin Keys /\ IsFiniteSet(Clients)
    /\ {MaxBulk, MaxQuota} \subseteq Nat \ {0}
    /\ {MaxLimit, MaxRows, MaxTurns} \subseteq Nat
    /\ Forms \subseteq [active : BOOLEAN, limit : 0..MaxLimit,
                        typed : 0..MaxQuota]

VARIABLES
    project,    \* the projects row: is_active, rate limit, daily quota
    token,      \* the api_tokens row: revoked_at set, expires_at passed
    authCache,  \* authtoken:{hash} in Redis: {} or the cached settings
    reqs,       \* the requests under way
    rows,       \* messages: outbound rows of the project
    hits,       \* ratelimit:{token}:{minute}, up to MaxLimit + 1
    month,      \* the partition in which a row is created now
    turns       \* how much of MaxTurns has been used

intakeVars == <<project, token, authCache, reqs, rows, hits, month, turns>>

\* A nullable column or key is a set of at most one value.
Optional(S) == {{}} \cup {{x} : x \in S}
Quotas == Optional(1..MaxQuota)
Auth == [limit : 0..MaxLimit, quota : Quotas]

Waiting == {"read", "fill", "rate", "quota", "find", "insert", "enqueue"}
ApiRequest ==
    [at : Waiting \cup {"idle"}, auth : Optional(Auth),
     left : 0..MaxBulk, key : Keys \cup {NoKey}, looked : 0..MaxRows,
     msg : 0..MaxRows, free : BOOLEAN]
NoRequest == [at |-> "idle", auth |-> {}, left |-> 0,
          key |-> NoKey, looked |-> 0, msg |-> 0, free |-> FALSE]

\* month: of a row with a key, the partition it is in; missed: the request
\* looked for the key while a row that had it was there;
\* free: no quota was compared; job: whether its creator still has to queue it
\* or is done with it (the job was added, or never will be).
Row == [key : Keys \cup {NoKey}, month : Nat, today : BOOLEAN,
        missed : BOOLEAN, free : BOOLEAN,
        job : {"due", "done", "twice"}]

IntakeTypeOK ==
    /\ project \in [active : BOOLEAN, limit : 0..MaxLimit, quota : Quotas]
    /\ token \in [revoked : BOOLEAN, expired : BOOLEAN]
    /\ authCache \in Optional(Auth)
    /\ reqs \in [Clients -> ApiRequest]
    /\ Len(rows) <= MaxRows /\ \A i \in DOMAIN rows : rows[i] \in Row
    /\ hits \in 0..MaxLimit + 1
    /\ month \in 0..MaxTurns /\ turns \in 0..MaxTurns

IntakeInit ==
    /\ project = [active |-> TRUE, limit |-> MaxLimit, quota |-> {MaxQuota}]
    /\ token = [revoked |-> FALSE, expired |-> FALSE]
    /\ authCache = {} /\ hits = 0 /\ month = 0 /\ turns = 0
    /\ reqs = [c \in Clients |-> NoRequest]
    /\ rows = <<>>

-----------------------------------------------------------------------------
(* Authentication and the request counter (preHandlers).                   *)

At(c, step) == reqs[c].at = step
Go(c, r) == reqs' = [reqs EXCEPT ![c] = r]
Refuse(c) == Go(c, NoRequest)

\* A request arrives and asks the cache.  A hit is believed, but for the
\* expiry of the token.
Arrive(c) ==
    /\ At(c, "idle")
    /\ \/ authCache = {} /\ Go(c, [NoRequest EXCEPT !.at = "read"])
       \/ /\ authCache # {} /\ ~token.expired
          /\ Go(c, [NoRequest EXCEPT !.at = "rate", !.auth = authCache])
    /\ UNCHANGED <<project, token, authCache, rows, hits, month, turns>>

TokenValid == ~token.revoked /\ ~token.expired /\ project.active

\* Fault: the row is cached before its columns are looked at.
ReadTokenCachesFirst(c) ==
    /\ At(c, "read")
    /\ Go(c, [reqs[c] EXCEPT !.at = "fill",
                !.auth = {[limit |-> project.limit, quota |-> project.quota]}])
    /\ UNCHANGED <<project, token, authCache, rows, hits, month, turns>>

ReadToken(c) ==
    /\ At(c, "read")
    /\ IF TokenValid
       THEN Go(c, [reqs[c] EXCEPT !.at = "fill",
                     !.auth = {[limit |-> project.limit,
                                quota |-> project.quota]}])
       ELSE Refuse(c)
    /\ UNCHANGED <<project, token, authCache, rows, hits, month, turns>>

FillCache(c) ==
    /\ At(c, "fill")
    /\ authCache' = reqs[c].auth
    /\ Go(c, [reqs[c] EXCEPT !.at = "rate"])
    /\ UNCHANGED <<project, token, rows, hits, month, turns>>

AuthOf(c) == CHOOSE a \in reqs[c].auth : TRUE
OverLimit(count, limit) == count > limit

\* INCR counts refused requests too.  Then a request for messages, one or in
\* bulk, looks at the quota; a media request does not.
CountRequest(c) ==
    /\ At(c, "rate")
    /\ hits' = IF hits > MaxLimit THEN hits ELSE hits + 1
    /\ IF OverLimit(hits', AuthOf(c).limit) THEN Refuse(c)
       ELSE \/ Go(c, [reqs[c] EXCEPT !.at = "quota"])
            \/ Go(c, [NoRequest EXCEPT !.at = "find", !.left = 1, !.free = TRUE])
    /\ UNCHANGED <<project, token, authCache, rows, month, turns>>

-----------------------------------------------------------------------------
(* Messages.                                                               *)

UsedToday == Cardinality({i \in DOMAIN rows : rows[i].today})

WithinQuotaBefore(quota, count) == \A q \in quota : UsedToday < q   \* fault
WithinQuota(quota, count) == \A q \in quota : UsedToday + count <= q

CheckQuota(c) ==
    /\ At(c, "quota")
    /\ \E n \in 1..MaxBulk :
        IF WithinQuota(AuthOf(c).quota, n)
        THEN Go(c, [reqs[c] EXCEPT !.at = "find", !.left = n, !.auth = {},
                                   !.free = AuthOf(c).quota = {}])
        ELSE Refuse(c)
    /\ UNCHANGED <<project, token, authCache, rows, hits, month, turns>>

\* The next message of a bulk request, or the answer.
NextItem(c) ==
    Go(c, IF reqs[c].left > 1
          THEN [reqs[c] EXCEPT !.at = "find", !.left = @ - 1, !.key = NoKey,
                               !.looked = 0, !.msg = 0]
          ELSE NoRequest)

\* An invalid number or one that opted out is skipped in a bulk request.
SkipItem(c) ==
    /\ At(c, "find")
    /\ NextItem(c)
    /\ UNCHANGED <<project, token, authCache, rows, hits, month, turns>>

Existing(key) == {i \in DOMAIN rows : rows[i].key = key /\ key # NoKey}
NoLook(key) == {}       \* fault
Found(key) == Existing(key)

FindExisting(c) ==
    /\ At(c, "find")
    /\ \E key \in Keys \cup {NoKey} :
        IF Found(key) # {} THEN NextItem(c)
        ELSE Go(c, [reqs[c] EXCEPT !.at = "insert", !.key = key,
                                   !.looked = IF key = NoKey THEN 0
                                              ELSE Len(rows)])
    /\ UNCHANGED <<project, token, authCache, rows, hits, month, turns>>

\* The unique index lies on each month's partition.
Conflicts(c) == {i \in Existing(reqs[c].key) : rows[i].month = month}

DuplicateQueuesToo(c) ==            \* fault
    Go(c, [reqs[c] EXCEPT !.at = "enqueue",
                          !.msg = CHOOSE i \in Conflicts(c) : TRUE])

\* P2002: another request created the row first, and is the one to queue it.
Duplicate(c) == NextItem(c)

CreateRow(c) ==
    /\ At(c, "insert")
    /\ \/ Conflicts(c) # {} /\ Duplicate(c) /\ UNCHANGED rows
       \/ /\ Conflicts(c) = {} /\ Len(rows) < MaxRows
          /\ rows' = Append(rows,
                [key |-> reqs[c].key, today |-> TRUE,
                 month |-> IF reqs[c].key = NoKey THEN 0 ELSE month,
                 missed |-> \E i \in Existing(reqs[c].key) :
                                i <= reqs[c].looked,
                 free |-> reqs[c].free, job |-> "due"])
          /\ Go(c, [reqs[c] EXCEPT !.at = "enqueue", !.msg = Len(rows'),
                                   !.key = NoKey, !.looked = 0])
    /\ UNCHANGED <<project, token, authCache, hits, month, turns>>

QueueMessage(c) ==
    /\ At(c, "enqueue")
    /\ rows' = [rows EXCEPT ![reqs[c].msg].job =
                            IF @ = "due" THEN "done" ELSE "twice"]
    /\ NextItem(c)
    /\ UNCHANGED <<project, token, authCache, hits, month, turns>>

\* A handler ends early: the body or the number is refused, the route makes no
\* message, Postgres or Redis fails, or the process dies.  A row whose job was
\* not added stays behind.
Abort(c) ==
    /\ reqs[c].at \in {"read", "fill", "quota", "find", "insert", "enqueue"}
    /\ rows' = IF At(c, "enqueue")
               THEN [rows EXCEPT ![reqs[c].msg].job = "done"] ELSE rows
    /\ Refuse(c)
    /\ UNCHANGED <<project, token, authCache, hits, month, turns>>

-----------------------------------------------------------------------------
(* The panel and the clocks.                                               *)

Turn == turns < MaxTurns /\ turns' = turns + 1

\* A quota typed as 0 is stored as null: no quota.
QuotaAsTyped(n) == {n}     \* fault
TypedQuota(n) == IF n = 0 THEN {} ELSE {n}

UpdateProject ==
    /\ Turn
    /\ \E form \in Forms :
        project' = [active |-> form.active, limit |-> form.limit,
                    quota |-> TypedQuota(form.typed)]
    /\ UNCHANGED <<token, authCache, reqs, rows, hits, month>>

RevokeToken ==
    /\ Turn /\ token' = [token EXCEPT !.revoked = TRUE]
    /\ UNCHANGED <<project, authCache, reqs, rows, hits, month>>

TokenExpires ==
    /\ Turn /\ token' = [token EXCEPT !.expired = TRUE]
    /\ UNCHANGED <<project, authCache, reqs, rows, hits, month>>

CacheExpires ==
    /\ authCache' = {}
    /\ UNCHANGED <<project, token, reqs, rows, hits, month, turns>>

MinuteTurns ==
    /\ hits' = 0
    /\ UNCHANGED <<project, token, authCache, reqs, rows, month, turns>>

DayTurns ==
    /\ Turn
    /\ rows' = [i \in DOMAIN rows |-> [rows[i] EXCEPT !.today = FALSE]]
    /\ UNCHANGED <<project, token, authCache, reqs, hits, month>>

MonthTurns ==
    /\ Turn /\ month' = month + 1
    /\ UNCHANGED <<project, token, authCache, reqs, rows, hits>>

IntakeNext ==
    \/ \E c \in Clients :
        \/ Arrive(c) \/ ReadToken(c) \/ FillCache(c) \/ CountRequest(c)
        \/ CheckQuota(c) \/ SkipItem(c) \/ FindExisting(c) \/ CreateRow(c)
        \/ QueueMessage(c) \/ Abort(c)
    \/ UpdateProject \/ RevokeToken \/ TokenExpires \/ CacheExpires
    \/ MinuteTurns \/ DayTurns \/ MonthTurns

IntakeSpec == IntakeInit /\ [][IntakeNext]_intakeVars

-----------------------------------------------------------------------------
(* Properties.                                                             *)

\* Two rows carry the same external id only if the requests that made them
\* overlapped and the month turned in between: a client that retries after an
\* answer or a timeout never makes a second message, because the look
\* (enqueue.ts:50) sees every partition, and two requests at once are told
\* apart by the index of the partition (enqueue.ts:77).
OneMessagePerKey ==
    \A i, j \in DOMAIN rows :
        (i < j /\ rows[i].key = rows[j].key /\ rows[i].key # NoKey) =>
            ~rows[j].missed /\ rows[i].month # rows[j].month

\* A row belongs to exactly one of: the request that is about to queue it, the
\* queue, once, or the failures to queue it.  No request that finds the row of
\* another queues it as well.
QueuedByItsCreator ==
    \A i \in DOMAIN rows :
        Cardinality({c \in Clients : At(c, "enqueue") /\ reqs[c].msg = i})
            = IF rows[i].job = "due" THEN 1
              ELSE IF rows[i].job = "twice" THEN 2 ELSE 0

Smaller(a, b) == IF a < b THEN a ELSE b

\* The messages of a day that were compared with a quota exceed the largest
\* quota by no more than what the other requests of the moment bring, though
\* each counts before it inserts, the settings come from a cache and the day
\* may turn in between.
QuotaOvershootBounded ==
    Cardinality({i \in DOMAIN rows : rows[i].today /\ ~rows[i].free})
        <= MaxQuota + (Cardinality(Clients) - 1) * Smaller(MaxBulk, MaxQuota)

\* Once a revoked token is in no cache and no request that read it before is
\* about to cache it, no request passes with it again; an expired token passes
\* for nobody who had not read it before, cached or not.
Forgotten ==
    token.revoked /\ authCache = {} /\ \A c \in Clients : ~At(c, "fill")
Passes(c) == ~At(c, "rate") /\ reqs'[c].at = "rate"
TokenEndsAccess ==
    [][ /\ Forgotten => (Forgotten' /\ \A c \in Clients : ~Passes(c))
        /\ token.expired => \A c \in Clients : Passes(c) => At(c, "fill")
      ]_intakeVars

=============================================================================
