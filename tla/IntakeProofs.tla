---------------------------- MODULE IntakeProofs ----------------------------
(***************************************************************************)
(* Theorems about the public API of a project, for any number of clients,  *)
(* external ids, rows and turns of the clocks.                             *)
(***************************************************************************)
EXTENDS Intake, FiniteSetTheorems, TLAPS

-----------------------------------------------------------------------------
(* Types. *)

\* The rows are a sequence, and months turn no more often than anything does.
TypeInv == IntakeTypeOK /\ rows \in Seq(Row) /\ month <= turns

LEMMA Bounds ==
    /\ MaxBulk \in Nat \ {0} /\ MaxQuota \in Nat \ {0}
    /\ MaxLimit \in Nat /\ MaxRows \in Nat /\ MaxTurns \in Nat
  BY IntakeAssumption

LEMMA RestTypes == NoRequest \in ApiRequest
  BY Bounds DEF NoRequest, ApiRequest, Optional

\* The other columns of a request stay what they were.
LEMMA GoTypes ==
    ASSUME TypeInv, NEW c \in Clients, NEW r \in ApiRequest, Go(c, r)
    PROVE  /\ reqs' \in [Clients -> ApiRequest]
           /\ reqs'[c] = r
           /\ \A d \in Clients \ {c} : reqs'[d] = reqs[d]
  BY DEF Go, TypeInv, IntakeTypeOK

LEMMA NextItemTypes ==
    ASSUME TypeInv, NEW c \in Clients, NextItem(c)
    PROVE  /\ reqs' \in [Clients -> ApiRequest]
           /\ reqs'[c].at \in {"find", "idle"}
           /\ \A d \in Clients \ {c} : reqs'[d] = reqs[d]
  <1>1. reqs[c] \in ApiRequest
    BY DEF TypeInv, IntakeTypeOK
  <1> DEFINE next == [reqs[c] EXCEPT !.at = "find", !.left = @ - 1, !.key = NoKey,
                                     !.looked = 0, !.msg = 0]
  <1>2. CASE reqs[c].left > 1
    <2>0. /\ reqs[c].left - 1 \in 0..MaxBulk /\ 0 \in 0..MaxRows
          /\ NoKey \in Keys \cup {NoKey} /\ "find" \in Waiting \cup {"idle"}
      <3>1. reqs[c].left \in 0..MaxBulk
        BY <1>1 DEF ApiRequest
      <3> QED
        BY <3>1, <1>2, Bounds DEF Waiting
    <2>1. next \in ApiRequest /\ next.at = "find"
      BY <1>1, <2>0 DEF ApiRequest
    <2>2. Go(c, next)
      BY <1>2 DEF NextItem
    <2> QED
      BY <2>1, <2>2, GoTypes
  <1>3. CASE ~(reqs[c].left > 1)
    <2>1. Go(c, NoRequest)
      BY <1>3 DEF NextItem
    <2> QED
      BY <2>1, RestTypes, GoTypes DEF NoRequest
  <1> QED
    BY <1>2, <1>3

LEMMA InitTypes == IntakeInit => TypeInv
  <1> SUFFICES ASSUME IntakeInit PROVE TypeInv
    OBVIOUS
  <1>1. {MaxQuota} \in Quotas /\ {} \in Optional(Auth)
    BY Bounds DEF Quotas, Optional
  <1> QED
    BY <1>1, Bounds, RestTypes DEF IntakeInit, TypeInv, IntakeTypeOK

LEMMA RequestTypes ==
    ASSUME TypeInv, NEW c \in Clients,
           Arrive(c) \/ ReadToken(c) \/ FillCache(c) \/ CountRequest(c)
    PROVE  TypeInv'
  <1> USE DEF At, Refuse
  <1>0. reqs[c] \in ApiRequest /\ NoRequest \in ApiRequest
    BY RestTypes DEF TypeInv, IntakeTypeOK
  <1>1. CASE Arrive(c)
    <2>1. [NoRequest EXCEPT !.at = "read"] \in ApiRequest
      BY <1>0 DEF ApiRequest, Waiting
    <2>2. [NoRequest EXCEPT !.at = "rate", !.auth = authCache] \in ApiRequest
      BY <1>0 DEF ApiRequest, Waiting, TypeInv, IntakeTypeOK
    <2>3. reqs' \in [Clients -> ApiRequest]
      BY <1>1, <2>1, <2>2, GoTypes DEF Arrive
    <2> QED
      BY <1>1, <2>3 DEF Arrive, TypeInv, IntakeTypeOK
  <1>2. CASE ReadToken(c)
    <2> DEFINE auth == {[limit |-> project.limit, quota |-> project.quota]}
    <2>1. auth \in Optional(Auth)
      BY DEF TypeInv, IntakeTypeOK, Optional, Auth
    <2>2. [reqs[c] EXCEPT !.at = "fill", !.auth = auth] \in ApiRequest
      BY <1>0, <2>1 DEF ApiRequest, Waiting
    <2>3. reqs' \in [Clients -> ApiRequest]
      BY <1>0, <1>2, <2>2, GoTypes DEF ReadToken
    <2> QED
      BY <1>2, <2>3 DEF ReadToken, TypeInv, IntakeTypeOK
  <1>3. CASE FillCache(c)
    <2>1. [reqs[c] EXCEPT !.at = "rate"] \in ApiRequest
      BY <1>0 DEF ApiRequest, Waiting
    <2>2. reqs' \in [Clients -> ApiRequest]
      BY <1>3, <2>1, GoTypes DEF FillCache
    <2>3. authCache' \in Optional(Auth)
      BY <1>0, <1>3 DEF FillCache, ApiRequest
    <2> QED
      BY <1>3, <2>2, <2>3 DEF FillCache, TypeInv, IntakeTypeOK
  <1>4. CASE CountRequest(c)
    <2>1. [reqs[c] EXCEPT !.at = "quota"] \in ApiRequest
      BY <1>0 DEF ApiRequest, Waiting
    <2>2. [NoRequest EXCEPT !.at = "find", !.left = 1, !.free = TRUE]
            \in ApiRequest
      <3>1. 1 \in 0..MaxBulk /\ "find" \in Waiting \cup {"idle"}
        BY Bounds DEF Waiting
      <3> QED
        BY <1>0, <3>1 DEF ApiRequest
    <2>3. reqs' \in [Clients -> ApiRequest]
      BY <1>0, <1>4, <2>1, <2>2, GoTypes DEF CountRequest
    <2>4. hits' \in 0..MaxLimit + 1
      BY <1>4, Bounds DEF CountRequest, TypeInv, IntakeTypeOK
    <2> QED
      BY <1>4, <2>3, <2>4 DEF CountRequest, TypeInv, IntakeTypeOK
  <1> QED
    BY <1>1, <1>2, <1>3, <1>4

LEMMA MessageTypes ==
    ASSUME TypeInv, NEW c \in Clients,
           CheckQuota(c) \/ SkipItem(c) \/ FindExisting(c)
    PROVE  TypeInv'
  <1> USE DEF At, Refuse
  <1>0. reqs[c] \in ApiRequest /\ NoRequest \in ApiRequest
    BY RestTypes DEF TypeInv, IntakeTypeOK
  <1>1. CASE CheckQuota(c)
    <2> PICK n \in 1..MaxBulk :
            IF WithinQuota(AuthOf(c).quota, n)
            THEN Go(c, [reqs[c] EXCEPT !.at = "find", !.left = n, !.auth = {},
                                       !.free = AuthOf(c).quota = {}])
            ELSE Refuse(c)
      BY <1>1 DEF CheckQuota
    <2>1. [reqs[c] EXCEPT !.at = "find", !.left = n, !.auth = {},
                          !.free = AuthOf(c).quota = {}] \in ApiRequest
      <3>1. n \in 0..MaxBulk /\ {} \in Optional(Auth)
            /\ "find" \in Waiting \cup {"idle"}
        BY Bounds DEF Optional, Waiting
      <3> QED
        BY <1>0, <3>1 DEF ApiRequest
    <2>2. reqs' \in [Clients -> ApiRequest]
      BY <1>0, <2>1, GoTypes
    <2> QED
      BY <1>1, <2>2 DEF CheckQuota, TypeInv, IntakeTypeOK
  <1>2. CASE SkipItem(c)
    BY <1>2, NextItemTypes DEF SkipItem, TypeInv, IntakeTypeOK
  <1>3. CASE FindExisting(c)
    <2>1. ASSUME NEW key \in Keys \cup {NoKey}
          PROVE  [reqs[c] EXCEPT !.at = "insert", !.key = key,
                    !.looked = IF key = NoKey THEN 0 ELSE Len(rows)] \in ApiRequest
      <3>1. /\ Len(rows) \in 0..MaxRows /\ 0 \in 0..MaxRows
            /\ "insert" \in Waiting \cup {"idle"}
        BY Bounds DEF TypeInv, IntakeTypeOK, Waiting
      <3> QED
        BY <1>0, <3>1 DEF ApiRequest
    <2>2. reqs' \in [Clients -> ApiRequest]
      BY <1>3, <2>1, GoTypes, NextItemTypes DEF FindExisting
    <2> QED
      BY <1>3, <2>2 DEF FindExisting, TypeInv, IntakeTypeOK
  <1> QED
    BY <1>1, <1>2, <1>3

\* The row a request creates.
NewRow(c) ==
    [key |-> reqs[c].key, today |-> TRUE,
     month |-> IF reqs[c].key = NoKey THEN 0 ELSE month,
     missed |-> \E i \in Existing(reqs[c].key) : i <= reqs[c].looked,
     free |-> reqs[c].free, job |-> "due"]

LEMMA NewRowTypes ==
    ASSUME TypeInv, NEW c \in Clients
    PROVE  NewRow(c) \in Row
  <1>1. reqs[c] \in ApiRequest /\ month \in Nat
    BY Bounds DEF TypeInv, IntakeTypeOK
  <1> QED
    BY <1>1 DEF NewRow, Row, ApiRequest

\* What CreateRow does: the row of another request is found, or one is added.
LEMMA CreateRowCases ==
    ASSUME TypeInv, NEW c \in Clients, CreateRow(c)
    PROVE  \/ Conflicts(c) # {} /\ NextItem(c) /\ rows' = rows
           \/ /\ Conflicts(c) = {} /\ Len(rows) < MaxRows
              /\ rows' = Append(rows, NewRow(c))
              /\ reqs' \in [Clients -> ApiRequest]
              /\ reqs'[c].at = "enqueue" /\ reqs'[c].msg = Len(rows) + 1
              /\ \A d \in Clients \ {c} : reqs'[d] = reqs[d]
  <1>1. CASE Conflicts(c) # {} /\ Duplicate(c) /\ UNCHANGED rows
    BY <1>1 DEF Duplicate
  <1>2. CASE /\ Conflicts(c) = {} /\ Len(rows) < MaxRows
             /\ rows' = Append(rows, NewRow(c))
             /\ Go(c, [reqs[c] EXCEPT !.at = "enqueue", !.msg = Len(rows'),
                                      !.key = NoKey, !.looked = 0])
    <2>1. Len(rows') = Len(rows) + 1 /\ Len(rows') \in 0..MaxRows
      BY <1>2, NewRowTypes, Bounds DEF TypeInv
    <2> DEFINE next == [reqs[c] EXCEPT !.at = "enqueue", !.msg = Len(rows'),
                                       !.key = NoKey, !.looked = 0]
    <2>2. /\ next \in ApiRequest
          /\ next.at = "enqueue" /\ next.msg = Len(rows')
      <3>1. reqs[c] \in ApiRequest
        BY DEF TypeInv, IntakeTypeOK
      <3>2. /\ 0 \in 0..MaxRows /\ NoKey \in Keys \cup {NoKey}
            /\ "enqueue" \in Waiting \cup {"idle"}
        BY Bounds DEF Waiting
      <3> QED
        BY <2>1, <3>1, <3>2 DEF ApiRequest
    <2> HIDE DEF next
    <2>3. Go(c, next)
      BY <1>2 DEF next
    <2> QED
      BY <1>2, <2>1, <2>2, <2>3, GoTypes
  <1> QED
    BY <1>1, <1>2 DEF CreateRow, NewRow

LEMMA CreateRowTypes ==
    ASSUME TypeInv, NEW c \in Clients, CreateRow(c)
    PROVE  TypeInv'
  <1>1. reqs' \in [Clients -> ApiRequest]
    BY CreateRowCases, NextItemTypes
  <1>2. rows' \in Seq(Row) /\ Len(rows') <= MaxRows
    <2>1. NewRow(c) \in Row /\ rows \in Seq(Row) /\ Len(rows) <= MaxRows
      BY NewRowTypes DEF TypeInv, IntakeTypeOK
    <2>2. rows' = rows
          \/ (Len(rows) < MaxRows /\ rows' = Append(rows, NewRow(c)))
      BY CreateRowCases
    <2> HIDE DEF NewRow
    <2> QED
      BY <2>1, <2>2, Bounds
  <1>3. \A i \in DOMAIN rows' : rows'[i] \in Row
    BY <1>2
  <1> QED
    BY <1>1, <1>2, <1>3 DEF CreateRow, TypeInv, IntakeTypeOK

LEMMA FunctionIsSequence ==
    ASSUME NEW S, NEW n \in Nat, NEW f \in [1..n -> S]
    PROVE  f \in Seq(S) /\ Len(f) = n
  OBVIOUS

\* A row changes no column but its job.
LEMMA JobTypes ==
    ASSUME TypeInv, NEW c \in Clients, NEW v \in {"due", "done", "twice"},
           rows' = [rows EXCEPT ![reqs[c].msg].job = v]
    PROVE  /\ rows' \in Seq(Row) /\ DOMAIN rows' = DOMAIN rows
           /\ Len(rows') = Len(rows)
           /\ \A i \in DOMAIN rows :
                 /\ rows'[i] = [rows[i] EXCEPT !.job = rows'[i].job]
                 /\ rows'[i].job = IF i = reqs[c].msg THEN v ELSE rows[i].job
  <1> DEFINE m == reqs[c].msg
  <1>1. \A i \in DOMAIN rows : rows[i] \in Row
    BY DEF TypeInv, IntakeTypeOK
  <1>2. rows' = [rows EXCEPT ![m] = [@ EXCEPT !.job = v]]
    OBVIOUS
  <1>3. \A i \in DOMAIN rows :
          /\ [rows[i] EXCEPT !.job = v] \in Row
          /\ [rows[i] EXCEPT !.job = v].job = v
          /\ [rows[i] EXCEPT !.job = rows[i].job] = rows[i]
    BY <1>1 DEF Row
  <1> HIDE DEF m
  <1>4. /\ DOMAIN rows' = DOMAIN rows
        /\ \A i \in DOMAIN rows :
              rows'[i] = IF i = m THEN [rows[i] EXCEPT !.job = v] ELSE rows[i]
    BY <1>2 DEF TypeInv
  <1>5. rows' \in Seq(Row) /\ Len(rows') = Len(rows)
    <2>1. DOMAIN rows = 1..Len(rows) /\ Len(rows) \in Nat
      BY DEF TypeInv
    <2>2. rows' = [i \in DOMAIN rows |->
                     IF i = m THEN [rows[i] EXCEPT !.job = v] ELSE rows[i]]
      BY <1>2, <1>4
    <2>3. rows' \in [1..Len(rows) -> Row]
      BY <1>1, <1>3, <2>1, <2>2
    <2> QED
      BY ONLY <2>1, <2>3, FunctionIsSequence
  <1> QED
    BY <1>3, <1>4, <1>5 DEF m

LEMMA QueueTypes ==
    ASSUME TypeInv, NEW c \in Clients, QueueMessage(c) \/ Abort(c)
    PROVE  TypeInv'
  <1> DEFINE m == reqs[c].msg
  <1>0. NoRequest \in ApiRequest
    BY RestTypes
  <1>1. CASE QueueMessage(c)
    <2>1. reqs' \in [Clients -> ApiRequest]
      BY <1>1, NextItemTypes DEF QueueMessage
    <2> DEFINE v == IF rows[m].job = "due" THEN "done" ELSE "twice"
    <2>2. v \in {"due", "done", "twice"} /\ rows' = [rows EXCEPT ![m].job = v]
      BY <1>1 DEF QueueMessage
    <2> HIDE DEF v
    <2>3. rows' \in Seq(Row) /\ Len(rows') = Len(rows)
      BY <2>2, JobTypes
    <2>4. \A i \in DOMAIN rows' : rows'[i] \in Row
      BY <2>3
    <2> QED
      BY <1>1, <2>1, <2>3, <2>4 DEF QueueMessage, TypeInv, IntakeTypeOK
  <1>2. CASE Abort(c)
    <2>1. reqs' \in [Clients -> ApiRequest]
      BY <1>0, <1>2, GoTypes DEF Abort, Refuse
    <2>2. rows' \in Seq(Row) /\ Len(rows') = Len(rows)
      <3>1. CASE At(c, "enqueue")
        BY <1>2, <3>1, JobTypes DEF Abort
      <3>2. CASE ~At(c, "enqueue")
        BY <1>2, <3>2 DEF Abort, TypeInv
      <3> QED
        BY <3>1, <3>2
    <2>3. \A i \in DOMAIN rows' : rows'[i] \in Row
      BY <2>2
    <2> QED
      BY <1>2, <2>1, <2>2, <2>3 DEF Abort, TypeInv, IntakeTypeOK
  <1> QED
    BY <1>1, <1>2

\* What the panel and the clocks do to the requests and the rows.
Clock ==
    \/ UpdateProject \/ RevokeToken \/ TokenExpires \/ CacheExpires
    \/ MinuteTurns \/ DayTurns \/ MonthTurns

LEMMA DayTypes ==
    ASSUME TypeInv, DayTurns
    PROVE  /\ rows' \in Seq(Row) /\ Len(rows') = Len(rows)
           /\ DOMAIN rows' = DOMAIN rows
           /\ \A i \in DOMAIN rows : rows'[i] = [rows[i] EXCEPT !.today = FALSE]
  <1>1. rows' = [i \in DOMAIN rows |-> [rows[i] EXCEPT !.today = FALSE]]
    BY DEF DayTurns
  <1>2. \A i \in DOMAIN rows : [rows[i] EXCEPT !.today = FALSE] \in Row
    BY DEF TypeInv, IntakeTypeOK, Row
  <1>3. DOMAIN rows = 1..Len(rows) /\ Len(rows) \in Nat
    BY DEF TypeInv
  <1>4. \A i \in DOMAIN rows : rows'[i] = [rows[i] EXCEPT !.today = FALSE]
    BY <1>1
  <1>5. rows' \in [1..Len(rows) -> Row]
    BY <1>1, <1>2, <1>3
  <1> QED
    BY <1>3, <1>4, <1>5, FunctionIsSequence

LEMMA ClockTypes ==
    ASSUME TypeInv, Clock
    PROVE  TypeInv'
  <1> USE DEF Turn, TypeInv, IntakeTypeOK
  <1>1. CASE UpdateProject
    <2> PICK form \in Forms :
            project' = [active |-> form.active, limit |-> form.limit,
                        quota |-> TypedQuota(form.typed)]
      BY <1>1 DEF UpdateProject
    <2>1. /\ form.active \in BOOLEAN /\ form.limit \in 0..MaxLimit
          /\ form.typed \in 0..MaxQuota
      BY IntakeAssumption
    <2>2. TypedQuota(form.typed) \in Quotas
      BY <2>1, Bounds DEF TypedQuota, Quotas, Optional
    <2>3. turns' \in 0..MaxTurns /\ month <= turns'
      BY <1>1, Bounds DEF UpdateProject
    <2> QED
      BY <1>1, <2>1, <2>2, <2>3 DEF UpdateProject
  <1>2. CASE RevokeToken
    <2>1. turns' \in 0..MaxTurns /\ month <= turns'
      BY <1>2, Bounds DEF RevokeToken
    <2>2. token' \in [revoked : BOOLEAN, expired : BOOLEAN]
      BY <1>2 DEF RevokeToken
    <2> QED
      BY <1>2, <2>1, <2>2 DEF RevokeToken
  <1>3. CASE TokenExpires
    <2>1. turns' \in 0..MaxTurns /\ month <= turns'
      BY <1>3, Bounds DEF TokenExpires
    <2>2. token' \in [revoked : BOOLEAN, expired : BOOLEAN]
      BY <1>3 DEF TokenExpires
    <2> QED
      BY <1>3, <2>1, <2>2 DEF TokenExpires
  <1>4. CASE CacheExpires
    BY <1>4 DEF CacheExpires, Optional
  <1>5. CASE MinuteTurns
    BY <1>5, Bounds DEF MinuteTurns
  <1>6. CASE DayTurns
    <2>1. rows' \in Seq(Row) /\ Len(rows') = Len(rows)
      BY <1>6, DayTypes
    <2>2. \A i \in DOMAIN rows' : rows'[i] \in Row
      BY <2>1
    <2>3. turns' \in 0..MaxTurns /\ month <= turns'
      BY <1>6, Bounds DEF DayTurns
    <2> QED
      BY <1>6, <2>1, <2>2, <2>3 DEF DayTurns
  <1>7. CASE MonthTurns
    <2>1. turns' \in 0..MaxTurns /\ month' <= turns' /\ month' \in 0..MaxTurns
      BY <1>7, Bounds DEF MonthTurns
    <2> QED
      BY <1>7, <2>1 DEF MonthTurns
  <1> QED
    BY <1>1, <1>2, <1>3, <1>4, <1>5, <1>6, <1>7 DEF Clock

\* A step is a step of one request, of the panel or of a clock.
LEMMA Steps ==
    ASSUME IntakeNext
    PROVE  \/ \E c \in Clients :
                \/ Arrive(c) \/ ReadToken(c) \/ FillCache(c) \/ CountRequest(c)
                \/ CheckQuota(c) \/ SkipItem(c) \/ FindExisting(c)
                \/ CreateRow(c) \/ QueueMessage(c) \/ Abort(c)
           \/ Clock
  BY DEF IntakeNext, Clock

LEMMA NextTypes == TypeInv /\ [IntakeNext]_intakeVars => TypeInv'
  <1> SUFFICES ASSUME TypeInv, [IntakeNext]_intakeVars PROVE TypeInv'
    OBVIOUS
  <1>1. CASE UNCHANGED intakeVars
    BY <1>1 DEF intakeVars, TypeInv, IntakeTypeOK
  <1>2. CASE IntakeNext
    BY <1>2, Steps, RequestTypes, MessageTypes, CreateRowTypes, QueueTypes,
       ClockTypes
  <1> QED
    BY <1>1, <1>2

\* Every variable keeps its type, whatever the requests, the panel and the
\* three clocks do: a quota is none or at least one, and no row is written past
\* the bound.
THEOREM TypeCorrect == IntakeSpec => []IntakeTypeOK
  <1>1. IntakeSpec => []TypeInv
    BY InitTypes, NextTypes, PTL DEF IntakeSpec
  <1>2. TypeInv => IntakeTypeOK
    BY DEF TypeInv
  <1> QED
    BY <1>1, <1>2, PTL

-----------------------------------------------------------------------------
(* Where a step leaves the requests. *)

LEMMA GoMoves ==
    ASSUME TypeInv, NEW c \in Clients, NEW r, Go(c, r)
    PROVE  reqs'[c] = r /\ \A d \in Clients \ {c} : reqs'[d] = reqs[d]
  BY DEF Go, TypeInv, IntakeTypeOK

\* The steps before a row is written.
LEMMA EarlyMoves ==
    ASSUME TypeInv, NEW c \in Clients
    PROVE  /\ Arrive(c) =>
                \/ reqs'[c].at = "read"
                \/ authCache # {} /\ ~token.expired /\ reqs'[c].at = "rate"
           /\ ReadToken(c) =>
                reqs'[c].at = "idle" \/ (TokenValid /\ reqs'[c].at = "fill")
           /\ FillCache(c) => reqs'[c].at = "rate"
           /\ CountRequest(c) => reqs'[c].at \in {"idle", "quota", "find"}
           /\ CheckQuota(c) => reqs'[c].at \in {"idle", "find"}
           /\ SkipItem(c) => reqs'[c].at \in {"idle", "find"}
           /\ FindExisting(c) =>
                \/ reqs'[c].at \in {"idle", "find"}
                \/ /\ reqs'[c].at = "insert" /\ Existing(reqs'[c].key) = {}
                   /\ reqs'[c].looked <= Len(rows)
  <1>1. /\ reqs[c] \in ApiRequest /\ NoRequest \in ApiRequest
        /\ NoRequest.at = "idle"
    BY RestTypes DEF TypeInv, IntakeTypeOK, NoRequest
  <1> USE DEF Refuse
  <1>2. Arrive(c) =>
            \/ reqs'[c].at = "read"
            \/ authCache # {} /\ ~token.expired /\ reqs'[c].at = "rate"
    <2>1. /\ [NoRequest EXCEPT !.at = "read"].at = "read"
          /\ [NoRequest EXCEPT !.at = "rate", !.auth = authCache].at = "rate"
      BY <1>1 DEF ApiRequest
    <2> QED
      BY <2>1, GoMoves DEF Arrive
  <1>3. ReadToken(c) =>
            reqs'[c].at = "idle" \/ (TokenValid /\ reqs'[c].at = "fill")
    <2> DEFINE auth == {[limit |-> project.limit, quota |-> project.quota]}
    <2>1. [reqs[c] EXCEPT !.at = "fill", !.auth = auth].at = "fill"
      BY <1>1 DEF ApiRequest
    <2> QED
      BY <1>1, <2>1, GoMoves DEF ReadToken
  <1>4. FillCache(c) => reqs'[c].at = "rate"
    BY <1>1, GoMoves DEF FillCache, ApiRequest
  <1>5. CountRequest(c) => reqs'[c].at \in {"idle", "quota", "find"}
    <2>1. /\ [reqs[c] EXCEPT !.at = "quota"].at = "quota"
          /\ [NoRequest EXCEPT !.at = "find", !.left = 1, !.free = TRUE].at
                = "find"
      BY <1>1 DEF ApiRequest
    <2> QED
      BY <1>1, <2>1, GoMoves DEF CountRequest
  <1>6. CheckQuota(c) => reqs'[c].at \in {"idle", "find"}
    <2> SUFFICES ASSUME CheckQuota(c) PROVE reqs'[c].at \in {"idle", "find"}
      OBVIOUS
    <2> DEFINE next(n) ==
            [reqs[c] EXCEPT !.at = "find", !.left = n, !.auth = {},
                            !.free = AuthOf(c).quota = {}]
    <2>1. PICK n \in 1..MaxBulk : Go(c, next(n)) \/ Go(c, NoRequest)
      BY DEF CheckQuota
    <2>2. next(n).at = "find"
      BY <1>1 DEF ApiRequest
    <2> HIDE DEF next
    <2> QED
      BY <1>1, <2>1, <2>2, GoMoves
  <1>7. SkipItem(c) => reqs'[c].at \in {"idle", "find"}
    BY NextItemTypes DEF SkipItem
  <1>8. FindExisting(c) =>
            \/ reqs'[c].at \in {"idle", "find"}
            \/ /\ reqs'[c].at = "insert" /\ Existing(reqs'[c].key) = {}
               /\ reqs'[c].looked <= Len(rows)
    <2> SUFFICES ASSUME FindExisting(c), reqs'[c].at \notin {"idle", "find"}
                 PROVE  /\ reqs'[c].at = "insert" /\ Existing(reqs'[c].key) = {}
                        /\ reqs'[c].looked <= Len(rows)
      OBVIOUS
    <2> DEFINE next(key) ==
            [reqs[c] EXCEPT !.at = "insert", !.key = key,
                            !.looked = IF key = NoKey THEN 0 ELSE Len(rows)]
    <2>1. PICK key \in Keys \cup {NoKey} :
              IF Found(key) # {} THEN NextItem(c) ELSE Go(c, next(key))
      BY DEF FindExisting
    <2>2. Existing(key) = {} /\ Go(c, next(key))
      BY <2>1, NextItemTypes DEF Found
    <2>3. /\ next(key).at = "insert" /\ next(key).key = key
          /\ next(key).looked = IF key = NoKey THEN 0 ELSE Len(rows)
      BY <1>1 DEF ApiRequest
    <2> HIDE DEF next
    <2>4. reqs'[c] = next(key)
      BY <2>2, GoMoves
    <2>5. 0 <= Len(rows) /\ Len(rows) <= Len(rows)
      BY DEF TypeInv
    <2> QED
      BY <2>2, <2>3, <2>4, <2>5
  <1> QED
    BY <1>2, <1>3, <1>4, <1>5, <1>6, <1>7, <1>8

\* The steps at and after the writing of a row.
LEMMA LateMoves ==
    ASSUME TypeInv, NEW c \in Clients
    PROVE  /\ CreateRow(c) => reqs'[c].at \in {"idle", "find", "enqueue"}
           /\ QueueMessage(c) => reqs'[c].at \in {"idle", "find"}
           /\ Abort(c) => reqs'[c].at = "idle"
  <1>1. CreateRow(c) => reqs'[c].at \in {"idle", "find", "enqueue"}
    BY CreateRowCases, NextItemTypes
  <1>2. QueueMessage(c) => reqs'[c].at \in {"idle", "find"}
    BY NextItemTypes DEF QueueMessage
  <1>3. Abort(c) => reqs'[c].at = "idle"
    BY GoMoves DEF Abort, Refuse, NoRequest
  <1> QED
    BY <1>1, <1>2, <1>3

\* A request that does not move stays as it was.
LEMMA OthersStay ==
    ASSUME TypeInv, NEW c \in Clients,
           \/ Arrive(c) \/ ReadToken(c) \/ FillCache(c) \/ CountRequest(c)
           \/ CheckQuota(c) \/ SkipItem(c) \/ FindExisting(c)
           \/ CreateRow(c) \/ QueueMessage(c) \/ Abort(c)
    PROVE  \A d \in Clients \ {c} : reqs'[d] = reqs[d]
  <1>1. (\E r : Go(c, r)) => \A d \in Clients \ {c} : reqs'[d] = reqs[d]
    BY GoMoves
  <1>2. NextItem(c) => \A d \in Clients \ {c} : reqs'[d] = reqs[d]
    BY NextItemTypes
  <1>3. Arrive(c) \/ ReadToken(c) \/ FillCache(c) \/ CountRequest(c) \/ Abort(c)
            => \E r : Go(c, r)
    BY DEF Arrive, ReadToken, FillCache, CountRequest, Abort, Refuse
  <1>4. CheckQuota(c) => \E r : Go(c, r)
    BY DEF CheckQuota, Refuse
  <1>5. SkipItem(c) \/ QueueMessage(c) => NextItem(c)
    BY DEF SkipItem, QueueMessage
  <1>6. FindExisting(c) => NextItem(c) \/ \E r : Go(c, r)
    BY DEF FindExisting
  <1>7. CreateRow(c) => \A d \in Clients \ {c} : reqs'[d] = reqs[d]
    BY <1>2, CreateRowCases
  <1> QED
    BY <1>1, <1>2, <1>3, <1>4, <1>5, <1>6, <1>7

LEMMA ClockStays == Clock => reqs' = reqs
  BY DEF Clock, UpdateProject, RevokeToken, TokenExpires, CacheExpires,
         MinuteTurns, DayTurns, MonthTurns

-----------------------------------------------------------------------------
(* An ended token. *)

\* Only an answer of the cache or the end of a fill lets a request pass.
LEMMA PassesBy ==
    ASSUME TypeInv, [IntakeNext]_intakeVars, NEW c \in Clients, Passes(c)
    PROVE  At(c, "fill") \/ (authCache # {} /\ ~token.expired)
  <1> USE DEF Passes, At
  <1>1. CASE UNCHANGED intakeVars
    BY <1>1 DEF intakeVars
  <1>2. CASE Clock
    BY <1>2, ClockStays
  <1>3. ASSUME NEW d \in Clients,
               \/ Arrive(d) \/ ReadToken(d) \/ FillCache(d) \/ CountRequest(d)
               \/ CheckQuota(d) \/ SkipItem(d) \/ FindExisting(d)
               \/ CreateRow(d) \/ QueueMessage(d) \/ Abort(d)
        PROVE  At(c, "fill") \/ (authCache # {} /\ ~token.expired)
    <2>1. CASE d # c
      BY <1>3, <2>1, OthersStay
    <2>2. CASE d = c
      <3>1. CASE FillCache(c)
        BY <3>1 DEF FillCache
      <3> QED
        BY <1>3, <2>2, <3>1, EarlyMoves, LateMoves
    <2> QED
      BY <2>1, <2>2
  <1> QED
    BY <1>1, <1>2, <1>3, Steps

\* Once forgotten a token stays so: it is not read again as a valid one.
LEMMA StaysForgotten ==
    ASSUME TypeInv, [IntakeNext]_intakeVars, Forgotten
    PROVE  Forgotten'
  <1> USE DEF Forgotten, At
  <1>1. CASE UNCHANGED intakeVars
    BY <1>1 DEF intakeVars
  <1>2. CASE Clock
    <2>1. token.revoked => token'.revoked
      BY <1>2 DEF Clock, UpdateProject, RevokeToken, TokenExpires, CacheExpires,
         MinuteTurns, DayTurns, MonthTurns, TypeInv, IntakeTypeOK
    <2>2. authCache = {} => authCache' = {}
      BY <1>2 DEF Clock, UpdateProject, RevokeToken, TokenExpires, CacheExpires,
         MinuteTurns, DayTurns, MonthTurns
    <2> QED
      BY <1>2, <2>1, <2>2, ClockStays
  <1>3. ASSUME NEW d \in Clients,
               \/ Arrive(d) \/ ReadToken(d) \/ FillCache(d) \/ CountRequest(d)
               \/ CheckQuota(d) \/ SkipItem(d) \/ FindExisting(d)
               \/ CreateRow(d) \/ QueueMessage(d) \/ Abort(d)
        PROVE  Forgotten'
    <2>1. ~FillCache(d)
      BY DEF FillCache
    <2>2. token' = token /\ authCache' = authCache
      BY <1>3, <2>1 DEF Arrive, ReadToken, CountRequest, CheckQuota, SkipItem,
         FindExisting, CreateRow, QueueMessage, Abort
    <2>3. reqs'[d].at # "fill"
      BY <1>3, <2>1, EarlyMoves, LateMoves DEF TokenValid
    <2>4. \A c \in Clients : reqs'[c].at # "fill"
      BY <1>3, <2>3, OthersStay
    <2> QED
      BY <2>2, <2>4
  <1> QED
    BY <1>1, <1>2, <1>3, Steps

\* A revoked token that no cache holds and no request is about to cache ends
\* for good, an expired one for whoever had not read it: the columns are looked
\* at before the row is cached, and the cache does not outlive the expiry.
THEOREM EndedTokenStaysOut == IntakeSpec => TokenEndsAccess
  <1>1. IntakeSpec => []TypeInv
    BY InitTypes, NextTypes, PTL DEF IntakeSpec
  <1>2. TypeInv /\ [IntakeNext]_intakeVars =>
            /\ Forgotten => (Forgotten' /\ \A c \in Clients : ~Passes(c))
            /\ token.expired => \A c \in Clients : Passes(c) => At(c, "fill")
    BY PassesBy, StaysForgotten DEF Forgotten
  <1>3. TypeInv /\ [IntakeNext]_intakeVars =>
          [ /\ Forgotten => (Forgotten' /\ \A c \in Clients : ~Passes(c))
            /\ token.expired => \A c \in Clients : Passes(c) => At(c, "fill")
          ]_intakeVars
    BY <1>2
  <1> QED
    BY <1>1, <1>3, PTL DEF IntakeSpec, TokenEndsAccess

-----------------------------------------------------------------------------
(* One message per external id. *)

\* No column that OneMessagePerKey reads has changed.
SameRows ==
    /\ DOMAIN rows' = DOMAIN rows
    /\ \A i \in DOMAIN rows :
          /\ rows'[i].key = rows[i].key /\ rows'[i].month = rows[i].month
          /\ rows'[i].missed = rows[i].missed

Adds(c) == CreateRow(c) /\ Conflicts(c) = {} /\ rows' = Append(rows, NewRow(c))

LEMMA RowsKept ==
    ASSUME TypeInv, [IntakeNext]_intakeVars
    PROVE  SameRows \/ \E c \in Clients : Adds(c)
  <1>0. \A i \in DOMAIN rows : rows[i] \in Row
    BY DEF TypeInv, IntakeTypeOK
  <1>1. rows' = rows => SameRows
    BY DEF SameRows
  <1>2. CASE UNCHANGED intakeVars
    BY <1>1, <1>2 DEF intakeVars
  <1>3. CASE Clock
    <2>1. CASE DayTurns
      <3>1. \A i \in DOMAIN rows : rows'[i] = [rows[i] EXCEPT !.today = FALSE]
        BY <2>1, DayTypes
      <3>2. DOMAIN rows' = DOMAIN rows
        BY <2>1, DayTypes
      <3> QED
        BY <1>0, <3>1, <3>2 DEF SameRows, Row
    <2>2. CASE ~DayTurns
      BY <1>1, <1>3, <2>2 DEF Clock, UpdateProject, RevokeToken, TokenExpires,
         CacheExpires, MinuteTurns, MonthTurns
    <2> QED
      BY <2>1, <2>2
  <1>4. ASSUME NEW c \in Clients, NEW v \in {"due", "done", "twice"},
               rows' = [rows EXCEPT ![reqs[c].msg].job = v]
        PROVE  SameRows
    <2>1. /\ DOMAIN rows' = DOMAIN rows
          /\ \A i \in DOMAIN rows :
                rows'[i] = [rows[i] EXCEPT !.job = rows'[i].job]
      BY <1>4, JobTypes
    <2> QED
      BY ONLY <1>0, <2>1 DEF SameRows, Row
  <1>5. ASSUME NEW c \in Clients, QueueMessage(c) PROVE SameRows
    <2> DEFINE v == IF rows[reqs[c].msg].job = "due" THEN "done" ELSE "twice"
    <2>1. v \in {"due", "done", "twice"}
          /\ rows' = [rows EXCEPT ![reqs[c].msg].job = v]
      BY <1>5 DEF QueueMessage
    <2> HIDE DEF v
    <2> QED
      BY <1>4, <2>1
  <1>6. ASSUME NEW c \in Clients, Abort(c) PROVE SameRows
    BY <1>1, <1>4, <1>6 DEF Abort
  <1>7. ASSUME NEW c \in Clients, CreateRow(c) PROVE SameRows \/ Adds(c)
    BY <1>1, <1>7, CreateRowCases DEF Adds
  <1>8. ASSUME NEW c \in Clients,
               \/ Arrive(c) \/ ReadToken(c) \/ FillCache(c) \/ CountRequest(c)
               \/ CheckQuota(c) \/ SkipItem(c) \/ FindExisting(c)
        PROVE  SameRows
    BY <1>1, <1>8 DEF Arrive, ReadToken, FillCache, CountRequest, CheckQuota,
       SkipItem, FindExisting
  <1> QED
    BY <1>2, <1>3, <1>5, <1>6, <1>7, <1>8, Steps

\* A request comes to write a row only from its look for the external id.
LEMMA InsertBy ==
    ASSUME TypeInv, [IntakeNext]_intakeVars, NEW c \in Clients,
           reqs'[c].at = "insert"
    PROVE  \/ reqs'[c] = reqs[c]
           \/ Existing(reqs'[c].key) = {} /\ reqs'[c].looked <= Len(rows)
  <1>1. CASE UNCHANGED intakeVars
    BY <1>1 DEF intakeVars
  <1>2. CASE Clock
    BY <1>2, ClockStays
  <1>3. ASSUME NEW d \in Clients,
               \/ Arrive(d) \/ ReadToken(d) \/ FillCache(d) \/ CountRequest(d)
               \/ CheckQuota(d) \/ SkipItem(d) \/ FindExisting(d)
               \/ CreateRow(d) \/ QueueMessage(d) \/ Abort(d)
        PROVE  \/ reqs'[c] = reqs[c]
               \/ Existing(reqs'[c].key) = {} /\ reqs'[c].looked <= Len(rows)
    BY <1>3, OthersStay, EarlyMoves, LateMoves
  <1> QED
    BY <1>1, <1>2, <1>3, Steps

\* The rows that have the external id of a request about to write came after
\* its look.
LooksInv ==
    \A c \in Clients : At(c, "insert") =>
        /\ reqs[c].looked <= Len(rows)
        /\ \A i \in Existing(reqs[c].key) : i > reqs[c].looked

KeyInv == LooksInv /\ OneMessagePerKey

LEMMA KeyInit == IntakeInit => KeyInv
  BY DEF IntakeInit, KeyInv, LooksInv, OneMessagePerKey, At, NoRequest

LEMMA AddsTypes ==
    ASSUME TypeInv, NEW c \in Clients, Adds(c)
    PROVE  /\ Len(rows) \in Nat /\ DOMAIN rows = 1..Len(rows)
           /\ DOMAIN rows' = 1..(Len(rows) + 1) /\ Len(rows') = Len(rows) + 1
           /\ \A i \in DOMAIN rows : rows'[i] = rows[i]
           /\ rows'[Len(rows) + 1] = NewRow(c)
  <1>1. NewRow(c) \in Row /\ rows \in Seq(Row)
    BY NewRowTypes DEF TypeInv
  <1> HIDE DEF NewRow
  <1> QED
    BY <1>1 DEF Adds

LEMMA LooksNext ==
    ASSUME TypeInv, LooksInv, [IntakeNext]_intakeVars
    PROVE  LooksInv'
  <1> USE DEF At
  <1>0. rows \in Seq(Row) /\ rows' \in Seq(Row)
    BY NextTypes DEF TypeInv
  <1> SUFFICES ASSUME NEW c \in Clients, reqs'[c].at = "insert"
               PROVE  /\ reqs'[c].looked <= Len(rows')
                      /\ \A i \in DOMAIN rows' :
                            (rows'[i].key = reqs'[c].key /\ reqs'[c].key # NoKey)
                              => i > reqs'[c].looked
    BY DEF LooksInv, Existing
  <1>1. /\ reqs'[c].looked <= Len(rows)
        /\ \A i \in DOMAIN rows :
              (rows[i].key = reqs'[c].key /\ reqs'[c].key # NoKey)
                => i > reqs'[c].looked
    BY InsertBy DEF LooksInv, Existing
  <1>2. CASE SameRows
    <2>1. Len(rows') = Len(rows)
      BY <1>0, <1>2 DEF SameRows
    <2> QED
      BY <1>1, <1>2, <2>1 DEF SameRows
  <1>3. ASSUME NEW d \in Clients, Adds(d)
        PROVE  /\ reqs'[c].looked <= Len(rows')
               /\ \A i \in DOMAIN rows' :
                     (rows'[i].key = reqs'[c].key /\ reqs'[c].key # NoKey)
                       => i > reqs'[c].looked
    <2>1. reqs'[c].looked \in Nat
      <3>1. reqs'[c] \in ApiRequest
        BY NextTypes DEF TypeInv, IntakeTypeOK
      <3> QED
        BY <3>1, Bounds DEF ApiRequest
    <2>2. /\ Len(rows) \in Nat /\ DOMAIN rows = 1..Len(rows)
          /\ DOMAIN rows' = 1..(Len(rows) + 1) /\ Len(rows') = Len(rows) + 1
          /\ \A i \in DOMAIN rows : rows'[i] = rows[i]
      BY <1>3, AddsTypes
    <2> QED
      BY ONLY <1>1, <2>1, <2>2
  <1> QED
    BY <1>2, <1>3, RowsKept

LEMMA KeysNext ==
    ASSUME TypeInv, KeyInv, [IntakeNext]_intakeVars
    PROVE  OneMessagePerKey'
  <1>1. CASE SameRows
    BY <1>1 DEF SameRows, KeyInv, OneMessagePerKey
  <1>2. ASSUME NEW c \in Clients, Adds(c) PROVE OneMessagePerKey'
    <2>1. /\ Len(rows) \in Nat /\ DOMAIN rows = 1..Len(rows)
          /\ DOMAIN rows' = 1..(Len(rows) + 1)
          /\ \A i \in DOMAIN rows : rows'[i] = rows[i]
          /\ rows'[Len(rows) + 1] = NewRow(c)
      BY <1>2, AddsTypes
    <2>2. /\ reqs[c].looked \in Nat
          /\ \A i \in Existing(reqs[c].key) : i > reqs[c].looked
      <3>1. reqs[c] \in ApiRequest
        BY DEF TypeInv, IntakeTypeOK
      <3> QED
        BY <1>2, <3>1, Bounds DEF Adds, CreateRow, KeyInv, LooksInv, ApiRequest
    <2>3. \A i \in Existing(reqs[c].key) : i \in Nat
      BY <2>1 DEF Existing
    <2>4. NewRow(c).missed = FALSE /\ NewRow(c).key = reqs[c].key
      BY <2>2, <2>3 DEF NewRow
    <2>5. \A i \in Existing(reqs[c].key) : rows[i].month # month
      BY <1>2 DEF Adds, Conflicts
    <2>6. reqs[c].key # NoKey => NewRow(c).month = month
      BY DEF NewRow
    <2>7. ASSUME NEW i \in DOMAIN rows', NEW j \in DOMAIN rows',
                 i < j, rows'[i].key = rows'[j].key, rows'[i].key # NoKey
          PROVE  ~rows'[j].missed /\ rows'[i].month # rows'[j].month
      <3>1. CASE j \in DOMAIN rows
        <4>1. i \in DOMAIN rows
          BY <2>1, <2>7, <3>1
        <4> QED
          BY <2>1, <2>7, <3>1, <4>1 DEF KeyInv, OneMessagePerKey
      <3>2. CASE j \notin DOMAIN rows
        <4>1. j = Len(rows) + 1 /\ i \in DOMAIN rows
          BY <2>1, <2>7, <3>2
        <4>2. i \in Existing(reqs[c].key) /\ reqs[c].key # NoKey
          BY <2>1, <2>4, <2>7, <4>1 DEF Existing
        <4> QED
          BY <2>1, <2>4, <2>5, <2>6, <4>1, <4>2
      <3> QED
        BY <3>1, <3>2
    <2> QED
      BY <2>7 DEF OneMessagePerKey
  <1> QED
    BY <1>1, <1>2, RowsKept

\* Whatever the number of requests, a second row for an external id comes only
\* from two requests that overlapped while the month turned: whoever looks
\* after the first row is there finds it, and the index refuses the others.
THEOREM ExternalIdsNotRepeated == IntakeSpec => []OneMessagePerKey
  <1>1. IntakeSpec => []TypeInv
    BY InitTypes, NextTypes, PTL DEF IntakeSpec
  <1>2. TypeInv /\ KeyInv /\ [IntakeNext]_intakeVars => KeyInv'
    BY LooksNext, KeysNext DEF KeyInv
  <1>3. KeyInv => OneMessagePerKey
    BY DEF KeyInv
  <1> QED
    BY <1>1, <1>2, <1>3, KeyInit, PTL DEF IntakeSpec

-----------------------------------------------------------------------------
(* One creator queues a row. *)

\* A row waits for its job exactly while one request, its creator, is about to
\* queue it.
QueueInv ==
    /\ \A c \in Clients : At(c, "enqueue") =>
          reqs[c].msg \in DOMAIN rows /\ rows[reqs[c].msg].job = "due"
    /\ \A c, d \in Clients :
          (At(c, "enqueue") /\ At(d, "enqueue") /\ reqs[c].msg = reqs[d].msg)
            => c = d
    /\ \A i \in DOMAIN rows :
          /\ rows[i].job # "twice"
          /\ rows[i].job = "due" =>
                \E c \in Clients : At(c, "enqueue") /\ reqs[c].msg = i

LEMMA QueueInit == IntakeInit => QueueInv
  BY DEF IntakeInit, QueueInv, At, NoRequest

\* A step that leaves the jobs and the requests about to queue alone.
LEMMA QueueKept ==
    ASSUME QueueInv, DOMAIN rows' = DOMAIN rows,
           \A i \in DOMAIN rows : rows'[i].job = rows[i].job,
           \A c \in Clients :
              \/ reqs'[c] = reqs[c]
              \/ reqs[c].at # "enqueue" /\ reqs'[c].at # "enqueue"
    PROVE  QueueInv'
  BY DEF QueueInv, At

LEMMA QueueAdds ==
    ASSUME TypeInv, QueueInv, NEW c \in Clients, Adds(c)
    PROVE  QueueInv'
  <1> USE DEF At
  <1>1. /\ Len(rows) \in Nat /\ DOMAIN rows = 1..Len(rows)
        /\ DOMAIN rows' = 1..(Len(rows) + 1)
        /\ \A i \in DOMAIN rows : rows'[i] = rows[i]
        /\ rows'[Len(rows) + 1] = NewRow(c)
    BY AddsTypes
  <1>2. NewRow(c).job = "due"
    BY DEF NewRow
  <1>3. /\ reqs'[c].at = "enqueue" /\ reqs'[c].msg = Len(rows) + 1
        /\ \A d \in Clients \ {c} : reqs'[d] = reqs[d]
    BY CreateRowCases DEF Adds
  <1>4. reqs[c].at = "insert"
    BY DEF Adds, CreateRow
  <1>5. Len(rows) + 1 \notin DOMAIN rows
    BY <1>1
  <1>6. \A d \in Clients : reqs'[d].at = "enqueue" =>
            /\ reqs'[d].msg \in DOMAIN rows'
            /\ rows'[reqs'[d].msg].job = "due"
    <2> SUFFICES ASSUME NEW d \in Clients, reqs'[d].at = "enqueue"
                 PROVE  /\ reqs'[d].msg \in DOMAIN rows'
                        /\ rows'[reqs'[d].msg].job = "due"
      OBVIOUS
    <2>1. CASE d = c
      BY <1>1, <1>2, <1>3, <2>1
    <2>2. CASE d # c
      <3>1. reqs'[d] = reqs[d] /\ reqs[d].msg \in DOMAIN rows
            /\ rows[reqs[d].msg].job = "due"
        BY <1>3, <2>2 DEF QueueInv
      <3> QED
        BY <1>1, <3>1
    <2> QED
      BY <2>1, <2>2
  <1>7. \A d, e \in Clients :
            (reqs'[d].at = "enqueue" /\ reqs'[e].at = "enqueue"
               /\ reqs'[d].msg = reqs'[e].msg) => d = e
    BY <1>3, <1>5 DEF QueueInv
  <1>8. ASSUME NEW i \in DOMAIN rows'
        PROVE  /\ rows'[i].job # "twice"
               /\ rows'[i].job = "due" =>
                    \E d \in Clients :
                        reqs'[d].at = "enqueue" /\ reqs'[d].msg = i
    <2>1. CASE i = Len(rows) + 1
      BY <1>1, <1>2, <1>3, <2>1
    <2>2. CASE i \in DOMAIN rows
      BY <1>1, <1>3, <1>4, <2>2 DEF QueueInv
    <2> QED
      BY <1>1, <2>1, <2>2
  <1> QED
    BY <1>6, <1>7, <1>8 DEF QueueInv

\* The creator is done with its row.
LEMMA QueueDone ==
    ASSUME TypeInv, QueueInv, NEW c \in Clients, At(c, "enqueue"),
           QueueMessage(c) \/ Abort(c)
    PROVE  QueueInv'
  <1> USE DEF At
  <1> DEFINE m == reqs[c].msg
  <1>1. m \in DOMAIN rows /\ rows[m].job = "due"
    BY DEF QueueInv
  <1>2. rows' = [rows EXCEPT ![reqs[c].msg].job = "done"]
    BY <1>1 DEF QueueMessage, Abort
  <1>3. /\ DOMAIN rows' = DOMAIN rows
        /\ \A i \in DOMAIN rows :
              rows'[i].job = IF i = m THEN "done" ELSE rows[i].job
    BY <1>2, JobTypes
  <1>4. reqs'[c].at # "enqueue"
    BY LateMoves
  <1>5. \A d \in Clients \ {c} : reqs'[d] = reqs[d]
    BY OthersStay
  <1>6. \A d \in Clients \ {c} : reqs[d].at = "enqueue" => reqs[d].msg # m
    BY DEF QueueInv
  <1> HIDE DEF m
  <1>7. \A d \in Clients : reqs'[d].at = "enqueue" =>
            /\ reqs'[d].msg \in DOMAIN rows'
            /\ rows'[reqs'[d].msg].job = "due"
    BY ONLY <1>3, <1>4, <1>5, <1>6, QueueInv DEF QueueInv, At
  <1>8. \A d, e \in Clients :
            (reqs'[d].at = "enqueue" /\ reqs'[e].at = "enqueue"
               /\ reqs'[d].msg = reqs'[e].msg) => d = e
    BY ONLY <1>4, <1>5, QueueInv DEF QueueInv, At
  <1>9. \A i \in DOMAIN rows' :
            /\ rows'[i].job # "twice"
            /\ rows'[i].job = "due" =>
                 \E d \in Clients : reqs'[d].at = "enqueue" /\ reqs'[d].msg = i
    <2> SUFFICES ASSUME NEW i \in DOMAIN rows
                 PROVE  /\ rows'[i].job # "twice"
                        /\ rows'[i].job = "due" =>
                             \E d \in Clients :
                                reqs'[d].at = "enqueue" /\ reqs'[d].msg = i
      BY <1>3
    <2>1. CASE i = m
      BY ONLY <1>3, <2>1
    <2>2. CASE i # m
      <3>1. rows'[i].job = rows[i].job
        BY <1>3, <2>2
      <3>2. \A d \in Clients :
                (reqs[d].at = "enqueue" /\ reqs[d].msg = i)
                    => reqs'[d] = reqs[d]
        BY <1>5, <2>2 DEF m
      <3> QED
        BY ONLY <3>1, <3>2, QueueInv, i \in DOMAIN rows DEF QueueInv, At
    <2> QED
      BY <2>1, <2>2
  <1> QED
    BY <1>7, <1>8, <1>9 DEF QueueInv

LEMMA QueueNext ==
    ASSUME TypeInv, QueueInv, [IntakeNext]_intakeVars
    PROVE  QueueInv'
  <1>1. CASE UNCHANGED intakeVars
    BY <1>1, QueueKept DEF intakeVars
  <1>2. CASE Clock
    <2>1. \A i \in DOMAIN rows : rows[i] \in Row
      BY DEF TypeInv, IntakeTypeOK
    <2>2. /\ DOMAIN rows' = DOMAIN rows
          /\ \A i \in DOMAIN rows : rows'[i].job = rows[i].job
      <3>1. CASE DayTurns
        <4>1. /\ DOMAIN rows' = DOMAIN rows
              /\ \A i \in DOMAIN rows :
                    rows'[i] = [rows[i] EXCEPT !.today = FALSE]
          BY <3>1, DayTypes
        <4> QED
          BY ONLY <2>1, <4>1 DEF Row
      <3>2. CASE ~DayTurns
        BY <1>2, <3>2 DEF Clock, UpdateProject, RevokeToken, TokenExpires,
           CacheExpires, MinuteTurns, MonthTurns
      <3> QED
        BY <3>1, <3>2
    <2> QED
      BY <1>2, <2>2, ClockStays, QueueKept
  <1>3. ASSUME NEW c \in Clients,
               \/ Arrive(c) \/ ReadToken(c) \/ FillCache(c) \/ CountRequest(c)
               \/ CheckQuota(c) \/ SkipItem(c) \/ FindExisting(c)
        PROVE  QueueInv'
    <2>1. reqs[c].at # "enqueue"
      BY <1>3 DEF Arrive, ReadToken, FillCache, CountRequest, CheckQuota,
         SkipItem, FindExisting, At
    <2>2. reqs'[c].at # "enqueue"
      BY <1>3, EarlyMoves
    <2>3. rows' = rows
      BY <1>3 DEF Arrive, ReadToken, FillCache, CountRequest, CheckQuota,
         SkipItem, FindExisting
    <2> QED
      BY <1>3, <2>1, <2>2, <2>3, OthersStay, QueueKept
  <1>4. ASSUME NEW c \in Clients, CreateRow(c) PROVE QueueInv'
    <2>1. CASE Adds(c)
      BY <2>1, QueueAdds
    <2>2. CASE ~Adds(c)
      <3>1. rows' = rows /\ NextItem(c)
        BY <1>4, <2>2, CreateRowCases DEF Adds
      <3>2. reqs[c].at # "enqueue" /\ reqs'[c].at # "enqueue"
        BY <1>4, <3>1, NextItemTypes DEF CreateRow, At
      <3> QED
        BY <1>4, <3>1, <3>2, OthersStay, QueueKept
    <2> QED
      BY <2>1, <2>2
  <1>5. ASSUME NEW c \in Clients, QueueMessage(c) \/ Abort(c) PROVE QueueInv'
    <2>1. CASE At(c, "enqueue")
      BY <1>5, <2>1, QueueDone
    <2>2. CASE ~At(c, "enqueue")
      <3>1. rows' = rows /\ Abort(c)
        BY <1>5, <2>2 DEF QueueMessage, Abort
      <3>2. reqs[c].at # "enqueue" /\ reqs'[c].at # "enqueue"
        BY <2>2, <3>1, LateMoves DEF At
      <3> QED
        BY <1>5, <3>1, <3>2, OthersStay, QueueKept
    <2> QED
      BY <2>1, <2>2
  <1> QED
    BY <1>1, <1>2, <1>3, <1>4, <1>5, Steps

LEMMA QueueCounted ==
    ASSUME QueueInv
    PROVE  QueuedByItsCreator
  <1> SUFFICES ASSUME NEW i \in DOMAIN rows
               PROVE  Cardinality({c \in Clients :
                                     At(c, "enqueue") /\ reqs[c].msg = i})
                        = IF rows[i].job = "due" THEN 1
                          ELSE IF rows[i].job = "twice" THEN 2 ELSE 0
    BY DEF QueuedByItsCreator
  <1> DEFINE creators == {c \in Clients : At(c, "enqueue") /\ reqs[c].msg = i}
  <1>1. CASE rows[i].job = "due"
    <2>1. PICK c \in Clients : At(c, "enqueue") /\ reqs[c].msg = i
      BY <1>1 DEF QueueInv
    <2>2. creators = {c}
      BY <2>1 DEF QueueInv
    <2> HIDE DEF creators
    <2>3. Cardinality(creators) = 1
      BY <2>2, FS_Singleton
    <2> QED
      BY <1>1, <2>3 DEF creators
  <1>2. CASE rows[i].job # "due"
    <2>1. creators = {}
      BY <1>2 DEF QueueInv
    <2> HIDE DEF creators
    <2>2. Cardinality(creators) = 0
      BY <2>1, FS_EmptySet
    <2>3. rows[i].job # "twice"
      BY DEF QueueInv
    <2> QED
      BY <1>2, <2>2, <2>3 DEF creators
  <1> QED
    BY <1>1, <1>2

\* No row is queued by two requests and none waits for a request that is gone:
\* who finds the row of another leaves the job to it (enqueue.ts:77).
THEOREM QueuedOnce == IntakeSpec => []QueuedByItsCreator
  <1>1. IntakeSpec => []TypeInv
    BY InitTypes, NextTypes, PTL DEF IntakeSpec
  <1>2. TypeInv /\ QueueInv /\ [IntakeNext]_intakeVars => QueueInv'
    BY QueueNext
  <1> QED
    BY <1>1, <1>2, QueueInit, QueueCounted, PTL DEF IntakeSpec

-----------------------------------------------------------------------------
(* The daily quota. *)

\* The most that one request brings once it has passed the quota.
Share == Smaller(MaxBulk, MaxQuota)

\* A request that looks at a quota knows its settings, and one that was let
\* through brings no more than the quota and a bulk allow.
Measured(r) ==
    /\ r.at \in {"fill", "rate", "quota"} => r.auth # {}
    /\ (r.at \in {"find", "insert", "enqueue"} /\ ~r.free) => r.left \in 1..Share

\* The messages a request may still write that were compared with a quota.
Owed(r) ==
    {k \in 1..Share :
        /\ ~r.free
        /\ \/ r.at \in {"find", "insert"} /\ k <= r.left
           \/ r.at = "enqueue" /\ k < r.left}

Pending == {p \in Clients \X (1..Share) : p[2] \in Owed(reqs[p[1]])}
Counted == {i \in DOMAIN rows : rows[i].today /\ ~rows[i].free}
Ceiling == MaxQuota + (Cardinality(Clients) - 1) * Share

\* What was written today and what may still come stay below the bound.
QuotaInv ==
    /\ \A c \in Clients : Measured(reqs[c])
    /\ Cardinality(Counted) + Cardinality(Pending) <= Ceiling

LEMMA ShareBounds ==
    /\ Share \in Nat /\ Share <= MaxBulk /\ Share <= MaxQuota
    /\ \A n \in Nat : (n <= MaxBulk /\ n <= MaxQuota) => n <= Share
  BY Bounds DEF Share, Smaller

LEMMA PendingFinite ==
    /\ IsFiniteSet(Pending) /\ Cardinality(Pending) \in Nat
  <1>1. IsFiniteSet(1..Share)
    BY ShareBounds, FS_Interval
  <1>2. IsFiniteSet(Clients \X (1..Share))
    BY <1>1, IntakeAssumption, FS_Product
  <1>3. Pending \subseteq Clients \X (1..Share)
    BY DEF Pending
  <1> QED
    BY <1>2, <1>3, FS_Subset, FS_CardinalityType

LEMMA CountedFinite ==
    ASSUME TypeInv
    PROVE  IsFiniteSet(Counted) /\ Cardinality(Counted) \in Nat
  <1>1. DOMAIN rows = 1..Len(rows) /\ Len(rows) \in Nat
    BY DEF TypeInv
  <1>2. IsFiniteSet(DOMAIN rows)
    BY <1>1, FS_Interval
  <1>3. Counted \subseteq DOMAIN rows
    BY DEF Counted
  <1> QED
    BY <1>2, <1>3, FS_Subset, FS_CardinalityType

LEMMA CeilingInt == Ceiling \in Int /\ 0 <= Ceiling
  <1> DEFINE n == Cardinality(Clients)
  <1>1. n \in Nat
    BY IntakeAssumption, FS_CardinalityType
  <1>2. Share \in Nat /\ MaxQuota \in Nat /\ Share <= MaxQuota
    BY Bounds, ShareBounds
  <1> HIDE DEF n
  <1>3. CASE n = 0
    <2>1. (n - 1) * Share = 0 - Share
      BY <1>2, <1>3
    <2> QED
      BY <1>2, <2>1 DEF Ceiling, n
  <1>4. CASE n # 0
    <2>1. n - 1 \in Nat
      BY <1>1, <1>4
    <2>2. (n - 1) * Share \in Nat
      BY <1>2, <2>1
    <2> QED
      BY <1>2, <2>2 DEF Ceiling, n
  <1> QED
    BY <1>3, <1>4

LEMMA QuotaInit == IntakeInit => QuotaInv
  <1> SUFFICES ASSUME IntakeInit PROVE QuotaInv
    OBVIOUS
  <1>1. \A c \in Clients : Measured(reqs[c]) /\ Owed(reqs[c]) = {}
    BY DEF IntakeInit, NoRequest, Measured, Owed
  <1>2. Counted = {} /\ Pending = {}
    BY <1>1 DEF IntakeInit, Counted, Pending
  <1>3. Cardinality(Counted) = 0 /\ Cardinality(Pending) = 0
    BY <1>2, FS_EmptySet
  <1> QED
    BY <1>1, <1>3, CeilingInt DEF QuotaInv

\* What a request leaves when it goes on to its next message, or ends.
LEMMA NextItemOwes ==
    ASSUME TypeInv, NEW c \in Clients, NextItem(c), Measured(reqs[c]),
           reqs[c].at \in {"find", "insert", "enqueue"}
    PROVE  Measured(reqs'[c]) /\ Owed(reqs'[c]) \subseteq Owed(reqs[c])
  <1>1. reqs[c] \in ApiRequest
    BY DEF TypeInv, IntakeTypeOK
  <1>2. reqs[c].left \in Nat
    BY <1>1, Bounds DEF ApiRequest
  <1>3. CASE reqs[c].left > 1
    <2> DEFINE next == [reqs[c] EXCEPT !.at = "find", !.left = @ - 1,
                                       !.key = NoKey, !.looked = 0, !.msg = 0]
    <2>1. /\ next.at = "find" /\ next.left = reqs[c].left - 1
          /\ next.free = reqs[c].free
      BY <1>1 DEF ApiRequest
    <2>2. Go(c, next)
      BY <1>3 DEF NextItem
    <2> HIDE DEF next
    <2>3. reqs'[c] = next
      BY <2>2, GoMoves
    <2> QED
      BY <1>2, <1>3, <2>1, <2>3, ShareBounds DEF Measured, Owed
  <1>4. CASE ~(reqs[c].left > 1)
    <2>1. reqs'[c] = NoRequest
      BY <1>4, GoMoves DEF NextItem
    <2> QED
      BY <2>1 DEF NoRequest, Measured, Owed
  <1> QED
    BY <1>3, <1>4

\* The steps of a request that write nothing and pass no quota.
LEMMA EarlyOwes ==
    ASSUME TypeInv, NEW c \in Clients, Measured(reqs[c]),
           Arrive(c) \/ ReadToken(c) \/ FillCache(c) \/ CountRequest(c)
    PROVE  Measured(reqs'[c]) /\ Owed(reqs'[c]) = {}
  <1>0. /\ reqs[c] \in ApiRequest /\ NoRequest \in ApiRequest
        /\ Measured(NoRequest) /\ Owed(NoRequest) = {}
    BY RestTypes DEF TypeInv, IntakeTypeOK, NoRequest, Measured, Owed
  <1> USE DEF Refuse
  <1>1. CASE Arrive(c)
    <2>1. [NoRequest EXCEPT !.at = "read"].at = "read"
      BY <1>0 DEF ApiRequest
    <2>2. /\ [NoRequest EXCEPT !.at = "rate", !.auth = authCache].at = "rate"
          /\ [NoRequest EXCEPT !.at = "rate", !.auth = authCache].auth = authCache
      BY <1>0 DEF ApiRequest
    <2>3. \/ reqs'[c].at = "read"
          \/ reqs'[c].at = "rate" /\ reqs'[c].auth # {}
      BY <1>1, <2>1, <2>2, GoMoves DEF Arrive
    <2> QED
      BY <2>3 DEF Measured, Owed
  <1>2. CASE ReadToken(c)
    <2> DEFINE auth == {[limit |-> project.limit, quota |-> project.quota]}
               next == [reqs[c] EXCEPT !.at = "fill", !.auth = auth]
    <2>1. next.at = "fill" /\ next.auth = auth
      BY <1>0 DEF ApiRequest
    <2>2. auth # {}
      OBVIOUS
    <2>3. Go(c, next) \/ Go(c, NoRequest)
      BY <1>2 DEF ReadToken
    <2> HIDE DEF auth, next
    <2>4. reqs'[c] = next \/ reqs'[c] = NoRequest
      BY <2>3, GoMoves
    <2> QED
      BY <1>0, <2>1, <2>2, <2>4 DEF Measured, Owed
  <1>3. CASE FillCache(c)
    <2> DEFINE next == [reqs[c] EXCEPT !.at = "rate"]
    <2>1. next.at = "rate" /\ next.auth = reqs[c].auth /\ Go(c, next)
      BY <1>0, <1>3 DEF ApiRequest, FillCache
    <2>2. reqs[c].auth # {}
      BY <1>3 DEF FillCache, At, Measured
    <2> HIDE DEF next
    <2> QED
      BY <2>1, <2>2, GoMoves DEF Measured, Owed
  <1>4. CASE CountRequest(c)
    <2> DEFINE look == [reqs[c] EXCEPT !.at = "quota"]
               media == [NoRequest EXCEPT !.at = "find", !.left = 1, !.free = TRUE]
    <2>1. /\ look.at = "quota" /\ look.auth = reqs[c].auth
          /\ media.at = "find" /\ media.free = TRUE
      BY <1>0 DEF ApiRequest
    <2>2. reqs[c].auth # {}
      BY <1>4 DEF CountRequest, At, Measured
    <2>3. Go(c, look) \/ Go(c, media) \/ Go(c, NoRequest)
      BY <1>4 DEF CountRequest
    <2> HIDE DEF look, media
    <2>4. reqs'[c] = look \/ reqs'[c] = media \/ reqs'[c] = NoRequest
      BY <2>3, GoMoves
    <2> QED
      BY <1>0, <2>1, <2>2, <2>4 DEF Measured, Owed
  <1> QED
    BY <1>1, <1>2, <1>3, <1>4

LEMMA LateOwes ==
    ASSUME TypeInv, NEW c \in Clients, Measured(reqs[c]),
           SkipItem(c) \/ FindExisting(c) \/ QueueMessage(c) \/ Abort(c)
    PROVE  Measured(reqs'[c]) /\ Owed(reqs'[c]) \subseteq Owed(reqs[c])
  <1>1. CASE SkipItem(c) \/ QueueMessage(c)
    BY <1>1, NextItemOwes DEF SkipItem, QueueMessage, At
  <1>2. CASE Abort(c)
    <2>1. reqs'[c] = NoRequest
      BY <1>2, GoMoves DEF Abort, Refuse
    <2> QED
      BY <2>1 DEF NoRequest, Measured, Owed
  <1>3. CASE FindExisting(c)
    <2> DEFINE next(key) ==
            [reqs[c] EXCEPT !.at = "insert", !.key = key,
                            !.looked = IF key = NoKey THEN 0 ELSE Len(rows)]
    <2>1. reqs[c].at = "find"
      BY <1>3 DEF FindExisting, At
    <2>2. PICK key \in Keys \cup {NoKey} : NextItem(c) \/ Go(c, next(key))
      BY <1>3 DEF FindExisting
    <2>3. /\ next(key).at = "insert" /\ next(key).left = reqs[c].left
          /\ next(key).free = reqs[c].free
      BY DEF TypeInv, IntakeTypeOK, ApiRequest
    <2> HIDE DEF next
    <2>4. CASE NextItem(c)
      BY <2>1, <2>4, NextItemOwes
    <2>5. CASE Go(c, next(key))
      <3>1. reqs'[c] = next(key)
        BY <2>5, GoMoves
      <3> QED
        BY <2>1, <2>3, <3>1 DEF Measured, Owed
    <2> QED
      BY <2>2, <2>4, <2>5
  <1> QED
    BY <1>1, <1>2, <1>3

\* Apart from the row a request adds, no step brings a row of today.
LEMMA CountedKept ==
    ASSUME TypeInv, [IntakeNext]_intakeVars
    PROVE  Counted' \subseteq Counted \/ \E c \in Clients : Adds(c)
  <1>0. \A i \in DOMAIN rows : rows[i] \in Row
    BY DEF TypeInv, IntakeTypeOK
  <1>1. rows' = rows => Counted' = Counted
    BY DEF Counted
  <1>2. CASE UNCHANGED intakeVars
    BY <1>1, <1>2 DEF intakeVars
  <1>3. CASE Clock
    <2>1. CASE DayTurns
      <3>1. /\ DOMAIN rows' = DOMAIN rows
            /\ \A i \in DOMAIN rows : rows'[i] = [rows[i] EXCEPT !.today = FALSE]
        BY <2>1, DayTypes
      <3> QED
        BY <1>0, <3>1 DEF Counted, Row
    <2>2. CASE ~DayTurns
      BY <1>1, <1>3, <2>2 DEF Clock, UpdateProject, RevokeToken, TokenExpires,
         CacheExpires, MinuteTurns, MonthTurns
    <2> QED
      BY <2>1, <2>2
  <1>4. ASSUME NEW c \in Clients, NEW v \in {"due", "done", "twice"},
               rows' = [rows EXCEPT ![reqs[c].msg].job = v]
        PROVE  Counted' \subseteq Counted
    <2>1. /\ DOMAIN rows' = DOMAIN rows
          /\ \A i \in DOMAIN rows :
                rows'[i] = [rows[i] EXCEPT !.job = rows'[i].job]
      BY <1>4, JobTypes
    <2> QED
      BY ONLY <1>0, <2>1 DEF Counted, Row
  <1>5. ASSUME NEW c \in Clients, QueueMessage(c)
        PROVE  Counted' \subseteq Counted
    <2> DEFINE v == IF rows[reqs[c].msg].job = "due" THEN "done" ELSE "twice"
    <2>1. v \in {"due", "done", "twice"}
          /\ rows' = [rows EXCEPT ![reqs[c].msg].job = v]
      BY <1>5 DEF QueueMessage
    <2> HIDE DEF v
    <2> QED
      BY <1>4, <2>1
  <1>6. ASSUME NEW c \in Clients, Abort(c) PROVE Counted' \subseteq Counted
    BY <1>1, <1>4, <1>6 DEF Abort
  <1>7. ASSUME NEW c \in Clients, CreateRow(c)
        PROVE  Counted' \subseteq Counted \/ Adds(c)
    BY <1>1, <1>7, CreateRowCases DEF Adds
  <1>8. ASSUME NEW c \in Clients,
               \/ Arrive(c) \/ ReadToken(c) \/ FillCache(c) \/ CountRequest(c)
               \/ CheckQuota(c) \/ SkipItem(c) \/ FindExisting(c)
        PROVE  Counted' \subseteq Counted
    BY <1>1, <1>8 DEF Arrive, ReadToken, FillCache, CountRequest, CheckQuota,
       SkipItem, FindExisting
  <1> QED
    BY <1>2, <1>3, <1>5, <1>6, <1>7, <1>8, Steps

\* A step that brings no row and after which nobody owes more.
LEMMA QuotaShrinks ==
    ASSUME TypeInv, TypeInv', QuotaInv, Counted' \subseteq Counted,
           \A c \in Clients :
              Measured(reqs'[c]) /\ Owed(reqs'[c]) \subseteq Owed(reqs[c])
    PROVE  QuotaInv'
  <1>1. Pending' \subseteq Pending
    BY DEF Pending
  <1>2. Cardinality(Pending') <= Cardinality(Pending)
    BY <1>1, PendingFinite, FS_Subset
  <1>3. Cardinality(Counted') <= Cardinality(Counted)
    BY CountedFinite, FS_Subset
  <1>4. /\ Cardinality(Pending) \in Nat /\ Cardinality(Counted) \in Nat
        /\ Cardinality(Pending') \in Nat /\ Cardinality(Counted') \in Nat
    <2>1. IsFiniteSet(Pending') /\ IsFiniteSet(Counted')
      BY <1>1, PendingFinite, CountedFinite, FS_Subset
    <2> QED
      BY <2>1, PendingFinite, CountedFinite, FS_CardinalityType
  <1>5. Cardinality(Counted') + Cardinality(Pending') <= Ceiling
    BY <1>2, <1>3, <1>4, CeilingInt DEF QuotaInv
  <1>6. Ceiling' = Ceiling
    BY DEF Ceiling, Share, Smaller
  <1> QED
    BY <1>5, <1>6 DEF QuotaInv

\* What a request that adds a row still owes afterwards.
LEMMA AddsOwes ==
    ASSUME TypeInv, NEW c \in Clients, Adds(c), Measured(reqs[c])
    PROVE  /\ Measured(reqs'[c])
           /\ NewRow(c).free = reqs[c].free
           /\ \A k \in Owed(reqs'[c]) : k \in Owed(reqs[c]) /\ k # reqs[c].left
           /\ ~reqs[c].free => reqs[c].left \in Owed(reqs[c])
  <1>1. /\ reqs[c] \in ApiRequest /\ reqs[c].at = "insert"
        /\ reqs[c].left \in Nat
    BY Bounds DEF TypeInv, IntakeTypeOK, Adds, CreateRow, At, ApiRequest
  <1> DEFINE next == [reqs[c] EXCEPT !.at = "enqueue", !.msg = Len(rows'),
                                     !.key = NoKey, !.looked = 0]
  <1>2. /\ next.at = "enqueue" /\ next.left = reqs[c].left
        /\ next.free = reqs[c].free
    BY <1>1 DEF ApiRequest
  <1>3. Go(c, next)
    BY DEF Adds, CreateRow
  <1> HIDE DEF next
  <1>4. reqs'[c] = next
    BY <1>3, GoMoves
  <1>5. NewRow(c).free = reqs[c].free
    BY DEF NewRow
  <1>6. Measured(reqs'[c])
    BY <1>1, <1>2, <1>4 DEF Measured
  <1>7. \A k \in Owed(reqs'[c]) : k \in Owed(reqs[c]) /\ k # reqs[c].left
    BY <1>1, <1>2, <1>4, ShareBounds DEF Owed
  <1>8. ~reqs[c].free => reqs[c].left \in Owed(reqs[c])
    BY <1>1 DEF Owed, Measured
  <1> QED
    BY <1>5, <1>6, <1>7, <1>8

LEMMA QuotaAdds ==
    ASSUME TypeInv, TypeInv', QuotaInv, NEW c \in Clients, Adds(c)
    PROVE  QuotaInv'
  <1>1. \A d \in Clients \ {c} : reqs'[d] = reqs[d]
    BY CreateRowCases, NextItemTypes DEF Adds
  <1>2. /\ Len(rows) \in Nat /\ DOMAIN rows = 1..Len(rows)
        /\ DOMAIN rows' = 1..(Len(rows) + 1)
        /\ \A i \in DOMAIN rows : rows'[i] = rows[i]
        /\ rows'[Len(rows) + 1] = NewRow(c)
    BY AddsTypes
  <1> DEFINE new == Len(rows) + 1
             paid == <<c, reqs[c].left>>
  <1>3. CASE reqs[c].free
    <2>1. Counted' \subseteq Counted
      <3>1. ~(~rows'[new].free)
        BY <1>2, <1>3, AddsOwes DEF QuotaInv
      <3> QED
        BY <1>2, <3>1 DEF Counted
    <2>2. \A d \in Clients :
            Measured(reqs'[d]) /\ Owed(reqs'[d]) \subseteq Owed(reqs[d])
      BY <1>1, AddsOwes DEF QuotaInv
    <2> QED
      BY <2>1, <2>2, QuotaShrinks
  <1>4. CASE ~reqs[c].free
    <2>1. paid \in Pending
      BY <1>4, AddsOwes DEF QuotaInv, Pending, Owed
    <2>2. Pending' \subseteq Pending \ {paid}
      BY <1>1, AddsOwes DEF QuotaInv, Pending
    <2>3. Counted' \subseteq Counted \cup {new}
      BY <1>2 DEF Counted
    <2> HIDE DEF new, paid
    <2>4. /\ IsFiniteSet(Pending \ {paid})
          /\ Cardinality(Pending \ {paid}) = Cardinality(Pending) - 1
      BY <2>1, PendingFinite, FS_RemoveElement
    <2>5. /\ IsFiniteSet(Counted \cup {new})
          /\ Cardinality(Counted \cup {new}) <= Cardinality(Counted) + 1
      <3>1. Cardinality(Counted) \in Nat /\ IsFiniteSet(Counted)
        BY CountedFinite
      <3>2. /\ IsFiniteSet(Counted \cup {new})
            /\ Cardinality(Counted \cup {new}) =
                  IF new \in Counted THEN Cardinality(Counted)
                  ELSE Cardinality(Counted) + 1
        BY <3>1, FS_AddElement
      <3> QED
        BY <3>1, <3>2
    <2>6. /\ Cardinality(Pending') <= Cardinality(Pending) - 1
          /\ IsFiniteSet(Pending')
      BY <2>2, <2>4, FS_Subset
    <2>7. /\ Cardinality(Counted') <= Cardinality(Counted) + 1
          /\ IsFiniteSet(Counted')
      <3>1. /\ Cardinality(Counted') <= Cardinality(Counted \cup {new})
            /\ IsFiniteSet(Counted')
        BY <2>3, <2>5, FS_Subset
      <3>2. /\ Cardinality(Counted') \in Nat /\ Cardinality(Counted) \in Nat
            /\ Cardinality(Counted \cup {new}) \in Nat
        BY <2>5, <3>1, CountedFinite, FS_CardinalityType
      <3> QED
        BY <2>5, <3>1, <3>2
    <2>8. /\ Cardinality(Pending) \in Nat /\ Cardinality(Counted) \in Nat
          /\ Cardinality(Pending') \in Nat /\ Cardinality(Counted') \in Nat
      BY <2>6, <2>7, PendingFinite, CountedFinite, FS_CardinalityType
    <2>9. Cardinality(Counted') + Cardinality(Pending') <= Ceiling
      BY <2>6, <2>7, <2>8, CeilingInt DEF QuotaInv
    <2>10. Ceiling' = Ceiling
      BY DEF Ceiling, Share, Smaller
    <2>11. \A d \in Clients : Measured(reqs'[d])
      BY <1>1, AddsOwes DEF QuotaInv
    <2> QED
      BY <2>9, <2>10, <2>11 DEF QuotaInv
  <1> QED
    BY <1>3, <1>4

\* A request that was let through: what it read and what it brings fit in the
\* quota, and the others owe no more than a share each.
LEMMA QuotaChecked ==
    ASSUME TypeInv, TypeInv', QuotaInv, NEW c \in Clients, CheckQuota(c)
    PROVE  QuotaInv'
  <1>1. \A d \in Clients \ {c} : reqs'[d] = reqs[d]
    BY OthersStay
  <1>2. Counted' = Counted
    BY DEF CheckQuota, Counted
  <1>3. reqs[c] \in ApiRequest /\ reqs[c].auth # {} /\ reqs[c].at = "quota"
    BY DEF CheckQuota, At, QuotaInv, Measured, TypeInv, IntakeTypeOK
  <1>4. AuthOf(c) \in Auth
    BY <1>3 DEF AuthOf, ApiRequest, Optional
  <1> DEFINE q == AuthOf(c).quota
             next(n) == [reqs[c] EXCEPT !.at = "find", !.left = n, !.auth = {},
                                        !.free = AuthOf(c).quota = {}]
  <1>5. PICK n \in 1..MaxBulk :
            IF WithinQuota(q, n) THEN Go(c, next(n)) ELSE Refuse(c)
    BY DEF CheckQuota
  <1>6. next(n).at = "find" /\ next(n).left = n /\ next(n).free = (q = {})
    BY <1>3 DEF ApiRequest
  <1>7. q = {} \/ \E m \in 1..MaxQuota : q = {m}
    BY <1>4 DEF Auth, Quotas, Optional
  <1> HIDE DEF q, next
  <1>8. CASE ~WithinQuota(q, n) \/ q = {}
    <2>1. reqs'[c] = NoRequest \/ (reqs'[c] = next(n) /\ q = {})
      BY <1>5, <1>8, GoMoves DEF Refuse
    <2>2. Measured(reqs'[c]) /\ Owed(reqs'[c]) = {}
      <3>1. CASE reqs'[c] = NoRequest
        BY <3>1 DEF NoRequest, Measured, Owed
      <3>2. CASE reqs'[c] = next(n) /\ q = {}
        <4>1. reqs'[c].at = "find" /\ reqs'[c].free
          BY <1>6, <3>2
        <4> QED
          BY <4>1 DEF Measured, Owed
      <3> QED
        BY <2>1, <3>1, <3>2
    <2> QED
      BY <1>1, <1>2, <2>2, QuotaShrinks DEF QuotaInv
  <1>9. CASE WithinQuota(q, n) /\ q # {}
    <2>1. PICK m \in 1..MaxQuota : q = {m}
      BY <1>7, <1>9
    <2>2. reqs'[c] = next(n)
      BY <1>5, <1>9, GoMoves
    <2>3. Cardinality(Counted) <= UsedToday /\ UsedToday \in Nat
      <3> DEFINE today == {i \in DOMAIN rows : rows[i].today}
      <3>1. DOMAIN rows = 1..Len(rows) /\ Len(rows) \in Nat
        BY DEF TypeInv
      <3>2. IsFiniteSet(DOMAIN rows)
        BY <3>1, FS_Interval
      <3>3. today \subseteq DOMAIN rows /\ Counted \subseteq today
        BY DEF Counted
      <3> HIDE DEF today
      <3>4. IsFiniteSet(today) /\ Cardinality(Counted) <= Cardinality(today)
        BY <3>2, <3>3, FS_Subset
      <3> QED
        BY <3>4, FS_CardinalityType DEF UsedToday, today
    <2>4. UsedToday + n <= MaxQuota /\ n \in 1..Share
      <3>1. UsedToday + n <= m
        BY <1>9, <2>1 DEF WithinQuota
      <3> QED
        BY <1>5, <2>1, <2>3, <3>1, Bounds, ShareBounds
    <2> DEFINE others == (Clients \ {c}) \X (1..Share)
               mine == {c} \X (1..n)
    <2>5. /\ IsFiniteSet(others)
          /\ Cardinality(others) = (Cardinality(Clients) - 1) * Share
      <3>1. /\ IsFiniteSet(Clients \ {c})
            /\ Cardinality(Clients \ {c}) = Cardinality(Clients) - 1
        BY IntakeAssumption, FS_RemoveElement
      <3>2. IsFiniteSet(1..Share) /\ Cardinality(1..Share) = Share
        BY ShareBounds, FS_Interval
      <3> QED
        BY <3>1, <3>2, FS_Product
    <2>6. IsFiniteSet(mine) /\ Cardinality(mine) = n
      <3>1. IsFiniteSet({c}) /\ Cardinality({c}) = 1
        BY FS_Singleton
      <3>2. IsFiniteSet(1..n) /\ Cardinality(1..n) = n
        BY <2>4, FS_Interval
      <3>3. Cardinality(mine) = 1 * n /\ IsFiniteSet(mine)
        BY <3>1, <3>2, FS_Product
      <3> HIDE DEF mine
      <3> QED
        BY <3>3
    <2>7. Pending' \subseteq others \cup mine
      <3>1. Owed(reqs'[c]) \subseteq 1..n
        BY <1>6, <2>2, <2>4, ShareBounds DEF Owed
      <3> SUFFICES ASSUME NEW p \in Pending' PROVE p \in others \cup mine
        OBVIOUS
      <3>2. /\ p \in Clients \X (1..Share) /\ p = <<p[1], p[2]>>
            /\ p[2] \in Owed(reqs'[p[1]])
        BY DEF Pending, Owed, Share, Smaller
      <3>3. CASE p[1] = c
        BY <3>1, <3>2, <3>3
      <3>4. CASE p[1] # c
        BY <3>2, <3>4
      <3> QED
        BY <3>3, <3>4
    <2> HIDE DEF others, mine
    <2>8. /\ IsFiniteSet(Pending')
          /\ Cardinality(Pending') <= Cardinality(others) + n
      <3>1. /\ IsFiniteSet(others \cup mine)
            /\ Cardinality(others \cup mine)
                 = Cardinality(others) + n - Cardinality(others \cap mine)
        BY <2>5, <2>6, FS_Union
      <3>2. Cardinality(others \cap mine) \in Nat
        BY <2>5, FS_Subset, FS_CardinalityType
      <3>3. /\ IsFiniteSet(Pending')
            /\ Cardinality(Pending') <= Cardinality(others \cup mine)
        BY <2>7, <3>1, FS_Subset
      <3>4. /\ Cardinality(Pending') \in Nat /\ Cardinality(others) \in Nat
            /\ n \in Nat
        BY <2>4, <2>5, <3>3, FS_CardinalityType
      <3> QED
        BY <3>1, <3>2, <3>3, <3>4
    <2>9. Cardinality(Counted') + Cardinality(Pending') <= Ceiling
      <3>1. /\ Cardinality(Pending') \in Nat /\ Cardinality(Counted) \in Nat
            /\ Cardinality(others) \in Nat
        BY <2>5, <2>8, CountedFinite, FS_CardinalityType
      <3>2. Ceiling = MaxQuota + Cardinality(others)
        BY <2>5 DEF Ceiling
      <3> QED
        BY <1>2, <2>3, <2>4, <2>8, <3>1, <3>2, Bounds
    <2>10. Ceiling' = Ceiling
      BY DEF Ceiling, Share, Smaller
    <2>11. Measured(reqs'[c])
      BY <1>6, <2>2, <2>4 DEF Measured
    <2> QED
      BY <1>1, <2>9, <2>10, <2>11 DEF QuotaInv
  <1> QED
    BY <1>8, <1>9

LEMMA QuotaNext ==
    ASSUME TypeInv, QuotaInv, [IntakeNext]_intakeVars
    PROVE  QuotaInv'
  <1>0. TypeInv'
    BY NextTypes
  <1>1. CASE \E c \in Clients : Adds(c)
    BY <1>0, <1>1, QuotaAdds
  <1>2. CASE \E c \in Clients : CheckQuota(c)
    BY <1>0, <1>2, QuotaChecked
  <1>3. CASE ~(\E c \in Clients : Adds(c)) /\ ~(\E c \in Clients : CheckQuota(c))
    <2>1. Counted' \subseteq Counted
      BY <1>3, CountedKept
    <2>2. CASE UNCHANGED intakeVars
      BY <1>0, <2>1, <2>2, QuotaShrinks DEF intakeVars, QuotaInv
    <2>3. CASE Clock
      BY <1>0, <2>1, <2>3, ClockStays, QuotaShrinks DEF QuotaInv
    <2>4. ASSUME NEW c \in Clients,
                 \/ Arrive(c) \/ ReadToken(c) \/ FillCache(c) \/ CountRequest(c)
                 \/ SkipItem(c) \/ FindExisting(c)
                 \/ CreateRow(c) \/ QueueMessage(c) \/ Abort(c)
          PROVE  QuotaInv'
      <3>1. \A d \in Clients \ {c} : reqs'[d] = reqs[d]
        BY <2>4, OthersStay
      <3>2. Measured(reqs'[c]) /\ Owed(reqs'[c]) \subseteq Owed(reqs[c])
        <4>1. CASE CreateRow(c)
          <5>1. NextItem(c) /\ reqs[c].at = "insert"
            BY <1>3, <4>1, CreateRowCases DEF Adds, CreateRow, At
          <5> QED
            BY <5>1, NextItemOwes DEF QuotaInv
        <4>2. CASE ~CreateRow(c)
          BY <2>4, <4>2, EarlyOwes, LateOwes DEF QuotaInv
        <4> QED
          BY <4>1, <4>2
      <3> QED
        BY <1>0, <2>1, <3>1, <3>2, QuotaShrinks DEF QuotaInv
    <2> QED
      BY <1>3, <2>2, <2>3, <2>4, Steps
  <1> QED
    BY <1>1, <1>2, <1>3

\* However the requests of a day overlap, the messages that were compared with a
\* quota exceed it by no more than what the other requests of the moment bring:
\* who was let through had counted every row written before (routes/messages.ts),
\* and what was let through since is still owed by a request that is under way.
THEOREM QuotaOvershot == IntakeSpec => []QuotaOvershootBounded
  <1>1. IntakeSpec => []TypeInv
    BY InitTypes, NextTypes, PTL DEF IntakeSpec
  <1>2. TypeInv /\ QuotaInv /\ [IntakeNext]_intakeVars => QuotaInv'
    BY QuotaNext
  <1>3. TypeInv /\ QuotaInv => QuotaOvershootBounded
    <2> SUFFICES ASSUME TypeInv, QuotaInv PROVE QuotaOvershootBounded
      OBVIOUS
    <2>1. Cardinality(Counted) <= Ceiling
      BY CeilingInt, CountedFinite, PendingFinite DEF QuotaInv
    <2> QED
      BY <2>1 DEF QuotaOvershootBounded, Counted, Ceiling, Share
  <1> QED
    BY <1>1, <1>2, <1>3, QuotaInit, PTL DEF IntakeSpec
=============================================================================
