---------------------------- MODULE InboundProofs ----------------------------
(***************************************************************************)
(* Theorems about the replies of a contact and the chat page, for any      *)
(* number of replies, projects, messages sent and openings of the page.    *)
(***************************************************************************)
EXTENDS Inbound, FiniteSetTheorems, WellFoundedInduction, TLAPS

-----------------------------------------------------------------------------
(* Types *)

Sent == [project : Projects, status : {"SENDING", "SENT"}]
Project == Projects \cup {NoProject}

InboundTypeOK ==
    /\ \E n \in Nat : out \in [1..n -> Sent]
    /\ upserts \in [Replies ->
           [at : {"absent", "correlate", "store", "publish", "suppress",
                  "dispatch", "done"}, project : Project, optOut : BOOLEAN]]
    /\ inbox \in [Replies -> [stored : BOOLEAN, project : Project, read : BOOLEAN]]
    /\ suppressed \in BOOLEAN
    /\ webhooks \in [Replies -> Nat]
    /\ page \in {"closed", "rendered", "marked", "open", "cut off"}
    /\ thread \subseteq Replies /\ seen \subseteq Replies /\ gap \subseteq Replies

\* The message sent last.
LEMMA LastOf ==
    ASSUME NEW n \in Nat, NEW S \in SUBSET (1..n), S # {}
    PROVE  \E m \in S : \A k \in S : k <= m
  <1> DEFINE T == {n - k : k \in S}
  <1>1. T \subseteq Nat
    OBVIOUS
  <1>2. PICK l \in T : \A k \in T : ~(<<k, l>> \in OpToRel(<, Nat))
    <2>1. T # {}
      OBVIOUS
    <2> QED
      BY <1>1, <2>1, NatLessThanWellFounded, WFMin
  <1>3. PICK m \in S : l = n - m
    OBVIOUS
  <1>4. ASSUME NEW k \in S PROVE k <= m
    <2>1. n - k \in T /\ n - k \in Nat /\ l \in Nat
      BY <1>1
    <2>2. ~(n - k < l)
      BY <1>2, <2>1 DEF OpToRel
    <2> QED
      BY <1>3, <2>1, <2>2
  <1> QED
    BY <1>4

LEMMA ProceedTypes ==
    ASSUME InboundTypeOK, NEW r \in Replies,
           NEW at \in {"publish", "suppress", "dispatch", "done"},
           Proceed(r, at)
    PROVE  upserts' \in [Replies ->
               [at : {"absent", "correlate", "store", "publish", "suppress",
                      "dispatch", "done"}, project : Project, optOut : BOOLEAN]]
  BY DEF Proceed, InboundTypeOK

LEMMA ReceiveTypes ==
    ASSUME InboundTypeOK, NEW r \in Replies, NEW form, Receive(r, form),
           IsOptOutRequest(form) \in BOOLEAN
    PROVE  InboundTypeOK'
  <1> DEFINE opts == IsOptOutRequest(form)
             at == IF ClassifyInbound(form) = "process" THEN "correlate" ELSE "done"
  <1>1. opts \in BOOLEAN /\ at \in {"correlate", "done"}
    OBVIOUS
  <1>2. upserts' = [upserts EXCEPT ![r] = [@ EXCEPT !.at = at, !.optOut = opts]]
    BY DEF Receive
  <1>3. UNCHANGED <<out, inbox, suppressed, webhooks, gap, page, thread, seen>>
    BY DEF Receive, PageSide
  <1> HIDE DEF opts, at
  <1>4. upserts' \in [Replies ->
            [at : {"absent", "correlate", "store", "publish", "suppress",
                   "dispatch", "done"}, project : Project, optOut : BOOLEAN]]
    BY <1>1, <1>2 DEF InboundTypeOK
  <1> QED
    BY <1>3, <1>4 DEF InboundTypeOK

LEMMA CorrelateTypes ==
    ASSUME InboundTypeOK, NEW r \in Replies, Correlate(r)
    PROVE  InboundTypeOK'
  <1> DEFINE sent == {n \in DOMAIN out : out[n].status = "SENT"}
             project == IF sent = {} THEN NoProject
                        ELSE out[CHOOSE n \in sent : \A k \in sent : k <= n].project
  <1>1. PICK n \in Nat : out \in [1..n -> Sent]
    BY DEF InboundTypeOK
  <1>2. project \in Project
    <2>1. CASE sent # {}
      <3>1. \E m \in sent : \A k \in sent : k <= m
        BY <1>1, <2>1, LastOf
      <3>2. (CHOOSE m \in sent : \A k \in sent : k <= m) \in 1..n
        BY <1>1, <3>1
      <3> QED
        BY <1>1, <2>1, <3>2 DEF Sent, Project
    <2> QED
      BY <2>1 DEF Project
  <1> HIDE DEF project
  <1>3. upserts' = [upserts EXCEPT ![r].at = "store", ![r].project = project]
    BY DEF Correlate, project
  <1>4. UNCHANGED <<out, inbox, suppressed, webhooks, page, thread, seen, gap>>
    BY DEF Correlate, PageSide
  <1>5. upserts' \in [Replies ->
            [at : {"absent", "correlate", "store", "publish", "suppress",
                   "dispatch", "done"}, project : Project, optOut : BOOLEAN]]
    BY <1>2, <1>3 DEF InboundTypeOK
  <1> QED
    BY <1>4, <1>5 DEF InboundTypeOK

LEMMA HandlerTypes ==
    ASSUME InboundTypeOK, NEW r \in Replies,
           StoreThenPublish(r) \/ Suppress(r) \/ Dispatch(r) \/ LoseReply(r)
    PROVE  InboundTypeOK'
  <1>1. CASE upserts[r].at = "store" /\ Write(r) /\ Proceed(r, "publish")
             /\ StoreThenPublish(r)
    <2>1. inbox' \in [Replies -> [stored : BOOLEAN, project : Project,
                                  read : BOOLEAN]]
      BY <1>1 DEF Write, Absent, InboundTypeOK
    <2> QED
      BY <1>1, <2>1, ProceedTypes DEF StoreThenPublish, InboundTypeOK, PageSide
  <1>2. CASE upserts[r].at = "publish" /\ Tell(r) /\ StoreThenPublish(r)
    BY <1>2, ProceedTypes DEF StoreThenPublish, Tell, InboundTypeOK
  <1>3. CASE Suppress(r)
    BY <1>3, ProceedTypes DEF Suppress, InboundTypeOK, PageSide
  <1>4. CASE Dispatch(r)
    <2>1. webhooks' \in [Replies -> Nat]
      <3>1. webhooks \in [Replies -> Nat]
        BY DEF InboundTypeOK
      <3>2. webhooks' = [webhooks EXCEPT ![r] = @ + 1]
        BY <1>4 DEF Dispatch
      <3> QED
        BY <3>1, <3>2
    <2> QED
      BY <1>4, <2>1, ProceedTypes DEF Dispatch, InboundTypeOK, PageSide
  <1>5. CASE LoseReply(r)
    BY <1>5, ProceedTypes DEF LoseReply, InboundTypeOK, PageSide
  <1> QED
    BY <1>1, <1>2, <1>3, <1>4, <1>5 DEF StoreThenPublish

LEMMA MarkTypes ==
    ASSUME InboundTypeOK, MarkConversationRead
    PROVE  inbox' \in [Replies -> [stored : BOOLEAN, project : Project,
                                   read : BOOLEAN]]
  BY DEF MarkConversationRead, InboundTypeOK

LEMMA PageTypes ==
    ASSUME InboundTypeOK,
           \/ Render \/ MarkOnOpen \/ Subscribe \/ Resubscribe \/ StreamBreaks
           \/ Leave \/ SendFromPage
           \/ \E status \in {"SENT", "DELIVERED", "READ", "FAILED"} :
                 SendReturns(status)
    PROVE  InboundTypeOK'
  BY MarkTypes
  DEF Render, MarkOnOpen, Subscribe, Resubscribe, StreamBreaks, Leave,
      SendFromPage, SendReturns, InboundTypeOK, WorkerSide, Stored, Bounded

LEMMA OutTypes ==
    ASSUME InboundTypeOK,
           \/ \E p \in Projects : WriteTo(p)
           \/ \E n \in DOMAIN out : Acknowledge(n)
    PROVE  InboundTypeOK'
  <1>1. PICK n \in Nat : out \in [1..n -> Sent]
    BY DEF InboundTypeOK
  <1>2. \E k \in Nat : out' \in [1..k -> Sent]
    <2>1. ASSUME NEW p \in Projects, WriteTo(p)
          PROVE  out' \in [1..n + 1 -> Sent]
      <3>1. Cardinality(DOMAIN out) = n
        BY <1>1, FS_Interval
      <3> QED
        BY <1>1, <2>1, <3>1 DEF WriteTo, Sent
    <2>2. ASSUME NEW k \in DOMAIN out, Acknowledge(k)
          PROVE  out' \in [1..n -> Sent]
      BY <1>1, <2>2 DEF Acknowledge, Sent
    <2> QED
      BY <2>1, <2>2
  <1> QED
    BY <1>2 DEF WriteTo, Acknowledge, InboundTypeOK, PageSide, WorkerSide

-----------------------------------------------------------------------------
(* The thread of the page *)

\* Whatever was stored while the page is on, it shows or has missed.
PageUpToDate == page # "closed" => Stored \subseteq thread \cup gap

\* What is marked read, some page has shown, or the last one has missed.
ReadWasShown == \A r \in Stored : inbox[r].read => r \in seen \cup gap

\* Only a page that is on waits for the answer to a send.
SendingOnPage == sending = "SENDING" => page # "closed"

InboundInv ==
    /\ InboundTypeOK
    /\ PageUpToDate /\ ReadWasShown /\ SendingOnPage
    /\ thread \subseteq seen

LEMMA InitHolds == InboundInit => InboundInv
  <1> SUFFICES ASSUME InboundInit PROVE InboundInv
    OBVIOUS
  <1>1. out \in [1..0 -> Sent]
    BY DEF InboundInit
  <1>2. InboundTypeOK
    BY <1>1 DEF InboundInit, InboundTypeOK, Absent, Project
  <1>3. Stored = {}
    BY DEF InboundInit, Stored, Absent
  <1> QED
    BY <1>2, <1>3
    DEF InboundInit, InboundInv, PageUpToDate, ReadWasShown, SendingOnPage

\* Steps that leave the inbox and the page alone can only add to the gap.
LEMMA AsideKeeps ==
    ASSUME InboundInv, InboundTypeOK',
           UNCHANGED <<inbox, page, thread, sending, seen>>, gap \subseteq gap'
    PROVE  InboundInv'
  BY DEF InboundInv, PageUpToDate, ReadWasShown, SendingOnPage, Stored

LEMMA StoreKeeps ==
    ASSUME InboundInv, NEW r \in Replies, StoreThenPublish(r)
    PROVE  InboundInv'
  <1>1. InboundTypeOK'
    BY HandlerTypes DEF InboundInv
  <1>2. CASE Write(r) /\ UNCHANGED PageSide
             /\ gap' = IF page = "closed" THEN gap ELSE gap \cup {r}
    <2>1. inbox'[r].stored /\ ~inbox'[r].read
          /\ \A s \in Replies \ {r} : inbox'[s] = inbox[s]
      BY <1>2 DEF Write, Absent, InboundInv, InboundTypeOK
    <2>2. Stored' = Stored \cup {r}
      BY <2>1 DEF Stored
    <2>3. UNCHANGED <<page, thread, sending, seen>>
      BY <1>2 DEF PageSide
    <2>4. PageUpToDate'
      BY <1>2, <2>2, <2>3 DEF InboundInv, PageUpToDate
    <2>5. ReadWasShown'
      <3>1. gap \subseteq gap' /\ Stored \subseteq Replies
        BY <1>2 DEF Stored
      <3> QED
        BY <2>1, <2>2, <2>3, <3>1 DEF InboundInv, ReadWasShown
    <2> QED
      BY <1>1, <2>3, <2>4, <2>5 DEF InboundInv, SendingOnPage
  <1>3. CASE Tell(r) /\ UNCHANGED inbox
    <2>1. UNCHANGED <<page, sending>> /\ Stored' = Stored
      BY <1>3 DEF Tell, Stored
    <2>2. CASE page = "open"
      BY <1>1, <1>3, <2>1, <2>2
      DEF Tell, InboundInv, PageUpToDate, ReadWasShown, SendingOnPage
    <2>3. CASE page # "open"
      BY <1>1, <1>3, <2>1, <2>3
      DEF Tell, InboundInv, PageUpToDate, ReadWasShown, SendingOnPage
    <2> QED
      BY <2>2, <2>3
  <1> QED
    BY <1>2, <1>3 DEF StoreThenPublish

LEMMA HandleKeeps ==
    ASSUME InboundInv, NEW r \in Replies, Handle(r)
    PROVE  InboundInv'
  <1>1. ASSUME NEW form \in ReplyForms, Receive(r, form)
        PROVE  InboundInv'
    <2>1. IsOptOutRequest(form) \in BOOLEAN
      BY DEF IsOptOutRequest
    <2>2. InboundTypeOK'
      BY <1>1, <2>1, ReceiveTypes DEF InboundInv
    <2> QED
      BY <1>1, <2>2, AsideKeeps DEF Receive, PageSide
  <1>2. CASE Correlate(r)
    BY <1>2, CorrelateTypes, AsideKeeps DEF InboundInv, Correlate, PageSide
  <1>3. CASE Suppress(r) \/ Dispatch(r) \/ LoseReply(r)
    <2>1. InboundTypeOK'
      BY <1>3, HandlerTypes DEF InboundInv
    <2>2. UNCHANGED <<inbox, page, thread, sending, seen>> /\ gap \subseteq gap'
      BY <1>3 DEF Suppress, Dispatch, LoseReply, PageSide
    <2> QED
      BY <2>1, <2>2, AsideKeeps
  <1> QED
    BY <1>1, <1>2, <1>3, StoreKeeps DEF Handle

\* The rows that become read are those the page shows, or has missed.
LEMMA MarkKeeps ==
    ASSUME InboundInv, InboundTypeOK', MarkConversationRead, page # "closed",
           page' # "closed", UNCHANGED <<thread, gap, seen>>
    PROVE  InboundInv'
  <1>1. \A r \in Replies : inbox'[r].stored = inbox[r].stored
    BY DEF MarkConversationRead, InboundInv, InboundTypeOK
  <1>2. Stored' = Stored
    BY <1>1 DEF Stored
  <1> QED
    BY <1>2 DEF InboundInv, PageUpToDate, ReadWasShown, SendingOnPage

LEMMA PageKeeps ==
    ASSUME InboundInv,
           \/ Render \/ MarkOnOpen \/ Subscribe \/ Resubscribe \/ StreamBreaks
           \/ Leave \/ SendFromPage
           \/ \E status \in {"SENT", "DELIVERED", "READ", "FAILED"} :
                 SendReturns(status)
    PROVE  InboundInv'
  <1>0. InboundTypeOK'
    BY PageTypes DEF InboundInv
  <1>1. CASE Render
    <2>1. UNCHANGED <<inbox, gap>> /\ thread' = Stored /\ seen' = seen \cup Stored
          /\ sending' = "none"
      BY <1>1 DEF Render
    <2> QED
      BY <1>0, <2>1
      DEF InboundInv, PageUpToDate, ReadWasShown, SendingOnPage, Stored
  <1>2. CASE MarkOnOpen
    BY <1>0, <1>2, MarkKeeps DEF MarkOnOpen
  <1>3. CASE Subscribe \/ Resubscribe \/ StreamBreaks \/ SendFromPage
    <2>1. UNCHANGED <<inbox, thread, gap, seen>> /\ page # "closed"
          /\ page' # "closed"
      BY <1>3 DEF Subscribe, Resubscribe, StreamBreaks, SendFromPage
    <2> QED
      BY <1>0, <2>1
      DEF InboundInv, PageUpToDate, ReadWasShown, SendingOnPage, Stored
  <1>4. CASE Leave
    <2>1. UNCHANGED <<inbox, gap, seen>> /\ page' = "closed" /\ thread' = {}
          /\ sending' = "none"
      BY <1>4 DEF Leave
    <2> QED
      BY <1>0, <2>1
      DEF InboundInv, PageUpToDate, ReadWasShown, SendingOnPage, Stored
  <1>5. ASSUME NEW status \in {"SENT", "DELIVERED", "READ", "FAILED"},
               SendReturns(status)
        PROVE  InboundInv'
    <2>1. UNCHANGED <<page, thread, gap, seen>> /\ page # "closed"
          /\ sending' # "SENDING"
      BY <1>5 DEF SendReturns, InboundInv, SendingOnPage
    <2>2. CASE status = "FAILED"
      BY <1>0, <1>5, <2>1, <2>2
      DEF SendReturns, InboundInv, PageUpToDate, ReadWasShown, SendingOnPage,
          Stored
    <2>3. CASE status # "FAILED"
      BY <1>0, <1>5, <2>1, <2>3, MarkKeeps DEF SendReturns
    <2> QED
      BY <2>2, <2>3
  <1> QED
    BY <1>1, <1>2, <1>3, <1>4, <1>5

LEMMA NextKeeps ==
    ASSUME InboundInv, [InboundNext]_inboundVars
    PROVE  InboundInv'
  <1>1. CASE \/ \E p \in Projects : WriteTo(p)
             \/ \E n \in DOMAIN out : Acknowledge(n)
    <2>1. InboundTypeOK'
      BY <1>1, OutTypes DEF InboundInv
    <2>2. UNCHANGED <<inbox, page, thread, sending, seen, gap>>
      BY <1>1 DEF WriteTo, Acknowledge, PageSide, WorkerSide
    <2> QED
      BY <2>1, <2>2, AsideKeeps
  <1>2. CASE UNCHANGED inboundVars
    BY <1>2, AsideKeeps DEF inboundVars, InboundInv, InboundTypeOK
  <1> QED
    BY <1>1, <1>2, HandleKeeps, PageKeeps DEF InboundNext

-----------------------------------------------------------------------------
(* Theorems *)

LEMMA InvariantHolds == InboundSpec => []InboundInv
  <1>1. InboundInv /\ [InboundNext]_inboundVars => InboundInv'
    BY NextKeeps
  <1> QED
    BY <1>1, InitHolds, PTL DEF InboundSpec

\* A chat page whose stream is up shows every reply stored, and what
\* markConversationRead marked read has been on some page, but for the replies
\* that came while a page was rendered and not listening.
THEOREM ThreadFollows == InboundSpec => []ThreadFollowsConversation
  <1>1. InboundInv => ThreadFollowsConversation
    BY DEF InboundInv, PageUpToDate, ReadWasShown, ThreadFollowsConversation
  <1> QED
    BY <1>1, InvariantHolds, PTL
=============================================================================
