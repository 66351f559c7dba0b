------------------------------- MODULE Inbound -------------------------------
(***************************************************************************)
(* Replies of one contact to one account: the filter, the correlation with *)
(* the project that wrote last, the stored row, the opt-out, the webhook,  *)
(* and the chat page of the panel, which loads the conversation, marks it  *)
(* read and then follows a stream of what arrives.                         *)
(*                                                                         *)
(* Each upsert is handled on its own, await by await; the page is rendered *)
(* on the server before its stream is opened by the browser.  Out numbers  *)
(* the messages sent to the contact in the order they were created.        *)
(***************************************************************************)
EXTENDS Naturals, FiniteSets

CONSTANTS
    Replies,    \* messages WhatsApp delivers
    ReplyForms,      \* what a reply may look like: the fields of a candidate
    Projects,   \* projects that write to the contact
    MaxOut,     \* bound: messages sent to the contact
    MaxPages,   \* bound: openings of the page, of its stream, and sends from it
    MaxLosses   \* bound: queries that throw, and crashes of the worker

ASSUME InboundAssumption ==
    /\ IsFiniteSet(Replies) /\ IsFiniteSet(Projects)
    /\ MaxOut \in Nat /\ MaxPages \in Nat /\ MaxLosses \in Nat

VARIABLES
    out,        \* the outbound rows of the last 72 hours: project and status
    upserts,   \* where the handler of each reply is
    inbox,       \* the inbound rows
    suppressed, \* whether the contact is on the opt-out list
    webhooks,   \* message.received deliveries, by reply
    page,       \* the chat page: closed, rendered, open or cut off
    thread,     \* the replies the page shows
    sending,    \* the optimistic entry of a message sent from the page
    opened, losses,     \* used of the bounds
    gap,        \* history: replies stored under a page, and not told to it
    seen        \* history: replies some page has shown

inboundVars == <<out, upserts, inbox, suppressed, webhooks, page, thread, sending,
                 opened, losses, gap, seen>>

NoProject == "none"
Absent == [stored |-> FALSE, project |-> NoProject, read |-> FALSE]
Stored == {r \in Replies : inbox[r].stored}

-----------------------------------------------------------------------------
(* classifyInbound and isOptOutRequest *)

HasPhone(form) == form.jid = "phone" \/ form.phoneJid

ClassifyInbound(form) ==
    CASE form.fromMe -> "from_me"
      [] ~form.fromMe /\ form.jid \in {"no_jid", "group", "broadcast_or_status",
                                       "newsletter"} -> form.jid
      [] ~form.fromMe /\ form.jid \in {"phone", "lid", "other"} ->
            IF form.protocol THEN "empty_or_protocol"
            ELSE IF form.text = "none"
                 THEN IF form.media THEN "media_unsupported" ELSE "no_text"
            ELSE IF HasPhone(form) THEN "process"
            ELSE IF form.jid = "lid" THEN "lid_without_phone" ELSE "no_jid"

IsOptOutRequest(form) == form.text = "opt_out"

-----------------------------------------------------------------------------
(* handleInboundUpsert *)

Proceed(r, at) == upserts' = [upserts EXCEPT ![r].at = at]
PageSide == <<page, thread, sending, opened, seen>>

Receive(r, form) ==
    /\ upserts[r].at = "absent"
    /\ upserts' = [upserts EXCEPT ![r] =
           [@ EXCEPT !.at = IF ClassifyInbound(form) = "process" THEN "correlate"
                            ELSE "done",
                     !.optOut = IsOptOutRequest(form)]]
    /\ UNCHANGED <<out, inbox, suppressed, webhooks, losses, gap, PageSide>>

\* the last message that is known to have been sent; one still waiting for its
\* acknowledgement is SENDING, and its reply goes to the project before it
Correlate(r) ==
    /\ upserts[r].at = "correlate"
    /\ LET sent == {n \in DOMAIN out : out[n].status = "SENT"} IN
       upserts' = [upserts EXCEPT ![r].at = "store", ![r].project =
           IF sent = {} THEN NoProject
           ELSE out[CHOOSE n \in sent : \A k \in sent : k <= n].project]
    /\ UNCHANGED <<out, inbox, suppressed, webhooks, losses, gap, PageSide>>

Write(r) ==
    inbox' = [inbox EXCEPT ![r] = [Absent EXCEPT !.stored = TRUE,
                                    !.project = upserts[r].project]]

\* the listeners on the bus at this moment, and no other
Tell(r) ==
    /\ IF page = "open"
       THEN /\ thread' = thread \cup {r} /\ seen' = seen \cup {r}
            /\ gap' = gap \ {r}
       ELSE /\ gap' = IF page = "closed" THEN gap ELSE gap \cup {r}
            /\ UNCHANGED <<thread, seen>>
    /\ UNCHANGED <<out, suppressed, webhooks, losses, page, sending, opened>>

\* faulty: the row is written after the streams have been told
StoreLast(r) ==
    \/ /\ upserts[r].at = "store" /\ Tell(r)
       /\ Proceed(r, "publish") /\ UNCHANGED inbox
    \/ /\ upserts[r].at = "publish" /\ Write(r)
       /\ Proceed(r, IF upserts[r].project # NoProject THEN "dispatch" ELSE "done")
       /\ UNCHANGED <<out, suppressed, webhooks, losses, gap, PageSide>>

\* the row, then publishInboundToChat, an await later
StoreThenPublish(r) ==
    \/ /\ upserts[r].at = "store" /\ Write(r) /\ Proceed(r, "publish")
       /\ gap' = IF page = "closed" THEN gap ELSE gap \cup {r}
       /\ UNCHANGED <<out, suppressed, webhooks, losses, PageSide>>
    \/ /\ upserts[r].at = "publish" /\ Tell(r) /\ UNCHANGED inbox
       /\ Proceed(r, IF upserts[r].optOut THEN "suppress"
                  ELSE IF upserts[r].project # NoProject THEN "dispatch"
                  ELSE "done")

\* a failure to suppress is logged and the handler goes on
Suppress(r) ==
    /\ upserts[r].at = "suppress"
    /\ \/ suppressed' = TRUE /\ UNCHANGED losses
       \/ losses < MaxLosses /\ losses' = losses + 1 /\ UNCHANGED suppressed
    /\ Proceed(r, IF upserts[r].project # NoProject THEN "dispatch" ELSE "done")
    /\ UNCHANGED <<out, inbox, webhooks, gap, PageSide>>

Dispatch(r) ==
    /\ upserts[r].at = "dispatch"
    /\ webhooks' = [webhooks EXCEPT ![r] = @ + 1]
    /\ Proceed(r, "done")
    /\ UNCHANGED <<out, inbox, suppressed, losses, gap, PageSide>>

\* a query throws, or the worker dies: the reply is logged at most
LoseReply(r) ==
    /\ upserts[r].at \in {"correlate", "store", "publish", "suppress", "dispatch"}
    /\ losses < MaxLosses /\ losses' = losses + 1
    /\ gap' = IF upserts[r].at = "publish" THEN gap \cup {r} ELSE gap
    /\ Proceed(r, "done")
    /\ UNCHANGED <<out, inbox, suppressed, webhooks, PageSide>>

-----------------------------------------------------------------------------
(* The page *)

WorkerSide == <<upserts, suppressed, webhooks, losses>>
Bounded == opened < MaxPages /\ opened' = opened + 1

\* getConversation, on the server
Render ==
    /\ page \in {"closed", "open", "cut off"} /\ Bounded
    /\ page' = "rendered"
    /\ thread' = Stored /\ seen' = seen \cup Stored
    /\ sending' = "none"
    /\ UNCHANGED <<out, inbox, gap, WorkerSide>>

Unread == {r \in Stored : ~inbox[r].read}

\* markConversationRead: every reply there is by now
MarkConversationRead ==
    inbox' = [r \in Replies |->
           IF r \in Unread THEN [inbox[r] EXCEPT !.read = TRUE] ELSE inbox[r]]

\* after the load, and before anything of the page reaches the browser
MarkOnOpen ==
    /\ page = "rendered"
    /\ page' = "marked"
    /\ MarkConversationRead
    /\ UNCHANGED <<out, thread, sending, opened, gap, seen, WorkerSide>>

\* the EventSource of the page, through the panel, on the bus of the worker
Subscribe ==
    /\ page = "marked"
    /\ page' \in {"open", "cut off"}
    /\ UNCHANGED <<out, inbox, thread, sending, opened, gap, seen, WorkerSide>>

\* the browser opens a broken stream again, and gets nothing of what it missed
Resubscribe ==
    /\ page = "cut off" /\ Bounded
    /\ page' = "open"
    /\ UNCHANGED <<out, inbox, thread, sending, gap, seen, WorkerSide>>

StreamBreaks ==
    /\ page = "open"
    /\ page' = "cut off"
    /\ UNCHANGED <<out, inbox, thread, sending, opened, gap, seen, WorkerSide>>

Leave ==
    /\ page # "closed"
    /\ page' = "closed" /\ thread' = {} /\ sending' = "none"
    /\ UNCHANGED <<out, inbox, opened, gap, seen, WorkerSide>>

\* an optimistic entry ...
SendFromPage ==
    /\ page \in {"open", "cut off"} /\ sending # "SENDING" /\ Bounded
    /\ sending' = "SENDING"
    /\ UNCHANGED <<out, inbox, page, thread, gap, seen, WorkerSide>>

\* ... that gets its status from the answer; revalidatePath renders the page
\* again on the server, and marks read what the thread, which keeps its state,
\* does not show
SendReturns(status) ==
    /\ sending = "SENDING"
    /\ sending' = status
    /\ IF status = "FAILED" THEN UNCHANGED inbox ELSE MarkConversationRead
    /\ UNCHANGED <<out, page, thread, opened, gap, seen, WorkerSide>>

-----------------------------------------------------------------------------
(* Outbound traffic to the contact *)

WriteTo(p) ==
    /\ Cardinality(DOMAIN out) < MaxOut
    /\ out' = [n \in 1..(Cardinality(DOMAIN out) + 1) |->
           IF n \in DOMAIN out THEN out[n]
           ELSE [project |-> p, status |-> "SENDING"]]
    /\ UNCHANGED <<inbox, gap, PageSide, WorkerSide>>

Acknowledge(n) ==
    /\ out[n].status = "SENDING"
    /\ out' = [out EXCEPT ![n].status = "SENT"]
    /\ UNCHANGED <<inbox, gap, PageSide, WorkerSide>>

InboundInit ==
    /\ out = [n \in {} |-> Absent]
    /\ upserts = [r \in Replies |->
           [at |-> "absent", project |-> NoProject, optOut |-> FALSE]]
    /\ inbox = [r \in Replies |-> Absent]
    /\ suppressed = FALSE
    /\ webhooks = [r \in Replies |-> 0]
    /\ page = "closed" /\ thread = {} /\ sending = "none"
    /\ opened = 0 /\ losses = 0 /\ gap = {} /\ seen = {}

Handle(r) ==
    \/ \E form \in ReplyForms : Receive(r, form)
    \/ Correlate(r) \/ StoreThenPublish(r)
    \/ Suppress(r) \/ Dispatch(r) \/ LoseReply(r)

InboundNext ==
    \/ \E r \in Replies : Handle(r)
    \/ Render \/ MarkOnOpen \/ Subscribe \/ Resubscribe \/ StreamBreaks \/ Leave
    \/ SendFromPage
    \/ \E status \in {"SENT", "DELIVERED", "READ", "FAILED"} : SendReturns(status)
    \/ \E p \in Projects : WriteTo(p)
    \/ \E n \in DOMAIN out : Acknowledge(n)

InboundSpec == InboundInit /\ [][InboundNext]_inboundVars

-----------------------------------------------------------------------------
(* Properties *)

\* A page whose stream is up shows every reply stored, and a reply marked read
\* has been on some page, but for those that fell in a gap: stored or told to
\* the streams while a page was rendered and not yet, or no longer, listening.
ThreadFollowsConversation ==
    /\ page = "open" =>
        \A r \in Stored : r \in thread \/ r \in gap \/ upserts[r].at = "publish"
    /\ \A r \in Stored : inbox[r].read => r \in seen \/ r \in gap
=============================================================================
