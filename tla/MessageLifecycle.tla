-------------------------- MODULE MessageLifecycle --------------------------
(***************************************************************************)
(* What a project may rely on about the status of a message, whatever the  *)
(* queue, the jobs and the accounts do underneath.  A message is queued,   *)
(* then settled by the worker or canceled.  A final status stays.          *)
(* CANCELED stays too, unless the message was busy, that is, in the hands  *)
(* of the worker, when it was canceled: then the cancellation may be       *)
(* overtaken.  The worker never lets go of a message half-way through a    *)
(* send.  None of this is promised for a message whose processing was      *)
(* interrupted (disturbed).                                                *)
(***************************************************************************)
CONSTANT Message

VARIABLES status, busy, disturbed
lvars == <<status, busy, disturbed>>

Sent  == {"SENT", "DELIVERED", "READ"}
Final == Sent \cup {"FAILED"}

LInit ==
    /\ status = [m \in Message |-> "ABSENT"]
    /\ busy = {}
    /\ disturbed = {}

SetTo(m, s) == status' = [status EXCEPT ![m] = s]

Submit(m) ==
    /\ status[m] = "ABSENT"
    /\ SetTo(m, "QUEUED")
    /\ UNCHANGED <<busy, disturbed>>

Cancel(m) ==
    /\ status[m] = "QUEUED"
    /\ SetTo(m, "CANCELED")
    /\ UNCHANGED <<busy, disturbed>>

\* The worker takes the message up: never a canceled or a sent one.
PickUp(m) ==
    /\ m \notin busy
    /\ status[m] = "QUEUED"
    /\ busy' = busy \cup {m}
    /\ UNCHANGED <<status, disturbed>>

\* A busy message moves on, until it is put down; a cancellation that came
\* too late is overtaken.
Advance(m) ==
    /\ m \in busy
    /\ status[m] \notin Final
    /\ \/ \E s \in Final \cup {"SENDING"} : SetTo(m, s)
       \/ status[m] = "SENDING" /\ SetTo(m, "QUEUED")
    /\ busy' \in {busy, busy \ {m}}
    /\ UNCHANGED disturbed

PutDown(m) ==
    /\ m \in busy
    /\ status[m] # "SENDING"
    /\ busy' = busy \ {m}
    /\ UNCHANGED <<status, disturbed>>

\* Processing is interrupted: nothing is promised any more.
Disturb ==
    /\ \E D \in SUBSET Message : disturbed' = disturbed \cup D
    /\ \A m \in Message \ disturbed' :
          /\ status'[m] = status[m]
          /\ m \in busy' <=> m \in busy

Undisturbed(m) == Submit(m) \/ Cancel(m) \/ PickUp(m) \/ Advance(m) \/ PutDown(m)

LNext == Disturb \/ \E m \in Message \ disturbed : Undisturbed(m)

LSpec == LInit /\ [][LNext]_lvars

=============================================================================
