-------------------------- MODULE FleetProperties --------------------------
(***************************************************************************)
(* What the worker promises about the sockets of an account.               *)
(*                                                                         *)
(* Two windows of the code break every one of these promises, so each is   *)
(* stated for behaviours in which neither was hit (race = FALSE): a stop() *)
(* that runs while a start() or a reconnection of the same session is      *)
(* between two awaits - the start then opens its socket, or the timer is   *)
(* armed, after the stop - and a SessionManager that deletes the entry of  *)
(* another session, because it deletes by account after an await.  That    *)
(* nothing else breaks them is what the properties say.                    *)
(***************************************************************************)
EXTENDS Fleet

LiveSocket(s) == LiveSlots(sess[s]) # {}
HandlerOf(s) == \E t \in tasks : t.s = s

\* At any time one socket at most is open or being opened for the account, in
\* all its Session objects, in the worker, the QR stream and the CLI together
\* (session.ts:186: two sockets on a number end in conflict 440), as long as
\* no living owner lost its key.
OneSocket ==
    race \/ used.lapses > 0
    \/ \A s \in Sessions : \A i \in LiveSlots(sess[s]) : ~Elsewhere(s, i)

\* A session that was stopped - paused, removed, replaced, banned, given up -
\* has no socket and no timer that could start it again.
StoppedStaysDown ==
    race \/ \A s \in Sessions :
        sess[s].stopped =>
            \/ ~LiveSocket(s) /\ ~sess[s].timer /\ ~sess[s].loose
            \/ \E t \in tasks : t.s = s /\ t.at = "logout"

\* The ownership of the account, and the interval that renews its key for ever,
\* belong to a session that has a socket, a timer or a handler at work: a key
\* is never kept alive for nobody.
OwnershipInUse ==
    race \/ \A s \in Sessions :
        (sess[s].owns \/ s \in beats) =>
            \/ LiveSocket(s) \/ sess[s].timer \/ sess[s].loose \/ HandlerOf(s)

\* A session the manager started and that has a socket or a timer is the one in
\* its map: the worker can send through it, and pause and shutdown reach it.
NoOrphanSession ==
    race \/ \A s \in Sessions :
        (sess[s].host = "managed" /\ (LiveSocket(s) \/ sess[s].timer)) =>
            mapped = s

-----------------------------------------------------------------------------
(* Liveness.  Every awaited call returns; timers fire; the health check and *)
(* the restart of the container recur; a key that nobody renews expires; a  *)
(* QR stream whose session connected is closed.  A connection attempt that  *)
(* is made again and again opens in the end: it takes seconds and the       *)
(* health check that may cut it comes once a minute (strong fairness).      *)

TasksOf(s) == \E t \in tasks : t.s = s /\ TaskStep(t)
SocketMoves(s) ==
    \E i \in Slots :
        \/ SocketOpen(s, i) \/ SocketQr(s, i)
        \/ /\ sess[s].conn[i] = "connecting"
           /\ \E d \in Decisions : SocketClose(s, i, d)

\* To which the specification adds the fairness of Boot, the only one of these
\* steps that a worker which was never started can take.
FleetFairness ==
    /\ \A s \in Sessions \cup {Nobody} : WF_fleetVars(TasksOf(s))
    /\ \A s \in Sessions :
          /\ SF_fleetVars(Timers(s)) /\ SF_fleetVars(SocketMoves(s))
          /\ SF_fleetVars(sess[s].ready /\ CloseQr(s))
    /\ WF_fleetVars(KeyExpires) /\ WF_fleetVars(HealthRead)
    /\ WF_fleetVars(CliGivesUp)

\* A row that says CONNECTED gets an open socket in the manager's map, however
\* it came to say so - paired by QR or by the CLI, left by a crash, paused -
\* or stops saying it: the health check repairs it.
ConnectedRowServed ==
    (worker = "up" /\ line.status = "CONNECTED") ~>
        \/ race \/ worker # "up" \/ line.status # "CONNECTED"
        \/ mapped # Nobody /\ IsOpen(sess[mapped])

\* A session that owns its account and reconnects does not do so for ever: it
\* connects, gives up, or is stopped.
ReconnectSettles ==
    (mapped # Nobody /\ line.status = "RECONNECTING" /\ sess[mapped].owns) ~>
        race \/ worker # "up" \/ line.status # "RECONNECTING" \/ mapped = Nobody
=============================================================================
