----------------------------- MODULE MCServices -----------------------------
(***************************************************************************)
(* The components beside the queue, each in turn: part says which of them  *)
(* a behaviour is about, and the others rest.  They share no state, so     *)
(* that one run checks the behaviours of each and no product of them.  The *)
(* model values x and y stand for two accounts, users, clients, replies,   *)
(* handlers: swapping them is the symmetry of all components at once.      *)
(***************************************************************************)
EXTENDS FleetProperties, Intake, PanelUsers, Alerts, Retention, Calendar,
        Inbound, TLC

VARIABLE part

Parts == {"fleet", "intake", "users", "alerts", "retention", "calendar", "inbound"}

\* a project without limits and one whose quota was typed as zero
ProjectForms == {[active |-> FALSE, limit |-> 1, typed |-> 1],
                 [active |-> TRUE, limit |-> 1, typed |-> 0]}

\* two zones, and offsets that change by an hour in the afternoon and at midnight
LocalZones ==
    {[before |-> -10, after |-> -10, change |-> 0],
     [before |-> 6, after |-> 6, change |-> 0],
     [before |-> -12, after |-> -20, change |-> 100],
     [before |-> -20, after |-> -12, change |-> 100],
     [before |-> -12, after |-> -20, change |-> 108],
     [before |-> -20, after |-> -12, change |-> 116]}
LocalInstants == 60..220

\* a text, an opt-out from a hidden number, and a message to a group
Plain == [fromMe |-> FALSE, jid |-> "phone", phoneJid |-> FALSE,
          protocol |-> FALSE, text |-> "plain", media |-> FALSE]
ReplyKinds == {Plain,
               [Plain EXCEPT !.text = "opt_out", !.jid = "lid", !.phoneJid = TRUE],
               [Plain EXCEPT !.jid = "group"]}

Swapping == Permutations(Clients)

Init ==
    /\ part \in Parts
    /\ FleetInit /\ IntakeInit /\ UsersInit /\ AlertsInit /\ RetentionInit
    /\ CalendarInit /\ InboundInit
    /\ part # "fleet" => ~creds
    /\ part # "users" => cookies = Admins
    /\ part # "alerts" => \A a \in Accounts : lines[a] = "up"
    /\ part # "calendar" => now = 60 /\ zone.before = 6

Next ==
    \/ /\ part = "fleet" /\ FleetNext
       /\ UNCHANGED <<part, intakeVars, userVars, alertVars, retentionVars,
                      calendarVars, inboundVars>>
    \/ /\ part = "intake" /\ IntakeNext
       /\ UNCHANGED <<part, fleetVars, userVars, alertVars, retentionVars,
                      calendarVars, inboundVars>>
    \/ /\ part = "users" /\ UsersNext
       /\ UNCHANGED <<part, fleetVars, intakeVars, alertVars, retentionVars,
                      calendarVars, inboundVars>>
    \/ /\ part = "alerts" /\ AlertsNext
       /\ UNCHANGED <<part, fleetVars, intakeVars, userVars, retentionVars,
                      calendarVars, inboundVars>>
    \/ /\ part = "retention" /\ RetentionNext
       /\ UNCHANGED <<part, fleetVars, intakeVars, userVars, alertVars,
                      calendarVars, inboundVars>>
    \/ /\ part = "calendar" /\ Compute
       /\ UNCHANGED <<part, fleetVars, intakeVars, userVars, alertVars,
                      retentionVars, inboundVars>>
    \/ /\ part = "inbound" /\ InboundNext
       /\ UNCHANGED <<part, fleetVars, intakeVars, userVars, alertVars,
                      retentionVars, calendarVars>>
=============================================================================
