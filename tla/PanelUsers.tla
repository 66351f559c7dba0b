----------------------------- MODULE PanelUsers -----------------------------
(***************************************************************************)
(* The users of the panel: first access, invitation, login with password   *)
(* and TOTP, recovery of the password by a link, and the page on which     *)
(* they deactivate and remove each other.                                  *)
(*                                                                         *)
(* Every server action is a sequence of awaited queries without any        *)
(* transaction: a handler is at one of them, and the handlers of other     *)
(* requests run in between.  A handler may end anywhere (HandlerFails).    *)
(***************************************************************************)
EXTENDS Naturals, FiniteSets

CONSTANTS
    Admins,     \* rows of admin_users that ever exist; an e-mail each
    Links,      \* rows of admin_tokens that ever exist: numbers
    Handlers,   \* server actions under way at a time
    MaxActions  \* bound: server actions ever begun

NoOne == "none"
NoLink == 0

ASSUME PanelUsersAssumption ==
    /\ IsFiniteSet(Admins) /\ IsFiniteSet(Handlers) /\ NoOne \notin Admins
    /\ Links \subseteq Nat \ {0} /\ MaxActions \in Nat

VARIABLES
    admins,     \* the rows of admin_users
    links,      \* the rows of admin_tokens: RESET and INVITE
    cookies,    \* users with a session cookie
    handlers,   \* the server actions under way
    begun,      \* how much of MaxActions has been used
    clashed,    \* history: two handlers that take users out overlapped
    stranded    \* history: users whose setup lost its only way on

userVars == <<admins, links, cookies, handlers, begun, clashed, stranded>>

AdminRow == [password : {"absent", "pending", "set", "removed"},
             totp : {"none", "provisioned", "enabled"}, active : BOOLEAN]
LinkRow == [of : Admins \cup {NoOne}, purpose : {"RESET", "INVITE"},
            state : {"absent", "fresh", "used", "removed"},
            expired : BOOLEAN, recent : BOOLEAN]

TakingOut == {"target", "countDelete", "countDisable", "delete", "disable"}
Places == TakingOut \cup
    {"enable", "create", "inviteLink", "pending", "dropLinks", "change",
     "verifyPassword", "verifyTotp", "touch", "setupPassword", "provision",
     "confirm", "enableTotp", "consumeInvite", "dropSetup", "throttle",
     "clear", "resetLink", "resetPassword", "consumeReset", "dropReset"}

UsersTypeOK ==
    /\ admins \in [Admins -> AdminRow]
    /\ links \in [Links -> LinkRow]
    /\ cookies \subseteq Admins
    /\ handlers \in [Handlers -> [at : Places \cup {"idle"},
                                  who : Admins \cup {NoOne},
                                  link : Links \cup {NoLink}]]
    /\ begun \in 0..MaxActions
    /\ clashed \in BOOLEAN /\ stranded \subseteq Admins
    /\ \A l \in Links :     \* foreign key
        links[l].state = "fresh" =>
            admins[links[l].of].password \in {"pending", "set"}

Rest == [at |-> "idle", who |-> NoOne, link |-> NoLink]
NoRow == [password |-> "absent", totp |-> "none", active |-> TRUE]
NoLinkRow == [of |-> NoOne, purpose |-> "RESET", state |-> "absent",
              expired |-> FALSE, recent |-> FALSE]

Working == [password |-> "set", totp |-> "enabled", active |-> TRUE]

\* The seed creates one user without a password (first access).  Or the
\* first users are through with it, and signed in.
UsersInit ==
    /\ \E first \in Admins, others \in SUBSET Admins :
        \/ /\ admins = [u \in Admins |->
                        IF u = first THEN [NoRow EXCEPT !.password = "pending"]
                        ELSE NoRow]
           /\ cookies = {}
        \/ /\ admins = [u \in Admins |->
                        IF u \in {first} \cup others THEN Working ELSE NoRow]
           /\ cookies = {first} \cup others
    /\ links = [l \in Links |-> NoLinkRow]
    /\ handlers = [h \in Handlers |-> Rest]
    /\ begun = 0 /\ clashed = FALSE /\ stranded = {}

-----------------------------------------------------------------------------
Exists(u) == admins[u].password \in {"pending", "set"}
Active == {u \in Admins : Exists(u) /\ admins[u].active}
Pending == {u \in Admins : admins[u].password = "pending"}
FreshOf(u, purpose) ==
    {l \in Links : links[l].of = u /\ links[l].purpose = purpose
                   /\ links[l].state = "fresh"}

\* requireSession: the cookie, and the row read again.
SignedIn(u) == u \in cookies /\ u \in Active

Free(h) == handlers[h].at = "idle"
On(h, place) == handlers[h].at = place
Who(h) == handlers[h].who
Begin(h, place, u, l) ==
    /\ begun < MaxActions /\ begun' = begun + 1
    /\ handlers' = [handlers EXCEPT ![h] = [at |-> place, who |-> u, link |-> l]]
Move(h, place) == handlers' = [handlers EXCEPT ![h].at = place]
End(h) == handlers' = [handlers EXCEPT ![h] = Rest]

\* prisma.update throws when the row is gone, and the handler ends.
WriteUser(h, u, row, place) ==
    IF Exists(u)
    THEN admins' = [admins EXCEPT ![u] = row]
         /\ IF place = "idle" THEN End(h) ELSE Move(h, place)
    ELSE End(h) /\ UNCHANGED admins

-----------------------------------------------------------------------------
(* The page of the users.                                                  *)

ProtectedNever(me, u) == FALSE      \* fault
Protected(me, u) == u = me

\* Neither oneself (here) nor the last active user (CountActive).
TakeOut(h) ==
    /\ Free(h)
    /\ \E me, u \in Admins :
        /\ SignedIn(me) /\ Exists(u) /\ ~Protected(me, u)
        /\ \/ Begin(h, "countDisable", u, NoLink)
           \/ Begin(h, "target", u, NoLink)
           \/ Begin(h, "enable", u, NoLink)
    /\ UNCHANGED <<admins, links, cookies, clashed, stranded>>

ReadTarget(h) ==
    /\ On(h, "target")
    /\ Move(h, IF Who(h) \in Active THEN "countDelete" ELSE "delete")
    /\ UNCHANGED <<admins, links, cookies, begun, clashed, stranded>>

LastActive == Cardinality(Active) <= 1
CountActive(h) ==
    /\ handlers[h].at \in {"countDisable", "countDelete"}
    /\ IF LastActive THEN End(h)
       ELSE Move(h, IF On(h, "countDisable") THEN "disable" ELSE "delete")
    /\ UNCHANGED <<admins, links, cookies, begun, clashed, stranded>>

\* Another handler is on its way to take a user out.
Clash(h) == \E g \in Handlers \ {h} : handlers[g].at \in TakingOut

SetDisabled(h) ==
    /\ handlers[h].at \in {"disable", "enable"}
    /\ WriteUser(h, Who(h), [admins[Who(h)] EXCEPT !.active = On(h, "enable")],
                 "idle")
    /\ clashed' = (clashed \/ (On(h, "disable") /\ Clash(h)))
    /\ UNCHANGED <<links, cookies, begun, stranded>>

DeleteWithoutLinks(h) ==        \* fault
    /\ On(h, "delete")
    /\ WriteUser(h, Who(h), [NoRow EXCEPT !.password = "removed"], "idle")
    /\ clashed' = (clashed \/ Clash(h))
    /\ UNCHANGED <<links, cookies, begun, stranded>>
DeleteUser(h) ==
    /\ On(h, "delete")
    /\ WriteUser(h, Who(h), [NoRow EXCEPT !.password = "removed"], "idle")
    /\ links' = [l \in Links |->
                    IF links[l].of = Who(h)
                    THEN [NoLinkRow EXCEPT !.state = "removed"] ELSE links[l]]
    /\ clashed' = (clashed \/ Clash(h))
    /\ UNCHANGED <<cookies, begun, stranded>>

Invite(h) ==
    /\ Free(h)
    /\ \E me, u \in Admins :
        /\ SignedIn(me) /\ admins[u].password = "absent"
        /\ Begin(h, "create", u, NoLink)
    /\ UNCHANGED <<admins, links, cookies, clashed, stranded>>

\* The e-mail is unique: the second of two invitations is refused.
CreateInvited(h) ==
    /\ On(h, "create")
    /\ IF admins[Who(h)].password # "absent" THEN End(h) /\ UNCHANGED admins
       ELSE /\ admins' = [admins EXCEPT ![Who(h)].password = "pending"]
            /\ Move(h, "inviteLink")
    /\ UNCHANGED <<links, cookies, begun, clashed, stranded>>

ResendInvite(h) ==
    /\ Free(h)
    /\ \E me \in Admins, u \in Pending :
        SignedIn(me) /\ Begin(h, "dropLinks", u, NoLink)
    /\ UNCHANGED <<admins, links, cookies, clashed, stranded>>

\* The user of a setup that has its password loses the link of the second step.
Strands(u, T) ==
    admins[u].password = "set" /\ admins[u].totp # "enabled"
    /\ ~\E l \in Links : T[l].of = u /\ T[l].purpose = "INVITE"
                         /\ T[l].state = "fresh"

\* invalidateUserTokens: every link that was not used, of either purpose.
InvalidateLinks(h) ==
    /\ handlers[h].at \in {"dropLinks", "dropSetup", "dropReset"}
    /\ links' = [l \in Links |->
                    IF links[l].of = Who(h) /\ links[l].state = "fresh"
                    THEN [NoLinkRow EXCEPT !.state = "removed"] ELSE links[l]]
    /\ CASE On(h, "dropLinks") -> Move(h, "inviteLink")
         [] On(h, "dropSetup") -> Move(h, "touch")
         [] On(h, "dropReset") -> End(h)
    /\ stranded' = IF Strands(Who(h), links') THEN stranded \cup {Who(h)}
                   ELSE stranded
    /\ UNCHANGED <<admins, cookies, begun, clashed>>

AddLink(h) ==
    /\ handlers[h].at \in {"inviteLink", "resetLink"}
    /\ \E l \in Links :
        /\ links[l].state = "absent"
        /\ \A k \in Links : k < l => links[k].state # "absent"
        /\ links' = IF Exists(Who(h))
                    THEN [links EXCEPT ![l] =
                            [of |-> Who(h), state |-> "fresh",
                             purpose |-> IF On(h, "resetLink") THEN "RESET"
                                         ELSE "INVITE",
                             expired |-> FALSE, recent |-> TRUE]]
                    ELSE links
    /\ End(h)
    /\ UNCHANGED <<admins, cookies, begun, clashed, stranded>>

ChangeMyPassword(h) ==
    /\ Free(h)
    /\ \E me \in Admins : SignedIn(me) /\ Begin(h, "change", me, NoLink)
    /\ UNCHANGED <<admins, links, cookies, clashed, stranded>>

-----------------------------------------------------------------------------
(* Login, first access, recovery.                                          *)

Login(h) ==
    /\ Free(h)
    /\ \E u \in Active :
        /\ admins[u].password = "set" /\ admins[u].totp = "enabled"
        /\ Begin(h, "verifyPassword", u, NoLink)
    /\ UNCHANGED <<admins, links, cookies, clashed, stranded>>

\* The row is read again for the hash, and again for the TOTP secret.
Verify(h) ==
    /\ \/ /\ On(h, "verifyPassword") /\ admins[Who(h)].password = "set"
          /\ Move(h, "verifyTotp")
       \/ /\ On(h, "verifyTotp") /\ admins[Who(h)].totp = "enabled"
          /\ Move(h, "touch")
    /\ UNCHANGED <<admins, links, cookies, begun, clashed, stranded>>

\* touchLogin writes the row, createSession the cookie.
CreateSession(h) ==
    /\ On(h, "touch") /\ End(h)
    /\ cookies' = IF Exists(Who(h)) THEN cookies \cup {Who(h)} ELSE cookies
    /\ UNCHANGED <<admins, links, begun, clashed, stranded>>

Usable(l, purpose) ==
    links[l].state = "fresh" /\ links[l].purpose = purpose /\ ~links[l].expired

\* The user of an invitation, or without one the only user that is pending.
SetupTargets ==
    {<<links[l].of, l>> : l \in {k \in Links :
                Usable(k, "INVITE") /\ links[k].of \in Active}} \cup
    (IF Cardinality(Pending) = 1 THEN {<<u, NoLink>> : u \in Pending} ELSE {})

\* The first step asks for the password, the second for a TOTP code.
Setup(h) ==
    /\ Free(h)
    /\ \E target \in SetupTargets, place \in {"setupPassword", "confirm"} :
        Begin(h, place, target[1], target[2])
    /\ UNCHANGED <<admins, links, cookies, clashed, stranded>>

SetPassword(h) ==
    /\ handlers[h].at \in {"setupPassword", "change", "resetPassword"}
    /\ WriteUser(h, Who(h), [admins[Who(h)] EXCEPT !.password = "set"],
         CASE On(h, "setupPassword") -> "provision"
           [] On(h, "change") -> "dropReset"
           [] On(h, "resetPassword") -> "consumeReset")
    /\ stranded' = IF On(h, "setupPassword") /\ FreshOf(Who(h), "INVITE") = {}
                   THEN stranded \cup {Who(h)} ELSE stranded
    /\ UNCHANGED <<links, cookies, begun, clashed>>

\* Fault: the first step uses the invitation up.
ProvisionAndConsume(h) ==
    /\ On(h, "provision")
    /\ WriteUser(h, Who(h), [admins[Who(h)] EXCEPT !.totp =
                    IF @ = "enabled" THEN @ ELSE "provisioned"], "idle")
    /\ links' = IF handlers[h].link = NoLink THEN links
                ELSE [links EXCEPT ![handlers[h].link].state = "used"]
    /\ UNCHANGED <<cookies, begun, clashed, stranded>>

ProvisionTotp(h) ==
    /\ On(h, "provision")
    /\ WriteUser(h, Who(h), [admins[Who(h)] EXCEPT !.totp =
                    IF @ = "enabled" THEN @ ELSE "provisioned"], "idle")
    /\ UNCHANGED <<links, cookies, begun, clashed, stranded>>

\* The code is compared with the secret, then the row is written.
ConfirmTotp(h) ==
    /\ \/ /\ On(h, "confirm") /\ admins[Who(h)].totp # "none"
          /\ Move(h, "enableTotp") /\ UNCHANGED admins
       \/ /\ On(h, "enableTotp")
          /\ WriteUser(h, Who(h), [admins[Who(h)] EXCEPT !.totp = "enabled"],
                IF handlers[h].link = NoLink THEN "touch" ELSE "consumeInvite")
    /\ UNCHANGED <<links, cookies, begun, clashed, stranded>>

\* consumeAdminToken: after the setup only if the link can still be found.
ConsumeLink(h) ==
    /\ handlers[h].at \in {"consumeInvite", "consumeReset"}
    /\ LET l == handlers[h].link IN
        /\ links' = IF links[l].state \in {"fresh", "used"}
                       /\ (On(h, "consumeInvite") => Usable(l, "INVITE"))
                    THEN [links EXCEPT ![l].state = "used"] ELSE links
        /\ IF On(h, "consumeInvite") THEN Move(h, "dropSetup")
           ELSE IF links[l].state \in {"fresh", "used"}
           THEN Move(h, "dropReset") ELSE End(h)
    /\ UNCHANGED <<admins, cookies, begun, clashed, stranded>>

\* "Forgot password": at most one link a minute, and the older ones go.
RequestReset(h) ==
    /\ Free(h)
    /\ \E u \in Active \ Pending : Begin(h, "throttle", u, NoLink)
    /\ UNCHANGED <<admins, links, cookies, clashed, stranded>>

Throttle(h) ==
    /\ On(h, "throttle")
    /\ IF \E l \in Links : links[l].of = Who(h) /\ links[l].recent
                           /\ links[l].purpose = "RESET"
       THEN End(h) ELSE Move(h, "clear")
    /\ UNCHANGED <<admins, links, cookies, begun, clashed, stranded>>

ClearNothing(h) ==          \* fault
    /\ On(h, "clear") /\ Move(h, "resetLink")
    /\ UNCHANGED <<admins, links, cookies, begun, clashed, stranded>>
ClearResets(h) ==
    /\ On(h, "clear") /\ Move(h, "resetLink")
    /\ links' = [l \in Links |-> IF l \in FreshOf(Who(h), "RESET")
                    THEN [NoLinkRow EXCEPT !.state = "removed"] ELSE links[l]]
    /\ UNCHANGED <<admins, cookies, begun, clashed, stranded>>

ResetPassword(h) ==
    /\ Free(h)
    /\ \E l \in Links :
        /\ Usable(l, "RESET") /\ links[l].of \in Active
        /\ Begin(h, "resetPassword", links[l].of, l)
    /\ UNCHANGED <<admins, links, cookies, clashed, stranded>>

-----------------------------------------------------------------------------
(* Time, failures.                                                         *)

LinkExpires ==
    /\ \E l \in Links : /\ links[l].state = "fresh"
                        /\ links' = [links EXCEPT ![l].expired = TRUE]
    /\ UNCHANGED <<admins, cookies, handlers, begun, clashed, stranded>>

MinutePasses ==
    /\ links' = [l \in Links |-> [links[l] EXCEPT !.recent = FALSE]]
    /\ UNCHANGED <<admins, cookies, handlers, begun, clashed, stranded>>

\* Logout, or eight hours.
CookieEnds ==
    /\ \E u \in cookies : cookies' = cookies \ {u}
    /\ UNCHANGED <<admins, links, handlers, begun, clashed, stranded>>

\* A wrong password or code, a query that fails, the end of the process.
HandlerFails(h) ==
    /\ ~Free(h) /\ End(h)
    /\ stranded' = IF Who(h) # NoOne /\ Strands(Who(h), links)
                   THEN stranded \cup {Who(h)} ELSE stranded
    /\ UNCHANGED <<admins, links, cookies, begun, clashed>>

UsersNext ==
    \/ \E h \in Handlers :
        \/ TakeOut(h) \/ ReadTarget(h) \/ CountActive(h) \/ SetDisabled(h)
        \/ DeleteUser(h) \/ Invite(h) \/ CreateInvited(h) \/ ResendInvite(h)
        \/ InvalidateLinks(h) \/ AddLink(h) \/ ChangeMyPassword(h) \/ Login(h)
        \/ Verify(h) \/ CreateSession(h) \/ Setup(h) \/ SetPassword(h)
        \/ ProvisionTotp(h) \/ ConfirmTotp(h) \/ ConsumeLink(h)
        \/ RequestReset(h) \/ Throttle(h) \/ ClearResets(h) \/ ResetPassword(h)
        \/ HandlerFails(h)
    \/ LinkExpires \/ MinutePasses \/ CookieEnds

UsersSpec == UsersInit /\ [][UsersNext]_userVars

-----------------------------------------------------------------------------
(* Properties.                                                             *)

CanWork(u) == admins[u].password = "set" /\ admins[u].totp = "enabled"

\* Once somebody has come in, an active user with password and TOTP is left,
\* whoever deactivates and removes whom, in any order - although the users the
\* code counts (admin-users.ts:94) include those that never finished their
\* setup.  The exception is two handlers that take users out at once.
WorkingUserLeft ==
    (~clashed /\ \E u \in Admins : CanWork(u) \/ admins[u].password = "removed")
        => \E u \in Active : CanWork(u)

\* A user who asks for a new password again and again has at most as many links
\* that still work as requests of his were handled at once: a new link ends the
\* older ones (admin-tokens.ts:20).
ResetLinksBounded ==
    \A u \in Admins :
        Cardinality(FreshOf(u, "RESET")) <= Cardinality(Handlers)

\* An invited user between the two steps of the setup keeps the link that leads
\* to the second one, or it is being replaced: without it he could neither log
\* in nor be invited again.  The exceptions are those of stranded: no link when
\* he set the password, a reset in between, a new invitation that failed.
SetupNotStranded ==
    \A u \in Active :
        (admins[u].password = "set" /\ admins[u].totp # "enabled") =>
            \/ u \in stranded \/ FreshOf(u, "INVITE") # {}
            \/ \E h \in Handlers : Who(h) = u /\ On(h, "inviteLink")
=============================================================================
