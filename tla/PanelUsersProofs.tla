-------------------------- MODULE PanelUsersProofs --------------------------
(***************************************************************************)
(* Theorems about the users of the panel, for any number of users, links   *)
(* and server actions under way.  The kinds of step come first: what each  *)
(* action does to a row, to a link and to the handler that takes it.       *)
(***************************************************************************)
EXTENDS PanelUsers, FiniteSetTheorems, TLAPS

-----------------------------------------------------------------------------
(* What a handler knows of the rows it read *)

Removed(u) == admins[u].password = "removed"
HasPassword(u) == admins[u].password \in {"set", "removed"}
HasEverything(u) == CanWork(u) \/ Removed(u)
HasSecret(u) == admins[u].totp # "none" \/ Removed(u)

\* The rows and the link a handler was begun for may be gone, and no less.
Fits(h) ==
    /\ Free(h) => Who(h) = NoOne /\ handlers[h].link = NoLink
    /\ ~Free(h) => Who(h) \in Admins
    /\ handlers[h].at \in {"consumeInvite", "resetPassword", "consumeReset"} =>
           handlers[h].link \in Links
    /\ handlers[h].link \in Links =>
           /\ links[handlers[h].link].state # "absent"
           /\ links[handlers[h].link].of \in {Who(h), NoOne}
    /\ handlers[h].at \in {"resetPassword", "consumeReset"} =>
           links[handlers[h].link].purpose = "RESET"
    /\ handlers[h].at \in {"change", "provision", "throttle", "clear", "resetLink",
                           "resetPassword", "consumeReset"} => HasPassword(Who(h))
    /\ handlers[h].at \in {"touch", "consumeInvite", "dropSetup", "change"} =>
           HasEverything(Who(h))
    /\ On(h, "enableTotp") => HasSecret(Who(h))

LinksOwned ==
    \A l \in Links : links[l].state = "fresh" =>
        /\ links[l].of \in Admins
        /\ links[l].purpose = "RESET" => admins[links[l].of].password = "set"
SecretAfterPassword ==
    \A u \in Admins : admins[u].totp # "none" => admins[u].password = "set"
CookiesEarned == \A u \in cookies : HasEverything(u)

UsersInv ==
    /\ UsersTypeOK
    /\ LinksOwned /\ SecretAfterPassword /\ CookiesEarned
    /\ \A h \in Handlers : Fits(h)

\* Somebody else is left beside the user that a handler is taking out.
AnotherLeft ==
    ~clashed =>
        /\ (\E u \in Admins : ~admins[u].active \/ HasEverything(u)) =>
               \E w \in Active : CanWork(w)
        /\ \A h \in Handlers : handlers[h].at \in TakingOut =>
               \E w \in Active \ {Who(h)} : CanWork(w)

\* A user between the two steps of the setup has a way on.
BetweenSteps(u) == admins[u].password = "set" /\ admins[u].totp # "enabled"
WayOn(u) ==
    \/ u \in stranded \/ FreshOf(u, "INVITE") # {}
    \/ \E h \in Handlers : Who(h) = u /\ On(h, "inviteLink")
WaysOn == \A u \in Admins : BetweenSteps(u) => WayOn(u)

\* The handlers that are about to add a reset link of u.
Adding(u) == {h \in Handlers : Who(h) = u /\ On(h, "resetLink")}
ResetsCounted ==
    \A u \in Admins :
        /\ IsFiniteSet(FreshOf(u, "RESET"))
        /\ Cardinality(FreshOf(u, "RESET")) + Cardinality(Adding(u))
               <= Cardinality(Handlers)

-----------------------------------------------------------------------------
(* What a step does to the handler that takes it *)

Handler == [at : Places \cup {"idle"}, who : Admins \cup {NoOne},
            link : Links \cup {NoLink}]
Alone(h) ==
    /\ handlers' \in [Handlers -> Handler]
    /\ \A g \in Handlers \ {h} : handlers'[g] = handlers[g]
Goes(h, place) ==
    /\ handlers'[h].at = place
    /\ handlers'[h].who = Who(h) /\ handlers'[h].link = handlers[h].link
Leaves(h) ==
    /\ handlers'[h].at = "idle"
    /\ handlers'[h].who = NoOne /\ handlers'[h].link = NoLink

LEMMA MoveFacts ==
    ASSUME UsersTypeOK, NEW h \in Handlers, NEW place \in Places, Move(h, place)
    PROVE  Alone(h) /\ Goes(h, place)
  BY DEF Move, Alone, Goes, UsersTypeOK, Handler, Who

LEMMA EndFacts ==
    ASSUME UsersTypeOK, NEW h \in Handlers, End(h)
    PROVE  Alone(h) /\ Leaves(h)
  BY DEF End, Alone, Leaves, UsersTypeOK, Handler, Rest

LEMMA BeginFacts ==
    ASSUME UsersTypeOK, NEW h \in Handlers, NEW place \in Places,
           NEW u \in Admins, NEW l \in Links \cup {NoLink},
           Begin(h, place, u, l)
    PROVE  /\ Alone(h)
           /\ handlers'[h].at = place
           /\ handlers'[h].who = u /\ handlers'[h].link = l
           /\ begun' \in 0..MaxActions
  <1>1. handlers \in [Handlers -> Handler] /\ begun \in 0..MaxActions
    BY DEF UsersTypeOK, Handler
  <1>2. [at |-> place, who |-> u, link |-> l] \in Handler
    BY DEF Handler
  <1>3. handlers' = [handlers EXCEPT ![h] = [at |-> place, who |-> u, link |-> l]]
    BY DEF Begin
  <1>4. begun' \in 0..MaxActions
    BY <1>1, PanelUsersAssumption DEF Begin
  <1> QED
    BY <1>1, <1>2, <1>3, <1>4 DEF Alone

LEMMA WriteFacts ==
    ASSUME UsersTypeOK, NEW h \in Handlers, NEW u \in Admins, NEW row \in AdminRow,
           NEW place \in Places \cup {"idle"}, WriteUser(h, u, row, place)
    PROVE  /\ Alone(h) /\ admins' \in [Admins -> AdminRow]
           /\ \/ /\ Exists(u)
                 /\ admins'[u] = row
                 /\ \A v \in Admins \ {u} : admins'[v] = admins[v]
                 /\ IF place = "idle" THEN Leaves(h) ELSE Goes(h, place)
              \/ ~Exists(u) /\ Leaves(h) /\ UNCHANGED admins
  <1>1. CASE Exists(u)
    <2>1. admins' = [admins EXCEPT ![u] = row] /\ admins \in [Admins -> AdminRow]
      BY <1>1 DEF WriteUser, UsersTypeOK
    <2>2. Alone(h) /\ IF place = "idle" THEN Leaves(h) ELSE Goes(h, place)
      BY <1>1, MoveFacts, EndFacts DEF WriteUser
    <2> QED
      BY <1>1, <2>1, <2>2
  <1>2. CASE ~Exists(u)
    BY <1>2, EndFacts DEF WriteUser, UsersTypeOK
  <1> QED
    BY <1>1, <1>2

-----------------------------------------------------------------------------
(* Kinds of step *)

\* A server action begins: what the handler knows of its user and its link.
Begins(h) ==
    /\ Alone(h) /\ begun' \in 0..MaxActions
    /\ UNCHANGED <<admins, links, cookies, clashed, stranded>>
    /\ Free(h)
    /\ LET at == handlers'[h].at  u == handlers'[h].who  l == handlers'[h].link IN
       /\ at \in {"countDisable", "target", "enable", "create", "dropLinks",
                  "change", "verifyPassword", "setupPassword", "confirm",
                  "throttle", "resetPassword"}
       /\ u \in Admins
       /\ at \in {"countDisable", "target"} =>
              \E w \in Active \ {u} : SignedIn(w)
       /\ at \in {"change", "throttle", "resetPassword"} => HasPassword(u)
       /\ at = "change" => u \in cookies
       /\ l \in Links => links[l].state = "fresh" /\ links[l].of = u
       /\ at = "resetPassword" => l \in Links /\ links[l].purpose = "RESET"

\* A query that writes nothing, or a cookie.
Turns(h) ==
    /\ Alone(h) /\ ~Free(h) /\ ~On(h, "inviteLink")
    /\ UNCHANGED <<admins, links, begun, clashed, stranded>>
    /\ Leaves(h) \/ \E place \in Places : Goes(h, place)
    /\ ~Leaves(h) =>
           \/ On(h, "target") /\ handlers'[h].at \in {"countDelete", "delete"}
           \/ handlers[h].at \in {"countDisable", "countDelete"}
              /\ handlers'[h].at \in {"disable", "delete"}
           \/ On(h, "verifyPassword") /\ handlers'[h].at = "verifyTotp"
           \/ On(h, "verifyTotp") /\ handlers'[h].at = "touch" /\ CanWork(Who(h))
           \/ On(h, "confirm") /\ handlers'[h].at = "enableTotp"
              /\ HasSecret(Who(h))
           \/ On(h, "throttle") /\ handlers'[h].at = "clear"
    /\ \/ UNCHANGED cookies
       \/ cookies' = cookies \cup {Who(h)} /\ On(h, "touch")

\* The handler ends with nothing written: a query fails, or finds no row.
GivesUp(h) ==
    /\ Alone(h) /\ ~Free(h) /\ Leaves(h)
    /\ UNCHANGED <<admins, links, cookies, begun>>
    /\ clashed' \in BOOLEAN /\ (clashed => clashed')
    /\ stranded \subseteq stranded' /\ stranded' \subseteq Admins
    /\ (On(h, "inviteLink") /\ Strands(Who(h), links)) => Who(h) \in stranded'

\* A row of admin_users is written, and only that of the handler's user.
Writes(h) ==
    /\ Alone(h) /\ ~Free(h)
    /\ admins' \in [Admins -> AdminRow]
    /\ \A v \in Admins \ {Who(h)} : admins'[v] = admins[v]
    /\ UNCHANGED <<links, cookies, begun>>
    /\ clashed' \in BOOLEAN /\ (clashed => clashed')
    /\ stranded \subseteq stranded' /\ stranded' \subseteq Admins

Creates(h) ==
    /\ Writes(h) /\ Goes(h, "inviteLink")
    /\ admins[Who(h)].password = "absent"
    /\ admins'[Who(h)].password = "pending"
    /\ admins'[Who(h)].totp = admins[Who(h)].totp
    /\ admins'[Who(h)].active = admins[Who(h)].active
SetsPassword(h) ==
    /\ Writes(h) /\ Exists(Who(h))
    /\ \/ On(h, "setupPassword") /\ Goes(h, "provision")
       \/ On(h, "change") /\ Goes(h, "dropReset")
       \/ On(h, "resetPassword") /\ Goes(h, "consumeReset")
    /\ admins'[Who(h)].password = "set"
    /\ admins'[Who(h)].totp = admins[Who(h)].totp
    /\ admins'[Who(h)].active = admins[Who(h)].active
    /\ (On(h, "setupPassword") /\ FreshOf(Who(h), "INVITE") = {}) =>
           Who(h) \in stranded'
Switches(h) ==
    /\ Writes(h) /\ Exists(Who(h)) /\ Leaves(h)
    /\ handlers[h].at \in {"disable", "enable"}
    /\ admins'[Who(h)].password = admins[Who(h)].password
    /\ admins'[Who(h)].totp = admins[Who(h)].totp
    /\ admins'[Who(h)].active = On(h, "enable")
    /\ (On(h, "disable") /\ Clash(h)) => clashed'
Secures(h) ==
    /\ Writes(h) /\ Exists(Who(h))
    /\ admins'[Who(h)].password = admins[Who(h)].password
    /\ admins'[Who(h)].active = admins[Who(h)].active
    /\ \/ /\ On(h, "provision") /\ Leaves(h)
          /\ admins'[Who(h)].totp # "none"
          /\ admins[Who(h)].totp = "enabled" => admins'[Who(h)].totp = "enabled"
       \/ /\ On(h, "enableTotp") /\ admins'[Who(h)].totp = "enabled"
          /\ \/ Goes(h, "touch")
             \/ Goes(h, "consumeInvite") /\ handlers[h].link \in Links

Gone(l) ==
    links'[l].of = NoOne /\ links'[l].purpose = "RESET"
    /\ links'[l].state = "removed"
Deletes(h) ==
    /\ Alone(h) /\ On(h, "delete") /\ Leaves(h)
    /\ admins' \in [Admins -> AdminRow]
    /\ \A v \in Admins \ {Who(h)} : admins'[v] = admins[v]
    /\ IF Exists(Who(h))
       THEN /\ admins'[Who(h)].password = "removed"
            /\ admins'[Who(h)].totp = "none" /\ admins'[Who(h)].active
       ELSE admins'[Who(h)] = admins[Who(h)]
    /\ links' \in [Links -> LinkRow]
    /\ \A l \in Links :
          IF links[l].of = Who(h) THEN Gone(l) ELSE links'[l] = links[l]
    /\ clashed' \in BOOLEAN /\ (clashed => clashed') /\ (Clash(h) => clashed')
    /\ UNCHANGED <<cookies, begun, stranded>>

\* Links are written, and no other table.
WritesLinks(h) ==
    /\ Alone(h) /\ ~Free(h)
    /\ links' \in [Links -> LinkRow]
    /\ UNCHANGED <<admins, cookies, begun, clashed>>
    /\ stranded \subseteq stranded' /\ stranded' \subseteq Admins
Invalidates(h) ==
    /\ WritesLinks(h)
    /\ \A l \in Links :
          IF links[l].of = Who(h) /\ links[l].state = "fresh" THEN Gone(l)
          ELSE links'[l] = links[l]
    /\ \/ On(h, "dropLinks") /\ Goes(h, "inviteLink")
       \/ On(h, "dropSetup") /\ Goes(h, "touch")
       \/ On(h, "dropReset") /\ Leaves(h)
    /\ Strands(Who(h), links') => Who(h) \in stranded'
Clears(h) ==
    /\ WritesLinks(h) /\ On(h, "clear") /\ Goes(h, "resetLink")
    /\ \A l \in Links :
          IF l \in FreshOf(Who(h), "RESET") THEN Gone(l) ELSE links'[l] = links[l]
Adds(h, l) ==
    /\ WritesLinks(h) /\ handlers[h].at \in {"inviteLink", "resetLink"} /\ Leaves(h)
    /\ Exists(Who(h)) /\ links[l].state = "absent"
    /\ links'[l].of = Who(h) /\ links'[l].state = "fresh"
    /\ links'[l].purpose = IF On(h, "resetLink") THEN "RESET" ELSE "INVITE"
    /\ \A k \in Links \ {l} : links'[k] = links[k]
Consumes(h) ==
    /\ WritesLinks(h)
    /\ \/ On(h, "consumeInvite") /\ Goes(h, "dropSetup")
       \/ On(h, "consumeReset") /\ (Goes(h, "dropReset") \/ Leaves(h))
    /\ \/ UNCHANGED links
       \/ LET l == handlers[h].link IN
          /\ links[l].state \in {"fresh", "used"} /\ links'[l].state = "used"
          /\ links'[l].of = links[l].of /\ links'[l].purpose = links[l].purpose
          /\ \A k \in Links \ {l} : links'[k] = links[k]

\* Time goes by, cookies and links expire.
Ages ==
    /\ UNCHANGED <<admins, handlers, begun, clashed, stranded>>
    /\ cookies' \subseteq cookies
    /\ links' \in [Links -> LinkRow]
    /\ \A l \in Links :
          /\ links'[l].of = links[l].of /\ links'[l].purpose = links[l].purpose
          /\ links'[l].state = links[l].state

LEMMA BeginKinds ==
    ASSUME UsersInv, NEW h \in Handlers,
           \/ TakeOut(h) \/ Invite(h) \/ ResendInvite(h) \/ ChangeMyPassword(h)
           \/ Login(h) \/ Setup(h) \/ RequestReset(h) \/ ResetPassword(h)
    PROVE  Begins(h)
  <1>0. UsersTypeOK /\ Active \subseteq Admins /\ NoLink \notin Links
    BY PanelUsersAssumption DEF UsersInv, Active, NoLink
  <1>1. CASE TakeOut(h)
    <2>1. PICK me \in Admins, u \in Admins :
             /\ SignedIn(me) /\ me # u
             /\ \/ Begin(h, "countDisable", u, NoLink)
                \/ Begin(h, "target", u, NoLink)
                \/ Begin(h, "enable", u, NoLink)
      BY <1>1 DEF TakeOut, Protected
    <2>2. \E w \in Active \ {u} : SignedIn(w)
      BY <2>1 DEF SignedIn
    <2>3. PICK place \in {"countDisable", "target", "enable"} :
             Begin(h, place, u, NoLink)
      BY <2>1
    <2>4. place \in Places
      BY DEF Places, TakingOut
    <2>5. /\ Alone(h) /\ handlers'[h].at = place /\ handlers'[h].who = u
          /\ handlers'[h].link = NoLink /\ begun' \in 0..MaxActions
      BY <1>0, <2>3, <2>4, BeginFacts
    <2> QED
      BY <1>0, <1>1, <2>2, <2>5 DEF TakeOut, Begins
  <1>2. CASE Invite(h) \/ ResendInvite(h)
    <2>1. PICK u \in Admins, place \in {"create", "dropLinks"} :
             Begin(h, place, u, NoLink)
      BY <1>2 DEF Invite, ResendInvite, Pending
    <2>2. place \in Places
      BY DEF Places
    <2>3. /\ Alone(h) /\ handlers'[h].at = place /\ handlers'[h].who = u
          /\ handlers'[h].link = NoLink /\ begun' \in 0..MaxActions
      BY <1>0, <2>1, <2>2, BeginFacts
    <2> QED
      BY <1>0, <1>2, <2>3 DEF Invite, ResendInvite, Begins
  <1>3. CASE ChangeMyPassword(h) \/ Login(h) \/ RequestReset(h)
    <2>1. PICK u \in Admins, place \in {"change", "verifyPassword", "throttle"} :
             /\ Begin(h, place, u, NoLink)
             /\ place = "change" => u \in cookies /\ HasPassword(u)
             /\ place = "throttle" => HasPassword(u)
      <3>1. ASSUME NEW u \in Active \ Pending PROVE HasPassword(u)
        BY <3>1 DEF Active, Pending, Exists, HasPassword
      <3>2. ASSUME NEW u \in Admins, SignedIn(u)
            PROVE  u \in cookies /\ HasPassword(u)
        BY <3>2 DEF SignedIn, UsersInv, CookiesEarned, HasEverything, CanWork,
                    Removed, HasPassword
      <3> QED
        BY <1>0, <1>3, <3>1, <3>2 DEF ChangeMyPassword, Login, RequestReset
    <2>2. place \in Places
      BY DEF Places
    <2>3. /\ Alone(h) /\ handlers'[h].at = place /\ handlers'[h].who = u
          /\ handlers'[h].link = NoLink /\ begun' \in 0..MaxActions
      BY <1>0, <2>1, <2>2, BeginFacts
    <2> QED
      BY <1>0, <1>3, <2>1, <2>3 DEF ChangeMyPassword, Login, RequestReset, Begins
  <1>4. CASE Setup(h)
    <2>1. PICK target \in SetupTargets, place \in {"setupPassword", "confirm"} :
             Begin(h, place, target[1], target[2])
      BY <1>4 DEF Setup
    <2> DEFINE u == target[1]
               l == target[2]
    <2>2. u \in Admins /\ l \in Links \cup {NoLink}
          /\ (l \in Links => links[l].state = "fresh" /\ links[l].of = u)
      BY <1>0 DEF SetupTargets, Usable, Pending
    <2> HIDE DEF u, l
    <2>3. place \in Places
      BY DEF Places
    <2>4. /\ Alone(h) /\ handlers'[h].at = place /\ handlers'[h].who = u
          /\ handlers'[h].link = l /\ begun' \in 0..MaxActions
      BY <1>0, <2>1, <2>2, <2>3, BeginFacts DEF u, l
    <2> QED
      BY <1>0, <1>4, <2>2, <2>4 DEF Setup, Begins
  <1>5. CASE ResetPassword(h)
    <2>1. PICK l \in Links :
             /\ Usable(l, "RESET") /\ links[l].of \in Active
             /\ Begin(h, "resetPassword", links[l].of, l)
      BY <1>5 DEF ResetPassword
    <2>2. links[l].of \in Admins /\ HasPassword(links[l].of)
      BY <2>1 DEF UsersInv, LinksOwned, Usable, HasPassword
    <2>3. "resetPassword" \in Places
      BY DEF Places
    <2>4. /\ Alone(h) /\ handlers'[h].at = "resetPassword"
          /\ handlers'[h].who = links[l].of
          /\ handlers'[h].link = l /\ begun' \in 0..MaxActions
      BY <1>0, <2>1, <2>2, <2>3, BeginFacts
    <2> QED
      BY <1>0, <1>5, <2>1, <2>2, <2>4 DEF ResetPassword, Begins, Usable
  <1> QED
    BY <1>1, <1>2, <1>3, <1>4, <1>5

LEMMA TurnKinds ==
    ASSUME UsersInv, NEW h \in Handlers,
           ReadTarget(h) \/ CountActive(h) \/ Verify(h) \/ CreateSession(h)
           \/ Throttle(h)
    PROVE  Turns(h)
  <1>0. UsersTypeOK /\ Who(h) \in Admins
    BY DEF UsersInv, Fits, Free, ReadTarget, CountActive, Verify, CreateSession,
           Throttle, On
  <1>1. {"countDelete", "delete", "disable", "verifyTotp", "touch", "clear"}
            \subseteq Places
    BY DEF Places, TakingOut
  <1>2. CASE ReadTarget(h)
    BY <1>0, <1>1, <1>2, MoveFacts DEF ReadTarget, Turns, On, Free, Goes
  <1>3. CASE CountActive(h)
    BY <1>0, <1>1, <1>3, MoveFacts, EndFacts DEF CountActive, Turns, On, Free, Goes
  <1>4. CASE Verify(h)
    <2>1. On(h, "verifyTotp") /\ admins[Who(h)].totp = "enabled" => CanWork(Who(h))
      BY <1>0 DEF UsersInv, SecretAfterPassword, CanWork
    <2> QED
      BY <1>0, <1>1, <1>4, <2>1, MoveFacts DEF Verify, Turns, On, Free, Goes
  <1>5. CASE CreateSession(h)
    BY <1>0, <1>5, EndFacts DEF CreateSession, Turns, On, Free
  <1>6. CASE Throttle(h)
    BY <1>0, <1>1, <1>6, MoveFacts, EndFacts DEF Throttle, Turns, On, Free, Goes
  <1> QED
    BY <1>2, <1>3, <1>4, <1>5, <1>6

LEMMA FailKinds ==
    ASSUME UsersInv, NEW h \in Handlers, HandlerFails(h)
    PROVE  GivesUp(h)
  <1>1. Who(h) \in Admins /\ NoOne \notin Admins /\ stranded \subseteq Admins
        /\ clashed \in BOOLEAN
    BY PanelUsersAssumption DEF UsersInv, UsersTypeOK, Fits, HandlerFails
  <1>2. Alone(h) /\ Leaves(h)
    BY EndFacts DEF HandlerFails, UsersInv
  <1> QED
    BY <1>1, <1>2 DEF HandlerFails, GivesUp

\* A handler whose row is gone.
LEMMA MissingRow ==
    ASSUME UsersInv, NEW h \in Handlers, ~Free(h), Alone(h), Leaves(h),
           ~Exists(Who(h)), UNCHANGED <<admins, links, cookies, begun>>,
           clashed' \in BOOLEAN, clashed => clashed',
           stranded \subseteq stranded', stranded' \subseteq Admins
    PROVE  GivesUp(h)
  BY DEF GivesUp, Strands, Exists

LEMMA SwitchKinds ==
    ASSUME UsersInv, NEW h \in Handlers, SetDisabled(h)
    PROVE  Switches(h) \/ GivesUp(h)
  <1> DEFINE on == On(h, "enable")
             row == [admins[Who(h)] EXCEPT !.active = on]
  <1>0. /\ UsersTypeOK /\ Who(h) \in Admins /\ ~Free(h) /\ clashed \in BOOLEAN
        /\ stranded \subseteq Admins
    BY DEF UsersInv, UsersTypeOK, Fits, Free, SetDisabled
  <1>1. /\ row \in AdminRow /\ row.password = admins[Who(h)].password
        /\ row.totp = admins[Who(h)].totp /\ row.active = on
    <2>1. on \in BOOLEAN
      BY DEF On
    <2> HIDE DEF on
    <2> QED
      BY <1>0, <2>1 DEF UsersTypeOK, AdminRow
  <1>2. WriteUser(h, Who(h), row, "idle")
    BY DEF SetDisabled
  <1> HIDE DEF row
  <1>3. /\ Alone(h) /\ admins' \in [Admins -> AdminRow] /\ Leaves(h)
        /\ \/ /\ Exists(Who(h)) /\ admins'[Who(h)] = row
              /\ \A v \in Admins \ {Who(h)} : admins'[v] = admins[v]
           \/ ~Exists(Who(h)) /\ UNCHANGED admins
    BY <1>0, <1>1, <1>2, WriteFacts
  <1>4. /\ UNCHANGED <<links, cookies, begun, stranded>>
        /\ clashed' \in BOOLEAN /\ (clashed => clashed')
        /\ (On(h, "disable") /\ Clash(h)) => clashed'
    BY <1>0 DEF SetDisabled
  <1>5. CASE Exists(Who(h))
    BY <1>0, <1>1, <1>3, <1>4, <1>5 DEF Switches, Writes, SetDisabled
  <1>6. CASE ~Exists(Who(h))
    BY <1>0, <1>3, <1>4, <1>6, MissingRow
  <1> QED
    BY <1>5, <1>6

LEMMA CreateKinds ==
    ASSUME UsersInv, NEW h \in Handlers, CreateInvited(h)
    PROVE  Creates(h) \/ GivesUp(h)
  <1>0. /\ UsersTypeOK /\ Who(h) \in Admins /\ ~Free(h) /\ clashed \in BOOLEAN
        /\ stranded \subseteq Admins
    BY DEF UsersInv, UsersTypeOK, Fits, Free, CreateInvited, On
  <1>1. CASE admins[Who(h)].password # "absent"
    <2>1. Alone(h) /\ Leaves(h)
      BY <1>0, <1>1, EndFacts DEF CreateInvited
    <2> QED
      BY <1>0, <1>1, <2>1 DEF CreateInvited, GivesUp, On
  <1>2. CASE admins[Who(h)].password = "absent"
    <2>1. Alone(h) /\ Goes(h, "inviteLink")
      <3>1. "inviteLink" \in Places
        BY DEF Places
      <3> QED
        BY <1>0, <1>2, <3>1, MoveFacts DEF CreateInvited
    <2>2. /\ admins' \in [Admins -> AdminRow]
          /\ \A v \in Admins \ {Who(h)} : admins'[v] = admins[v]
          /\ admins'[Who(h)].password = "pending"
          /\ admins'[Who(h)].totp = admins[Who(h)].totp
          /\ admins'[Who(h)].active = admins[Who(h)].active
      BY <1>0, <1>2 DEF CreateInvited, UsersTypeOK, AdminRow
    <2> QED
      BY <1>0, <1>2, <2>1, <2>2 DEF CreateInvited, Creates, Writes
  <1> QED
    BY <1>1, <1>2

LEMMA PasswordKinds ==
    ASSUME UsersInv, NEW h \in Handlers, SetPassword(h)
    PROVE  SetsPassword(h) \/ GivesUp(h)
  <1> DEFINE row == [admins[Who(h)] EXCEPT !.password = "set"]
             place == CASE On(h, "setupPassword") -> "provision"
                        [] On(h, "change") -> "dropReset"
                        [] On(h, "resetPassword") -> "consumeReset"
  <1>0. /\ UsersTypeOK /\ Who(h) \in Admins /\ ~Free(h) /\ clashed \in BOOLEAN
        /\ stranded \subseteq Admins
    BY DEF UsersInv, UsersTypeOK, Fits, Free, SetPassword
  <1>1. row \in AdminRow /\ row.password = "set"
        /\ row.totp = admins[Who(h)].totp /\ row.active = admins[Who(h)].active
    BY <1>0 DEF UsersTypeOK, AdminRow
  <1>2. /\ place \in Places /\ place # "idle"
        /\ \/ On(h, "setupPassword") /\ place = "provision"
           \/ On(h, "change") /\ place = "dropReset"
           \/ On(h, "resetPassword") /\ place = "consumeReset"
    BY DEF SetPassword, On, Places
  <1>3. WriteUser(h, Who(h), row, place)
    BY DEF SetPassword
  <1> HIDE DEF row, place
  <1>4. /\ Alone(h) /\ admins' \in [Admins -> AdminRow]
        /\ \/ /\ Exists(Who(h)) /\ admins'[Who(h)] = row /\ Goes(h, place)
              /\ \A v \in Admins \ {Who(h)} : admins'[v] = admins[v]
           \/ ~Exists(Who(h)) /\ UNCHANGED admins /\ Leaves(h)
    BY <1>0, <1>1, <1>2, <1>3, WriteFacts
  <1>5. /\ UNCHANGED <<links, cookies, begun, clashed>>
        /\ stranded \subseteq stranded' /\ stranded' \subseteq Admins
        /\ (On(h, "setupPassword") /\ FreshOf(Who(h), "INVITE") = {}) =>
               Who(h) \in stranded'
    BY <1>0 DEF SetPassword
  <1>6. CASE Exists(Who(h)) /\ Goes(h, place) /\ admins'[Who(h)] = row
    BY <1>0, <1>1, <1>2, <1>4, <1>5, <1>6 DEF SetsPassword, Writes
  <1>7. CASE ~Exists(Who(h)) /\ UNCHANGED admins /\ Leaves(h)
    BY <1>0, <1>4, <1>5, <1>7, MissingRow
  <1> QED
    BY <1>4, <1>6, <1>7

LEMMA SecretKinds ==
    ASSUME UsersInv, NEW h \in Handlers, ProvisionTotp(h) \/ ConfirmTotp(h)
    PROVE  Secures(h) \/ Turns(h) \/ GivesUp(h)
  <1>0. /\ UsersTypeOK /\ Who(h) \in Admins /\ ~Free(h) /\ clashed \in BOOLEAN
        /\ stranded \subseteq Admins /\ handlers[h].link \in Links \cup {NoLink}
    BY DEF UsersInv, UsersTypeOK, Fits, Free, On, ProvisionTotp, ConfirmTotp
  <1>1. ASSUME NEW row \in AdminRow, NEW place \in Places \cup {"idle"},
               WriteUser(h, Who(h), row, place),
               row.password = admins[Who(h)].password,
               row.active = admins[Who(h)].active,
               UNCHANGED <<links, cookies, begun, clashed, stranded>>,
               \/ /\ On(h, "provision") /\ place = "idle" /\ row.totp # "none"
                  /\ admins[Who(h)].totp = "enabled" => row.totp = "enabled"
               \/ /\ On(h, "enableTotp") /\ row.totp = "enabled"
                  /\ \/ place = "touch"
                     \/ place = "consumeInvite" /\ handlers[h].link \in Links
        PROVE  Secures(h) \/ GivesUp(h)
    <2>1. /\ Alone(h) /\ admins' \in [Admins -> AdminRow]
          /\ \/ /\ Exists(Who(h)) /\ admins'[Who(h)] = row
                /\ \A v \in Admins \ {Who(h)} : admins'[v] = admins[v]
                /\ IF place = "idle" THEN Leaves(h) ELSE Goes(h, place)
             \/ ~Exists(Who(h)) /\ UNCHANGED admins /\ Leaves(h)
      BY <1>0, <1>1, WriteFacts
    <2>2. CASE Exists(Who(h))
      BY <1>0, <1>1, <2>1, <2>2 DEF Secures, Writes
    <2>3. CASE ~Exists(Who(h))
      BY <1>0, <1>1, <2>1, <2>3, MissingRow
    <2> QED
      BY <2>2, <2>3
  <1>2. CASE ProvisionTotp(h)
    <2> DEFINE row == [admins[Who(h)] EXCEPT !.totp =
                          IF @ = "enabled" THEN @ ELSE "provisioned"]
    <2>1. /\ row \in AdminRow /\ row.password = admins[Who(h)].password
          /\ row.active = admins[Who(h)].active /\ row.totp # "none"
          /\ admins[Who(h)].totp = "enabled" => row.totp = "enabled"
      BY <1>0 DEF UsersTypeOK, AdminRow
    <2>2. WriteUser(h, Who(h), row, "idle") /\ On(h, "provision")
      BY <1>2 DEF ProvisionTotp
    <2> HIDE DEF row
    <2> QED
      BY <1>1, <1>2, <2>1, <2>2 DEF ProvisionTotp
  <1>3. CASE ConfirmTotp(h) /\ On(h, "enableTotp")
    <2> DEFINE row == [admins[Who(h)] EXCEPT !.totp = "enabled"]
               place == IF handlers[h].link = NoLink THEN "touch"
                        ELSE "consumeInvite"
    <2>1. /\ row \in AdminRow /\ row.password = admins[Who(h)].password
          /\ row.active = admins[Who(h)].active /\ row.totp = "enabled"
      BY <1>0 DEF UsersTypeOK, AdminRow
    <2>2. /\ place \in Places
          /\ \/ place = "touch"
             \/ place = "consumeInvite" /\ handlers[h].link \in Links
      BY <1>0 DEF Places
    <2>3. WriteUser(h, Who(h), row, place)
      BY <1>3 DEF ConfirmTotp, On
    <2> HIDE DEF row, place
    <2> QED
      BY <1>1, <1>3, <2>1, <2>2, <2>3 DEF ConfirmTotp
  <1>4. CASE ConfirmTotp(h) /\ ~On(h, "enableTotp")
    <2>1. "enableTotp" \in Places
      BY DEF Places
    <2>2. Alone(h) /\ Goes(h, "enableTotp") /\ On(h, "confirm")
          /\ HasSecret(Who(h)) /\ UNCHANGED admins
      BY <1>0, <1>4, <2>1, MoveFacts DEF ConfirmTotp, HasSecret
    <2> QED
      BY <1>0, <1>4, <2>1, <2>2 DEF ConfirmTotp, Turns, Goes, On
  <1> QED
    BY <1>2, <1>3, <1>4

LEMMA DeleteKinds ==
    ASSUME UsersInv, NEW h \in Handlers, DeleteUser(h)
    PROVE  Deletes(h)
  <1> DEFINE row == [NoRow EXCEPT !.password = "removed"]
             gone == [NoLinkRow EXCEPT !.state = "removed"]
  <1>0. /\ UsersTypeOK /\ Who(h) \in Admins /\ ~Free(h) /\ clashed \in BOOLEAN
        /\ links \in [Links -> LinkRow]
    BY DEF UsersInv, UsersTypeOK, Fits, Free, DeleteUser, On
  <1>1. row \in AdminRow /\ row.password = "removed" /\ row.totp = "none"
        /\ row.active
    BY DEF NoRow, AdminRow
  <1>2. gone \in LinkRow /\ gone.of = NoOne /\ gone.purpose = "RESET"
        /\ gone.state = "removed"
    BY DEF NoLinkRow, LinkRow
  <1>3. links' = [l \in Links |-> IF links[l].of = Who(h) THEN gone ELSE links[l]]
    BY DEF DeleteUser
  <1>4. WriteUser(h, Who(h), row, "idle")
    BY DEF DeleteUser
  <1> HIDE DEF row, gone
  <1>5. links' \in [Links -> LinkRow]
        /\ \A l \in Links :
              IF links[l].of = Who(h) THEN Gone(l) ELSE links'[l] = links[l]
    BY <1>0, <1>2, <1>3 DEF Gone
  <1>6. /\ Alone(h) /\ admins' \in [Admins -> AdminRow] /\ Leaves(h)
        /\ \/ /\ Exists(Who(h)) /\ admins'[Who(h)] = row
              /\ \A v \in Admins \ {Who(h)} : admins'[v] = admins[v]
           \/ ~Exists(Who(h)) /\ UNCHANGED admins
    BY <1>0, <1>1, <1>4, WriteFacts
  <1>7. clashed' \in BOOLEAN /\ (clashed => clashed') /\ (Clash(h) => clashed')
        /\ UNCHANGED <<cookies, begun, stranded>> /\ On(h, "delete")
    BY <1>0 DEF DeleteUser
  <1> QED
    BY <1>1, <1>5, <1>6, <1>7 DEF Deletes

\* Rows of admin_tokens that become removed.
LEMMA GoneFacts ==
    ASSUME UsersTypeOK, NEW S \in SUBSET Links,
           links' = [l \in Links |-> IF l \in S
                       THEN [NoLinkRow EXCEPT !.state = "removed"] ELSE links[l]]
    PROVE  /\ links' \in [Links -> LinkRow]
           /\ \A l \in Links : IF l \in S THEN Gone(l) ELSE links'[l] = links[l]
  <1> DEFINE gone == [NoLinkRow EXCEPT !.state = "removed"]
  <1>1. gone \in LinkRow /\ gone.of = NoOne /\ gone.purpose = "RESET"
        /\ gone.state = "removed"
    BY DEF NoLinkRow, LinkRow
  <1>2. links' = [l \in Links |-> IF l \in S THEN gone ELSE links[l]]
    OBVIOUS
  <1>3. links \in [Links -> LinkRow]
    BY DEF UsersTypeOK
  <1> HIDE DEF gone
  <1> QED
    BY <1>1, <1>2, <1>3 DEF Gone

LEMMA LinkKinds ==
    ASSUME UsersInv, NEW h \in Handlers,
           InvalidateLinks(h) \/ ClearResets(h) \/ AddLink(h) \/ ConsumeLink(h)
    PROVE  \/ Invalidates(h) \/ Clears(h) \/ Consumes(h) \/ GivesUp(h)
           \/ \E l \in Links : Adds(h, l)
  <1>0. /\ UsersTypeOK /\ Who(h) \in Admins /\ ~Free(h) /\ clashed \in BOOLEAN
        /\ links \in [Links -> LinkRow] /\ stranded \subseteq Admins
    BY DEF UsersInv, UsersTypeOK, Fits, Free, On, InvalidateLinks, ClearResets,
           AddLink, ConsumeLink
  <1>1. {"inviteLink", "touch", "resetLink", "dropSetup", "dropReset"}
            \subseteq Places
    BY DEF Places
  <1>2. CASE InvalidateLinks(h)
    <2> DEFINE S == {l \in Links : links[l].of = Who(h) /\ links[l].state = "fresh"}
    <2>1. links' = [l \in Links |-> IF l \in S
                       THEN [NoLinkRow EXCEPT !.state = "removed"] ELSE links[l]]
      BY <1>2 DEF InvalidateLinks
    <2>2. /\ links' \in [Links -> LinkRow]
          /\ \A l \in Links : IF l \in S THEN Gone(l) ELSE links'[l] = links[l]
      BY <1>0, <2>1, GoneFacts
    <2>3. /\ Alone(h)
          /\ \/ On(h, "dropLinks") /\ Goes(h, "inviteLink")
             \/ On(h, "dropSetup") /\ Goes(h, "touch")
             \/ On(h, "dropReset") /\ Leaves(h)
      BY <1>0, <1>1, <1>2, MoveFacts, EndFacts DEF InvalidateLinks, On
    <2>4. /\ stranded \subseteq stranded' /\ stranded' \subseteq Admins
          /\ Strands(Who(h), links') => Who(h) \in stranded'
      BY <1>0, <1>2 DEF InvalidateLinks
    <2> QED
      BY <1>0, <1>2, <2>2, <2>3, <2>4 DEF Invalidates, WritesLinks, InvalidateLinks
  <1>3. CASE ClearResets(h)
    <2>1. FreshOf(Who(h), "RESET") \in SUBSET Links
      BY DEF FreshOf
    <2>2. /\ links' \in [Links -> LinkRow]
          /\ \A l \in Links : IF l \in FreshOf(Who(h), "RESET") THEN Gone(l)
                              ELSE links'[l] = links[l]
      BY <1>0, <1>3, <2>1, GoneFacts DEF ClearResets
    <2>3. Alone(h) /\ Goes(h, "resetLink")
      BY <1>0, <1>1, <1>3, MoveFacts DEF ClearResets
    <2> QED
      BY <1>0, <1>3, <2>2, <2>3 DEF Clears, WritesLinks, ClearResets
  <1>4. CASE AddLink(h)
    <2>1. Alone(h) /\ Leaves(h)
      BY <1>0, <1>4, EndFacts DEF AddLink
    <2>2. CASE ~Exists(Who(h))
      <3>1. UNCHANGED <<admins, links, cookies, begun, clashed, stranded>>
        BY <1>4, <2>2 DEF AddLink
      <3> QED
        BY <1>0, <2>1, <2>2, <3>1, MissingRow
    <2>3. CASE Exists(Who(h))
      <3> DEFINE purpose == IF On(h, "resetLink") THEN "RESET" ELSE "INVITE"
                 row == [of |-> Who(h), state |-> "fresh", purpose |-> purpose,
                         expired |-> FALSE, recent |-> TRUE]
      <3>1. PICK l \in Links : links[l].state = "absent"
                               /\ links' = [links EXCEPT ![l] = row]
        BY <1>4, <2>3 DEF AddLink
      <3>2. row \in LinkRow /\ row.of = Who(h) /\ row.state = "fresh"
            /\ row.purpose = purpose
        BY <1>0 DEF LinkRow
      <3> HIDE DEF row
      <3>3. /\ links' \in [Links -> LinkRow] /\ links'[l] = row
            /\ \A k \in Links \ {l} : links'[k] = links[k]
        BY <1>0, <3>1, <3>2
      <3> QED
        BY <1>0, <1>4, <2>1, <2>3, <3>1, <3>2, <3>3 DEF Adds, WritesLinks, AddLink
    <2> QED
      BY <2>2, <2>3
  <1>5. CASE ConsumeLink(h)
    <2> DEFINE l == handlers[h].link
    <2>1. l \in Links
      BY <1>5 DEF ConsumeLink, UsersInv, Fits
    <2>2. /\ links' \in [Links -> LinkRow]
          /\ \/ UNCHANGED links
             \/ /\ links[l].state \in {"fresh", "used"} /\ links'[l].state = "used"
                /\ links'[l].of = links[l].of
                /\ links'[l].purpose = links[l].purpose
                /\ \A k \in Links \ {l} : links'[k] = links[k]
      <3>1. [links[l] EXCEPT !.state = "used"] \in LinkRow
        BY <1>0, <2>1 DEF LinkRow
      <3> QED
        BY <1>0, <1>5, <2>1, <3>1 DEF ConsumeLink, LinkRow
    <2>3. /\ Alone(h)
          /\ \/ On(h, "consumeInvite") /\ Goes(h, "dropSetup")
             \/ On(h, "consumeReset") /\ (Goes(h, "dropReset") \/ Leaves(h))
      BY <1>0, <1>1, <1>5, MoveFacts, EndFacts DEF ConsumeLink, On
    <2> QED
      BY <1>0, <1>5, <2>2, <2>3 DEF Consumes, WritesLinks, ConsumeLink
  <1> QED
    BY <1>2, <1>3, <1>4, <1>5

LEMMA AgeKinds ==
    ASSUME UsersInv, LinkExpires \/ MinutePasses \/ CookieEnds
    PROVE  Ages
  <1>0. links \in [Links -> LinkRow]
    BY DEF UsersInv, UsersTypeOK
  <1>1. CASE LinkExpires
    <2>1. PICK l \in Links : links' = [links EXCEPT ![l].expired = TRUE]
      BY <1>1 DEF LinkExpires
    <2>2. links' \in [Links -> LinkRow]
      BY <1>0, <2>1 DEF LinkRow
    <2>3. \A k \in Links :
             /\ links'[k].of = links[k].of /\ links'[k].purpose = links[k].purpose
             /\ links'[k].state = links[k].state
      BY <1>0, <2>1 DEF LinkRow
    <2> QED
      BY <1>1, <2>2, <2>3 DEF LinkExpires, Ages
  <1>2. CASE MinutePasses
    BY <1>0, <1>2 DEF MinutePasses, Ages, LinkRow
  <1>3. CASE CookieEnds
    BY <1>0, <1>3 DEF CookieEnds, Ages
  <1> QED
    BY <1>1, <1>2, <1>3

HandlerStep(h) ==
    \/ Begins(h) \/ Turns(h) \/ GivesUp(h)
    \/ Creates(h) \/ SetsPassword(h) \/ Switches(h) \/ Secures(h) \/ Deletes(h)
    \/ Invalidates(h) \/ Clears(h) \/ Consumes(h) \/ \E l \in Links : Adds(h, l)

LEMMA NextKinds ==
    ASSUME UsersInv, UsersNext
    PROVE  Ages \/ \E h \in Handlers : HandlerStep(h)
  <1> USE DEF HandlerStep
  <1>1. ASSUME NEW h \in Handlers,
               \/ TakeOut(h) \/ Invite(h) \/ ResendInvite(h) \/ ChangeMyPassword(h)
               \/ Login(h) \/ Setup(h) \/ RequestReset(h) \/ ResetPassword(h)
               \/ ReadTarget(h) \/ CountActive(h) \/ Verify(h) \/ CreateSession(h)
               \/ Throttle(h) \/ HandlerFails(h)
        PROVE  HandlerStep(h)
    BY <1>1, BeginKinds, TurnKinds, FailKinds
  <1>2. ASSUME NEW h \in Handlers,
               \/ SetDisabled(h) \/ CreateInvited(h) \/ SetPassword(h)
               \/ ProvisionTotp(h) \/ ConfirmTotp(h) \/ DeleteUser(h)
        PROVE  HandlerStep(h)
    BY <1>2, SwitchKinds, CreateKinds, PasswordKinds, SecretKinds, DeleteKinds
  <1>3. ASSUME NEW h \in Handlers,
               InvalidateLinks(h) \/ ClearResets(h) \/ AddLink(h) \/ ConsumeLink(h)
        PROVE  HandlerStep(h)
    BY <1>3, LinkKinds
  <1> HIDE DEF HandlerStep
  <1> QED
    BY <1>1, <1>2, <1>3, AgeKinds DEF UsersNext

-----------------------------------------------------------------------------
(* What a row and a link keep, whoever writes them *)

Onward(u) ==
    /\ HasPassword(u) => HasPassword(u)'
    /\ HasEverything(u) => HasEverything(u)'
    /\ HasSecret(u) => HasSecret(u)'
    /\ Exists(u) => Exists(u)' \/ Removed(u)'
    /\ admins'[u].totp # "none" => admins'[u].password = "set"

LinkOnward(l) ==
    links[l].state # "absent" =>
        /\ links'[l].state # "absent"
        /\ links'[l].of \in {links[l].of, NoOne}
        /\ links[l].purpose = "RESET" => links'[l].purpose = "RESET"

LEMMA RowsStay ==
    ASSUME UsersInv, NEW u \in Admins, admins'[u] = admins[u]
    PROVE  Onward(u)
  BY DEF Onward, HasPassword, HasEverything, HasSecret, Exists, Removed, CanWork,
         UsersInv, SecretAfterPassword

LEMMA RowsGoOn ==
    ASSUME UsersInv, NEW h \in Handlers, HandlerStep(h), NEW u \in Admins
    PROVE  Onward(u)
  <1> USE DEF Onward, HasPassword, HasEverything, HasSecret, Exists, Removed,
              CanWork
  <1>0. /\ admins[u].totp # "none" => admins[u].password = "set"
        /\ On(h, "provision") => HasPassword(Who(h))
        /\ On(h, "enableTotp") => HasSecret(Who(h))
        /\ admins[u] \in AdminRow
    BY DEF UsersInv, UsersTypeOK, SecretAfterPassword, Fits, On
  <1>1. CASE admins'[u] = admins[u]
    BY <1>1, RowsStay
  <1>2. CASE u = Who(h) /\ Creates(h)
    BY <1>0, <1>2 DEF Creates
  <1>3. CASE u = Who(h) /\ SetsPassword(h)
    BY <1>0, <1>3 DEF SetsPassword
  <1>4. CASE u = Who(h) /\ Switches(h)
    BY <1>0, <1>4 DEF Switches
  <1>5. CASE u = Who(h) /\ Secures(h)
    BY <1>0, <1>5 DEF Secures
  <1>6. CASE u = Who(h) /\ Deletes(h)
    BY <1>0, <1>1, <1>6 DEF Deletes
  <1> QED
    <2>1. CASE \/ Begins(h) \/ Turns(h) \/ GivesUp(h) \/ Invalidates(h) \/ Clears(h)
               \/ Consumes(h) \/ \E l \in Links : Adds(h, l)
      BY <1>1, <2>1 DEF Begins, Turns, GivesUp, Invalidates, Clears, Consumes, Adds,
                        WritesLinks
    <2>2. CASE Creates(h) \/ SetsPassword(h) \/ Switches(h) \/ Secures(h)
      <3>1. u # Who(h) => admins'[u] = admins[u]
        BY <2>2 DEF Creates, SetsPassword, Switches, Secures, Writes
      <3> QED
        BY <1>1, <1>2, <1>3, <1>4, <1>5, <2>2, <3>1
    <2>3. CASE Deletes(h)
      <3>1. u # Who(h) => admins'[u] = admins[u]
        BY <2>3 DEF Deletes
      <3> QED
        BY <1>1, <1>6, <2>3, <3>1
    <2> QED
      BY <2>1, <2>2, <2>3 DEF HandlerStep

LEMMA LinksGoOn ==
    ASSUME UsersInv, NEW h \in Handlers, HandlerStep(h), NEW l \in Links
    PROVE  LinkOnward(l)
  <1> USE DEF LinkOnward, Gone
  <1>1. CASE links'[l] = links[l]
    BY <1>1
  <1>2. CASE \/ Begins(h) \/ Turns(h) \/ GivesUp(h)
             \/ Creates(h) \/ SetsPassword(h) \/ Switches(h) \/ Secures(h)
    BY <1>1, <1>2 DEF Begins, Turns, GivesUp, Creates, SetsPassword, Switches,
                      Secures, Writes
  <1>3. CASE Deletes(h)
    BY <1>1, <1>3 DEF Deletes
  <1>4. CASE Invalidates(h)
    BY <1>1, <1>4 DEF Invalidates
  <1>5. CASE Clears(h)
    BY <1>1, <1>5 DEF Clears
  <1>6. CASE Consumes(h)
    <2>1. CASE l = handlers[h].link /\ ~UNCHANGED links
      BY <1>6, <2>1 DEF Consumes
    <2>2. CASE l # handlers[h].link \/ UNCHANGED links
      BY <1>1, <1>6, <2>2 DEF Consumes
    <2> QED
      BY <2>1, <2>2
  <1>7. CASE \E k \in Links : Adds(h, k)
    BY <1>1, <1>7 DEF Adds
  <1> QED
    BY <1>2, <1>3, <1>4, <1>5, <1>6, <1>7 DEF HandlerStep

\* The handlers that take no step.
LEMMA OthersFit ==
    ASSUME UsersInv, NEW g \in Handlers, handlers'[g] = handlers[g],
           \A u \in Admins : Onward(u), \A l \in Links : LinkOnward(l)
    PROVE  Fits(g)'
  <1>1. Fits(g) /\ (Who(g) \in Admins => Onward(Who(g)))
        /\ (handlers[g].link \in Links => LinkOnward(handlers[g].link))
    BY DEF UsersInv
  <1>2. handlers[g].at = "idle" \/ Who(g) \in Admins
    BY <1>1 DEF Fits, Free
  <1> HIDE DEF HasPassword, HasEverything, HasSecret
  <1> QED
    BY <1>1, <1>2 DEF Fits, Free, On, Who, Onward, LinkOnward

\* The handler that goes on with what it knows.
LEMMA GoesOnFit ==
    ASSUME UsersInv, NEW h \in Handlers, NEW place \in Places, ~Free(h),
           Goes(h, place),
           \A u \in Admins : Onward(u), \A l \in Links : LinkOnward(l),
           place \in {"consumeInvite", "resetPassword", "consumeReset"} =>
               handlers[h].link \in Links,
           place \in {"resetPassword", "consumeReset"} => On(h, "resetPassword"),
           place \in {"change", "provision", "throttle", "clear", "resetLink",
                      "resetPassword", "consumeReset"} => HasPassword(Who(h))',
           place \in {"touch", "consumeInvite", "dropSetup", "change"} =>
               HasEverything(Who(h))',
           place = "enableTotp" => HasSecret(Who(h))'
    PROVE  Fits(h)'
  <1>1. /\ Fits(h) /\ Who(h) \in Admins /\ Who(h)' = Who(h)
        /\ handlers[h].link \in Links => LinkOnward(handlers[h].link)
        /\ handlers'[h].at = place /\ handlers'[h].link = handlers[h].link
        /\ place # "idle"
    BY DEF UsersInv, Fits, Goes, Who, Places, TakingOut
  <1>2. On(h, "resetPassword") =>
            handlers[h].link \in Links /\ links[handlers[h].link].purpose = "RESET"
    BY <1>1 DEF Fits, On
  <1> QED
    BY <1>1, <1>2 DEF Fits, Free, On, Who, LinkOnward

LEMMA LeavesFit ==
    ASSUME NEW h \in Handlers, Leaves(h)
    PROVE  Fits(h)'
  BY PanelUsersAssumption DEF Leaves, Fits, Free, Who, On, NoLink

LEMMA BeginnersFit ==
    ASSUME UsersInv, NEW h \in Handlers, Begins(h)
    PROVE  Fits(h)'
  <1> DEFINE at == handlers'[h].at
             l == handlers'[h].link
  <1> PICK u : u = handlers'[h].who
    OBVIOUS
  <1>1. /\ at \in {"countDisable", "target", "enable", "create", "dropLinks",
                   "change", "verifyPassword", "setupPassword", "confirm",
                   "throttle", "resetPassword"}
        /\ UNCHANGED <<admins, links, cookies>>
        /\ u \in Admins
        /\ at \in {"change", "throttle", "resetPassword"} =>
               HasPassword(u)
        /\ at = "change" => u \in cookies
        /\ l \in Links => links[l].state = "fresh" /\ links[l].of = u
        /\ at = "resetPassword" => l \in Links /\ links[l].purpose = "RESET"
    BY DEF Begins
  <1>2. at = "change" => HasEverything(u)
    BY <1>1 DEF UsersInv, CookiesEarned
  <1>3. /\ HasPassword(u)' <=> HasPassword(u)
        /\ HasEverything(u)' <=> HasEverything(u)
    BY <1>1 DEF HasPassword, HasEverything, CanWork, Removed
  <1> HIDE DEF HasPassword, HasEverything
  <1> QED
    BY <1>1, <1>2, <1>3 DEF Fits, Free, On, Who

LEMMA HandlersFit ==
    ASSUME UsersInv, NEW h \in Handlers, HandlerStep(h), NEW g \in Handlers
    PROVE  Fits(g)'
  <1>0. (\A u \in Admins : Onward(u)) /\ (\A l \in Links : LinkOnward(l))
    BY RowsGoOn, LinksGoOn
  <1>1. CASE g # h
    <2>1. Alone(h)
      BY DEF HandlerStep, Begins, Turns, GivesUp, Creates, SetsPassword, Switches,
             Secures, Deletes, Invalidates, Clears, Consumes, Adds, Writes,
             WritesLinks
    <2> QED
      BY <1>0, <1>1, <2>1, OthersFit DEF Alone
  <1>2. CASE g = h /\ Leaves(h)
    BY <1>2, LeavesFit
  <1>3. CASE g = h /\ Begins(h)
    BY <1>3, BeginnersFit
  <1>4. CASE g = h /\ ~Leaves(h) /\ ~Begins(h)
    <2>0. Fits(h) /\ (Who(h) \in Admins => Onward(Who(h)))
      BY <1>0 DEF UsersInv
    <2>1. CASE Turns(h)
      <3>1. ~Free(h) /\ UNCHANGED <<admins, links>>
        BY <2>1 DEF Turns
      <3>2. Who(h) \in Admins
        BY <2>0, <3>1 DEF Fits
      <3>3. PICK place \in Places :
               /\ Goes(h, place)
               /\ place \in {"countDelete", "delete", "disable", "verifyTotp",
                             "touch", "enableTotp", "clear"}
               /\ place = "touch" => HasEverything(Who(h))
               /\ place = "enableTotp" => HasSecret(Who(h))
               /\ place = "clear" => On(h, "throttle")
        BY <1>4, <2>1 DEF Turns, Goes, HasEverything
      <3>4. place = "clear" => HasPassword(Who(h))'
        BY <2>0, <3>2, <3>3 DEF Fits, On, Onward
      <3>5. /\ place = "touch" => HasEverything(Who(h))'
            /\ place = "enableTotp" => HasSecret(Who(h))'
        BY <2>0, <3>2, <3>3 DEF Onward
      <3> HIDE DEF HasEverything, HasSecret, HasPassword
      <3> QED
        BY <1>0, <1>4, <3>1, <3>3, <3>4, <3>5, GoesOnFit
    <2>2. CASE Creates(h)
      <3>1. Goes(h, "inviteLink") /\ ~Free(h) /\ "inviteLink" \in Places
        BY <2>2 DEF Creates, Writes, Places
      <3> QED
        BY <1>0, <1>4, <3>1, GoesOnFit
    <2>3. CASE SetsPassword(h)
      <3>1. PICK place \in {"provision", "dropReset", "consumeReset"} :
               /\ Goes(h, place)
               /\ place = "consumeReset" => On(h, "resetPassword")
        BY <2>3 DEF SetsPassword
      <3>2. place \in Places /\ ~Free(h)
        BY <2>3 DEF Places, SetsPassword, Writes
      <3>3. Who(h)' = Who(h)
        BY <3>1 DEF Goes, Who
      <3>4. HasPassword(Who(h))'
        BY <2>3, <3>3 DEF SetsPassword, HasPassword
      <3>5. On(h, "resetPassword") => handlers[h].link \in Links
        BY <2>0 DEF Fits, On
      <3> HIDE DEF HasPassword
      <3> QED
        BY <1>0, <1>4, <3>1, <3>2, <3>4, <3>5, GoesOnFit
    <2>4. CASE Secures(h)
      <3>1. PICK place \in {"touch", "consumeInvite"} :
               /\ Goes(h, place)
               /\ place = "consumeInvite" => handlers[h].link \in Links
        BY <1>4, <2>4 DEF Secures
      <3>2. place \in Places /\ ~Free(h) /\ On(h, "enableTotp")
            /\ admins'[Who(h)].totp = "enabled"
        BY <1>4, <2>4 DEF Places, Secures, Writes
      <3>3. Who(h)' = Who(h) /\ Who(h) \in Admins
        BY <2>0, <3>1, <3>2 DEF Goes, Who, Fits
      <3>4. HasEverything(Who(h))'
        <4>1. admins'[Who(h)].password = "set"
          BY <2>0, <3>2, <3>3 DEF Onward
        <4> QED
          BY <3>2, <3>3, <4>1 DEF HasEverything, CanWork
      <3> HIDE DEF HasEverything
      <3> QED
        BY <1>0, <1>4, <3>1, <3>2, <3>4, GoesOnFit
    <2>5. CASE Invalidates(h) \/ Clears(h) \/ Consumes(h)
      <3>1. PICK place \in {"inviteLink", "touch", "resetLink", "dropSetup",
                            "dropReset"} :
               /\ Goes(h, place)
               /\ place = "touch" => On(h, "dropSetup")
               /\ place = "resetLink" => On(h, "clear")
               /\ place = "dropSetup" => On(h, "consumeInvite")
        BY <1>4, <2>5 DEF Invalidates, Clears, Consumes
      <3>2. place \in Places /\ ~Free(h) /\ UNCHANGED admins
        BY <2>5 DEF Places, Invalidates, Clears, Consumes, WritesLinks
      <3>3. Who(h)' = Who(h) /\ Who(h) \in Admins
        BY <2>0, <3>1, <3>2 DEF Goes, Who, Fits
      <3>4. place \in {"touch", "dropSetup"} => HasEverything(Who(h))
        BY <2>0, <3>1 DEF Fits, On
      <3>5. place = "resetLink" => HasPassword(Who(h))
        BY <2>0, <3>1 DEF Fits, On
      <3>6. /\ place \in {"touch", "dropSetup"} => HasEverything(Who(h))'
            /\ place = "resetLink" => HasPassword(Who(h))'
        BY <2>0, <3>3, <3>4, <3>5 DEF Onward
      <3> HIDE DEF HasEverything, HasPassword
      <3> QED
        BY <1>0, <1>4, <3>1, <3>2, <3>6, GoesOnFit
    <2>6. Leaves(h) \/ ~(GivesUp(h) \/ Switches(h) \/ Deletes(h)
                         \/ \E l \in Links : Adds(h, l))
      BY DEF GivesUp, Switches, Deletes, Adds
    <2> QED
      BY <1>4, <2>1, <2>2, <2>3, <2>4, <2>5, <2>6 DEF HandlerStep
  <1> QED
    BY <1>1, <1>2, <1>3, <1>4

LEMMA LinksStayOwned ==
    ASSUME UsersInv, NEW h \in Handlers, HandlerStep(h)
    PROVE  LinksOwned' /\ \A l \in Links : links'[l].state = "fresh" =>
                              admins'[links'[l].of].password \in {"pending", "set"}
  <1> SUFFICES ASSUME NEW l \in Links, links'[l].state = "fresh"
               PROVE  /\ links'[l].of \in Admins
                      /\ admins'[links'[l].of].password \in {"pending", "set"}
                      /\ links'[l].purpose = "RESET" =>
                             admins'[links'[l].of].password = "set"
    BY DEF LinksOwned
  <1> PICK u : u = links'[l].of
    OBVIOUS
  <1>1. CASE \E k \in Links : Adds(h, k) /\ k = l
    <2>1. u = Who(h) /\ Exists(Who(h)) /\ UNCHANGED admins
          /\ (links'[l].purpose = "RESET" => On(h, "resetLink"))
      BY <1>1 DEF Adds, WritesLinks
    <2>2. Who(h) \in Admins /\ (On(h, "resetLink") => HasPassword(Who(h)))
      BY <1>1 DEF UsersInv, Fits, Adds, WritesLinks, On
    <2> QED
      BY <2>1, <2>2 DEF Exists, HasPassword
  <1>2. CASE ~\E k \in Links : Adds(h, k) /\ k = l
    <2>1. links[l].state = "fresh" /\ links'[l].of = links[l].of
          /\ links'[l].purpose = links[l].purpose
      BY <1>2
      DEF HandlerStep, Begins, Turns, GivesUp, Creates, SetsPassword, Switches,
          Secures, Deletes, Invalidates, Clears, Consumes, Adds, Writes, Gone
    <2>2. /\ u \in Admins /\ Exists(u)
          /\ links'[l].purpose = "RESET" => admins[u].password = "set"
      BY <2>1 DEF UsersInv, UsersTypeOK, LinksOwned, Exists
    <2>3. Onward(u)
      BY <2>2, RowsGoOn
    <2>4. ~Removed(u)'
      <3>1. CASE Deletes(h)
        <4>1. links[l].of # Who(h)
          BY <2>1, <3>1 DEF Deletes, Gone
        <4> QED
          BY <2>1, <2>2, <3>1, <4>1 DEF Deletes, Removed, Exists
      <3>2. CASE ~Deletes(h)
        BY <2>2, <3>2
        DEF HandlerStep, Begins, Turns, GivesUp, Creates, SetsPassword, Switches,
            Secures, Invalidates, Clears, Consumes, Adds, Writes, WritesLinks,
            Removed, Exists
      <3> QED
        BY <3>1, <3>2
    <2>5. admins'[u].password \in {"pending", "set"}
      BY <2>2, <2>3, <2>4 DEF Onward, Exists
    <2>6. links'[l].purpose = "RESET" => admins'[u].password = "set"
      BY <2>2, <2>3, <2>4 DEF Onward, HasPassword, Removed
    <2> QED
      BY <2>2, <2>5, <2>6
  <1> QED
    BY <1>1, <1>2

LEMMA InvSteps ==
    ASSUME UsersInv, NEW h \in Handlers, HandlerStep(h)
    PROVE  UsersInv'
  <1>1. UsersTypeOK'
    <2>1. /\ admins' \in [Admins -> AdminRow] /\ links' \in [Links -> LinkRow]
          /\ handlers' \in [Handlers -> Handler] /\ begun' \in 0..MaxActions
          /\ clashed' \in BOOLEAN /\ stranded' \subseteq Admins
      BY DEF HandlerStep, Begins, Turns, GivesUp, Creates, SetsPassword, Switches,
             Secures, Deletes, Invalidates, Clears, Consumes, Adds, Writes,
             WritesLinks, Alone, UsersInv, UsersTypeOK
    <2>2. cookies' \subseteq Admins
      <3>1. ~Free(h) => Who(h) \in Admins
        BY DEF UsersInv, Fits
      <3> QED
        BY <3>1
        DEF HandlerStep, Begins, Turns, GivesUp, Creates, SetsPassword, Switches,
            Secures, Deletes, Invalidates, Clears, Consumes, Adds, Writes,
            WritesLinks, UsersInv, UsersTypeOK
    <2> QED
      BY <2>1, <2>2, LinksStayOwned DEF UsersTypeOK, Handler
  <1>2. SecretAfterPassword'
    BY RowsGoOn DEF Onward, SecretAfterPassword
  <1>3. CookiesEarned'
    <2> SUFFICES ASSUME NEW u \in cookies' PROVE HasEverything(u)'
      BY DEF CookiesEarned
    <2>1. u \in cookies \/ (u = Who(h) /\ On(h, "touch"))
      BY DEF HandlerStep, Begins, Turns, GivesUp, Creates, SetsPassword, Switches,
             Secures, Deletes, Invalidates, Clears, Consumes, Adds, Writes,
             WritesLinks
    <2>2. HasEverything(u) /\ u \in Admins
      BY <2>1 DEF UsersInv, UsersTypeOK, CookiesEarned, Fits, On, Free
    <2> QED
      BY <2>2, RowsGoOn DEF Onward
  <1> QED
    BY <1>1, <1>2, <1>3, HandlersFit, LinksStayOwned DEF UsersInv

LEMMA InvAges ==
    ASSUME UsersInv, Ages \/ UNCHANGED userVars
    PROVE  UsersInv'
  <1>1. /\ UNCHANGED <<admins, handlers, begun, clashed, stranded>>
        /\ cookies' \subseteq cookies /\ links' \in [Links -> LinkRow]
        /\ \A l \in Links :
              /\ links'[l].of = links[l].of /\ links'[l].purpose = links[l].purpose
              /\ links'[l].state = links[l].state
    BY DEF Ages, userVars, UsersInv, UsersTypeOK
  <1>2. UsersTypeOK'
    BY <1>1 DEF UsersInv, UsersTypeOK
  <1>3. LinksOwned' /\ SecretAfterPassword' /\ CookiesEarned'
    BY <1>1 DEF UsersInv, LinksOwned, SecretAfterPassword, CookiesEarned,
                HasEverything, CanWork, Removed
  <1>4. ASSUME NEW h \in Handlers PROVE Fits(h)'
    <2>1. \A u : admins'[u] = admins[u]
      BY <1>1
    <2>2. \A u : /\ HasPassword(u)' <=> HasPassword(u)
                 /\ HasEverything(u)' <=> HasEverything(u)
                 /\ HasSecret(u)' <=> HasSecret(u)
      BY <1>1 DEF HasPassword, HasEverything, HasSecret, CanWork, Removed
    <2>3. Fits(h)
      BY DEF UsersInv
    <2> HIDE DEF HasPassword, HasEverything, HasSecret
    <2> QED
      BY <1>1, <2>2, <2>3 DEF Fits, Free, On, Who
  <1> QED
    BY <1>2, <1>3, <1>4 DEF UsersInv

LEMMA InvInit == UsersInit => UsersInv
  <1> SUFFICES ASSUME UsersInit PROVE UsersInv
    OBVIOUS
  <1>1. NoLinkRow \in LinkRow /\ NoRow \in AdminRow /\ Working \in AdminRow
        /\ [NoRow EXCEPT !.password = "pending"] \in AdminRow
    BY DEF NoLinkRow, LinkRow, NoRow, Working, AdminRow
  <1>2. /\ admins \in [Admins -> AdminRow] /\ cookies \subseteq Admins
        /\ \A u \in Admins :
              /\ admins[u].totp # "none" => admins[u].password = "set"
              /\ u \in cookies => CanWork(u)
    <2>1. PICK first \in Admins, others \in SUBSET Admins :
             \/ /\ admins = [u \in Admins |->
                              IF u = first
                              THEN [NoRow EXCEPT !.password = "pending"]
                              ELSE NoRow]
                /\ cookies = {}
             \/ /\ admins = [u \in Admins |->
                              IF u \in {first} \cup others THEN Working ELSE NoRow]
                /\ cookies = {first} \cup others
      BY DEF UsersInit
    <2>2. admins \in [Admins -> AdminRow] /\ cookies \subseteq Admins
      BY <1>1, <2>1
    <2>3. ASSUME NEW u \in Admins
          PROVE  /\ admins[u].totp # "none" => admins[u].password = "set"
                 /\ u \in cookies => CanWork(u)
      BY <2>1 DEF NoRow, Working, CanWork
    <2> QED
      BY <2>2, <2>3
  <1>3. Rest \in Handler
    BY DEF Rest, Handler
  <1>4. \A l \in Links : links[l].state = "absent"
    BY DEF UsersInit, NoLinkRow
  <1>5. UsersTypeOK
    <2>1. links \in [Links -> LinkRow] /\ handlers \in [Handlers -> Handler]
      BY <1>1, <1>3 DEF UsersInit
    <2>2. /\ begun \in 0..MaxActions /\ clashed \in BOOLEAN
          /\ stranded \subseteq Admins
      <3>1. begun = 0 /\ clashed = FALSE /\ stranded = {}
        BY DEF UsersInit
      <3>2. begun \in 0..MaxActions
        BY <3>1, PanelUsersAssumption
      <3>3. clashed \in BOOLEAN
        BY <3>1
      <3>4. stranded \subseteq Admins
        BY <3>1
      <3> QED
        BY <3>2, <3>3, <3>4
    <2> QED
      BY <1>2, <1>4, <2>1, <2>2 DEF UsersTypeOK, Handler
  <1>6. \A h \in Handlers : Fits(h)
    BY PanelUsersAssumption DEF UsersInit, Fits, Rest, Free, Who, On, NoLink
  <1> QED
    BY <1>2, <1>4, <1>5, <1>6
    DEF UsersInv, LinksOwned, SecretAfterPassword, CookiesEarned, HasEverything

LEMMA InvNext ==
    ASSUME UsersInv, [UsersNext]_userVars
    PROVE  UsersInv'
  BY NextKinds, InvSteps, InvAges

LEMMA InvariantHolds == UsersSpec => []UsersInv
  <1>1. UsersInv /\ [UsersNext]_userVars => UsersInv'
    BY InvNext
  <1> QED
    BY <1>1, InvInit, PTL DEF UsersSpec

-----------------------------------------------------------------------------
(* Somebody is left who can work *)

LEMMA AnotherInit == UsersInit => AnotherLeft
  <1> SUFFICES ASSUME UsersInit PROVE AnotherLeft
    OBVIOUS
  <1>1. PICK first \in Admins, others \in SUBSET Admins :
           \/ admins = [u \in Admins |->
                        IF u = first THEN [NoRow EXCEPT !.password = "pending"]
                        ELSE NoRow]
           \/ admins = [u \in Admins |->
                        IF u \in {first} \cup others THEN Working ELSE NoRow]
    BY DEF UsersInit
  <1>2. \A h \in Handlers : handlers[h].at = "idle"
    BY DEF UsersInit, Rest
  <1>3. CASE admins = [u \in Admins |->
                       IF u = first THEN [NoRow EXCEPT !.password = "pending"]
                       ELSE NoRow]
    BY <1>2, <1>3 DEF AnotherLeft, NoRow, HasEverything, CanWork, Removed, TakingOut
  <1>4. CASE admins = [u \in Admins |->
                       IF u \in {first} \cup others THEN Working ELSE NoRow]
    <2>1. first \in Active /\ CanWork(first)
      BY <1>4 DEF Working, Active, Exists, CanWork
    <2> QED
      BY <1>2, <2>1 DEF AnotherLeft, TakingOut
  <1> QED
    BY <1>1, <1>3, <1>4

\* One who can work is taken out by a handler that is taking somebody out.
LEMMA WorkersStay ==
    ASSUME UsersInv, NEW h \in Handlers, HandlerStep(h),
           NEW w \in Active, CanWork(w)
    PROVE  \/ w \in Active' /\ CanWork(w)'
           \/ w = Who(h) /\ handlers[h].at \in {"disable", "delete"} /\ Leaves(h)
  <1>1. w \in Admins /\ Exists(w) /\ admins[w].active
    BY DEF Active
  <1>2. CASE admins'[w] = admins[w]
    BY <1>1, <1>2 DEF Active, Exists, CanWork
  <1>3. CASE w = Who(h) /\ (Creates(h) \/ SetsPassword(h) \/ Secures(h))
    <2>1. Onward(w) /\ admins'[w].active
      BY <1>1, <1>3, RowsGoOn DEF Creates, SetsPassword, Secures
    <2>2. admins'[w].password \in {"pending", "set"} /\ CanWork(w)'
      BY <1>1, <1>3, <2>1
      DEF Creates, SetsPassword, Secures, Exists, CanWork, Onward, HasPassword,
          HasEverything, Removed
    <2> QED
      BY <1>1, <2>1, <2>2 DEF Active, Exists
  <1>4. CASE w = Who(h) /\ Switches(h)
    BY <1>1, <1>4 DEF Switches, Active, Exists, CanWork, On
  <1>5. CASE w = Who(h) /\ Deletes(h)
    BY <1>5 DEF Deletes, On
  <1> QED
    BY <1>1, <1>2, <1>3, <1>4, <1>5
    DEF HandlerStep, Begins, Turns, GivesUp, Creates, SetsPassword, Switches,
        Secures, Deletes, Invalidates, Clears, Consumes, Adds, Writes, WritesLinks

\* Without a clash, the handler that takes somebody out is alone in that.
LEMMA TakesOutAlone ==
    ASSUME UsersInv, NEW h \in Handlers, HandlerStep(h), ~clashed',
           Leaves(h), On(h, "disable") \/ On(h, "delete"),
           admins' # admins,
           NEW g \in Handlers \ {h}
    PROVE  handlers[g].at \notin TakingOut
  <1>1. \/ Creates(h) \/ SetsPassword(h) \/ Secures(h)
        \/ Switches(h) \/ Deletes(h)
    BY DEF HandlerStep, Begins, Turns, GivesUp, Invalidates, Clears, Consumes, Adds,
           WritesLinks
  <1>2. ~Creates(h) /\ ~SetsPassword(h) /\ ~Secures(h)
    BY DEF Creates, SetsPassword, Secures, Goes, Leaves, On
  <1>3. ~Clash(h)
    BY <1>1, <1>2 DEF Switches, Deletes, On
  <1> QED
    BY <1>3 DEF Clash

LEMMA AnotherSteps ==
    ASSUME UsersInv, AnotherLeft, NEW h \in Handlers, HandlerStep(h)
    PROVE  AnotherLeft'
  <1> SUFFICES ASSUME ~clashed' PROVE AnotherLeft'
    BY DEF AnotherLeft
  <1>0. ~clashed /\ Alone(h)
    BY DEF HandlerStep, Begins, Turns, GivesUp, Creates, SetsPassword, Switches,
        Secures, Deletes, Invalidates, Clears, Consumes, Adds, Writes, WritesLinks
  <1>1. CASE /\ Leaves(h) /\ (On(h, "disable") \/ On(h, "delete"))
             /\ admins' # admins
    <2>1. handlers[h].at \in TakingOut
      BY <1>1 DEF On, TakingOut
    <2>2. PICK w \in Active \ {Who(h)} : CanWork(w)
      BY <1>0, <2>1 DEF AnotherLeft
    <2>3. w \in Active' /\ CanWork(w)'
      BY <2>2, WorkersStay
    <2>4. \A g \in Handlers : handlers'[g].at \notin TakingOut
      <3>1. handlers'[h].at \notin TakingOut
        BY <1>1 DEF Leaves, TakingOut
      <3>2. \A g \in Handlers \ {h} : handlers'[g].at \notin TakingOut
        BY <1>0, <1>1, TakesOutAlone DEF Alone
      <3> QED
        BY <3>1, <3>2
    <2> QED
      BY <2>3, <2>4 DEF AnotherLeft
  <1>2. CASE ~(/\ Leaves(h) /\ (On(h, "disable") \/ On(h, "delete"))
               /\ admins' # admins)
    <2>1. ASSUME NEW w \in Active, CanWork(w)
          PROVE  w \in Active' /\ CanWork(w)'
      <3>1. CASE admins' = admins
        BY <2>1, <3>1 DEF Active, Exists, CanWork
      <3> QED
        BY <1>2, <2>1, <3>1, WorkersStay DEF On
    <2>2. ASSUME NEW u \in Admins, ~admins'[u].active \/ HasEverything(u)'
          PROVE  \E w \in Active' : CanWork(w)'
      <3>1. CASE ~admins[u].active \/ HasEverything(u)
        BY <1>0, <2>1, <3>1 DEF AnotherLeft
      <3>2. CASE admins[u].active /\ ~HasEverything(u)
        <4>1. ~Leaves(h) \/ ~(On(h, "disable") \/ On(h, "delete"))
          BY <1>2, <2>2, <3>2 DEF HasEverything, CanWork, Removed
        <4>2. CASE admins'[u] = admins[u]
          BY <2>2, <3>2, <4>2 DEF HasEverything, CanWork, Removed
        <4>3. CASE u = Who(h) /\ Secures(h)
          <5>1. admins'[u].active /\ Exists(u) /\ Onward(u)
            BY <3>2, <4>3, RowsGoOn DEF Secures
          <5>2. CanWork(u)'
            BY <2>2, <3>2, <4>3, <5>1
            DEF Secures, HasEverything, Removed, Exists, CanWork
          <5> QED
            BY <5>1, <5>2 DEF Active, Exists, CanWork
        <4>4. CASE u = Who(h) /\ (Creates(h) \/ SetsPassword(h))
          <5>1. admins'[u].active
            BY <3>2, <4>4 DEF Creates, SetsPassword
          <5>2. CanWork(u)'
            BY <2>2, <4>4, <5>1
            DEF Creates, SetsPassword, HasEverything, Removed, CanWork
          <5>3. u \in Active'
            BY <5>1, <5>2 DEF Active, Exists, CanWork
          <5> QED
            BY <5>2, <5>3
        <4>5. CASE u = Who(h) /\ Switches(h)
          <5>1. On(h, "enable")
            BY <4>1, <4>5 DEF Switches, On
          <5> QED
            BY <2>2, <3>2, <4>5, <5>1 DEF Switches, HasEverything, CanWork, Removed
        <4>6. CASE u = Who(h) /\ Deletes(h)
          BY <4>1, <4>6 DEF Deletes
        <4> QED
          BY <4>2, <4>3, <4>4, <4>5, <4>6
          DEF HandlerStep, Begins, Turns, GivesUp, Creates, SetsPassword, Switches,
              Secures, Deletes, Invalidates, Clears, Consumes, Adds, Writes,
              WritesLinks
      <3> QED
        BY <3>1, <3>2
    <2>3. ASSUME NEW g \in Handlers, handlers'[g].at \in TakingOut
          PROVE  \E w \in Active' \ {Who(g)'} : CanWork(w)'
      <3>1. CASE handlers[g].at \in TakingOut /\ Who(g)' = Who(g)
        <4>1. PICK w \in Active \ {Who(g)} : CanWork(w)
          BY <1>0, <3>1 DEF AnotherLeft
        <4> QED
          BY <2>1, <3>1, <4>1
      <3>2. CASE g = h /\ Begins(h)
        <4>1. handlers'[h].at \in {"countDisable", "target"}
          BY <2>3, <3>2 DEF Begins, TakingOut
        <4>2. PICK w \in Active \ {handlers'[h].who} : SignedIn(w)
          BY <3>2, <4>1 DEF Begins
        <4>3. CanWork(w)
          BY <4>2 DEF SignedIn, UsersInv, CookiesEarned, HasEverything, Removed,
                      Active, Exists
        <4> QED
          BY <2>1, <3>2, <4>2, <4>3 DEF Who
      <3>3. CASE g # h
        BY <1>0, <2>3, <3>1, <3>3 DEF Alone, Who
      <3>4. CASE g = h /\ ~Begins(h)
        <4>1. ~Leaves(h)
          BY <2>3, <3>4 DEF Leaves, TakingOut
        <4>2. CASE Turns(h)
          <5>1. handlers[h].at \in TakingOut
            BY <2>3, <3>4, <4>1, <4>2 DEF Turns, On, TakingOut
          <5>2. Who(h)' = Who(h)
            BY <4>1, <4>2 DEF Turns, Goes, Who
          <5> QED
            BY <3>1, <3>4, <5>1, <5>2
        <4>3. CASE ~Turns(h)
          <5>1. handlers'[h].at \notin TakingOut
            BY <3>4, <4>1, <4>3
            DEF HandlerStep, GivesUp, Creates, SetsPassword, Switches, Secures,
                Deletes, Invalidates, Clears, Consumes, Adds, Goes, TakingOut
          <5> QED
            BY <2>3, <3>4, <5>1
        <4> QED
          BY <4>2, <4>3
      <3> QED
        BY <3>2, <3>3, <3>4
    <2> QED
      BY <2>2, <2>3 DEF AnotherLeft
  <1> QED
    BY <1>1, <1>2

LEMMA AnotherNext ==
    ASSUME UsersInv, AnotherLeft, [UsersNext]_userVars
    PROVE  AnotherLeft'
  <1>1. CASE Ages \/ UNCHANGED userVars
    BY <1>1 DEF Ages, userVars, AnotherLeft, Active, Exists, CanWork, HasEverything,
                Removed, Who
  <1> QED
    BY <1>1, NextKinds, AnotherSteps

-----------------------------------------------------------------------------
(* The links of a reset are counted *)

LEMMA SetsCounted ==
    ASSUME UsersInv, NEW u
    PROVE  /\ IsFiniteSet(Handlers) /\ IsFiniteSet(Adding(u))
           /\ Cardinality(Adding(u)) \in Nat /\ Cardinality(Handlers) \in Nat
           /\ Cardinality(Adding(u)) <= Cardinality(Handlers)
  <1>1. IsFiniteSet(Handlers) /\ Adding(u) \subseteq Handlers
    BY PanelUsersAssumption DEF Adding
  <1> QED
    BY <1>1, FS_Subset, FS_CardinalityType

LEMMA FewerCounted ==
    ASSUME NEW F, IsFiniteSet(F), NEW A, IsFiniteSet(A),
           NEW G \in SUBSET F, NEW B \in SUBSET A
    PROVE  /\ IsFiniteSet(G)
           /\ Cardinality(G) + Cardinality(B) <= Cardinality(F) + Cardinality(A)
  <1>1. /\ IsFiniteSet(G) /\ Cardinality(G) <= Cardinality(F)
        /\ IsFiniteSet(B) /\ Cardinality(B) <= Cardinality(A)
    BY FS_Subset
  <1>2. /\ Cardinality(G) \in Nat /\ Cardinality(F) \in Nat
        /\ Cardinality(B) \in Nat /\ Cardinality(A) \in Nat
    BY <1>1, FS_CardinalityType
  <1> QED
    BY <1>1, <1>2

LEMMA ResetsSteps ==
    ASSUME UsersInv, ResetsCounted, NEW h \in Handlers, HandlerStep(h)
    PROVE  ResetsCounted'
  <1> SUFFICES ASSUME NEW u \in Admins
               PROVE  /\ IsFiniteSet(FreshOf(u, "RESET")')
                      /\ Cardinality(FreshOf(u, "RESET")') + Cardinality(Adding(u)')
                             <= Cardinality(Handlers)
    BY DEF ResetsCounted
  <1> DEFINE F == FreshOf(u, "RESET")
             A == Adding(u)
  <1>0. Alone(h)
    BY DEF HandlerStep, Begins, Turns, GivesUp, Creates, SetsPassword, Switches,
        Secures, Deletes, Invalidates, Clears, Consumes, Adds, Writes, WritesLinks
  <1>1. /\ IsFiniteSet(F) /\ IsFiniteSet(A) /\ A \in SUBSET Handlers
        /\ Cardinality(F) \in Nat /\ Cardinality(A) \in Nat
        /\ IsFiniteSet(Handlers) /\ Cardinality(Handlers) \in Nat
        /\ Cardinality(F) + Cardinality(A) <= Cardinality(Handlers)
    BY SetsCounted, FS_CardinalityType DEF ResetsCounted, Adding
  <1>2. CASE Clears(h) /\ Who(h) = u
    <2>1. F' = {}
      BY <1>2 DEF Clears, FreshOf, Gone
    <2>2. A' \subseteq Handlers
      BY DEF Adding
    <2>3. IsFiniteSet(F') /\ Cardinality(F') = 0
      BY <2>1, FS_EmptySet
    <2>4. Cardinality(A') <= Cardinality(Handlers) /\ Cardinality(A') \in Nat
      BY <1>1, <2>2, FS_Subset, FS_CardinalityType
    <2> QED
      BY <2>3, <2>4
  <1>3. CASE /\ \E l \in Links : Adds(h, l)
             /\ Who(h) = u /\ On(h, "resetLink")
    <2>1. PICK l \in Links : Adds(h, l)
      BY <1>3
    <2>2. F' = F \cup {l} /\ l \notin F
      BY <1>3, <2>1 DEF Adds, FreshOf
    <2>3. A' = A \ {h} /\ h \in A
      BY <1>0, <1>3, <2>1 DEF Adds, Leaves, Alone, Adding, On, Who
    <2>4. IsFiniteSet(F') /\ Cardinality(F') = Cardinality(F) + 1
      BY <1>1, <2>2, FS_AddElement
    <2>5. Cardinality(A') = Cardinality(A) - 1
      BY <1>1, <2>3, FS_RemoveElement
    <2> QED
      BY <1>1, <2>4, <2>5
  <1>4. CASE /\ ~(Clears(h) /\ Who(h) = u)
             /\ ~(/\ \E l \in Links : Adds(h, l)
                  /\ Who(h) = u /\ On(h, "resetLink"))
    <2>1. F' \subseteq F
      <3> SUFFICES ASSUME NEW l \in Links, links'[l].state = "fresh",
                          links'[l].of = u, links'[l].purpose = "RESET"
                   PROVE  l \in F
        BY DEF FreshOf
      <3>1. ~Adds(h, l)
        BY <1>4 DEF Adds
      <3>2. links[l].state = "fresh" /\ links'[l].of = links[l].of
            /\ links'[l].purpose = links[l].purpose
        BY <3>1
        DEF HandlerStep, Begins, Turns, GivesUp, Creates, SetsPassword, Switches,
            Secures, Deletes, Invalidates, Clears, Consumes, Adds, Writes, Gone
      <3> QED
        BY <3>2 DEF FreshOf
    <2>2. A' \subseteq A
      <3> SUFFICES ASSUME NEW g \in Handlers, handlers'[g].who = u,
                          handlers'[g].at = "resetLink"
                   PROVE  g \in A
        BY DEF Adding, Who, On
      <3>1. CASE g # h
        BY <1>0, <3>1 DEF Alone, Adding, Who, On
      <3>2. CASE g = h
        BY <1>4, <3>2
        DEF HandlerStep, Begins, Turns, GivesUp, Creates, SetsPassword, Switches,
            Secures, Deletes, Invalidates, Clears, Consumes, Adds, Goes, Leaves
      <3> QED
        BY <3>1, <3>2
    <2>3. /\ IsFiniteSet(F')
          /\ Cardinality(F') + Cardinality(A') <= Cardinality(F) + Cardinality(A)
      BY <1>1, <2>1, <2>2, FewerCounted
    <2>4. Cardinality(F') \in Nat /\ Cardinality(A') \in Nat
      BY <1>1, <2>2, <2>3, FS_Subset, FS_CardinalityType
    <2> QED
      BY <1>1, <2>3, <2>4
  <1> QED
    BY <1>2, <1>3, <1>4

LEMMA ResetsAge ==
    ASSUME UsersInv, ResetsCounted, Ages \/ UNCHANGED userVars
    PROVE  ResetsCounted'
  <1>1. ASSUME NEW u \in Admins
        PROVE  FreshOf(u, "RESET")' = FreshOf(u, "RESET") /\ Adding(u)' = Adding(u)
    BY DEF Ages, userVars, FreshOf, Adding, Who, On
  <1> QED
    BY <1>1 DEF ResetsCounted

LEMMA ResetsInit == UsersInit => ResetsCounted
  <1> SUFFICES ASSUME UsersInit, NEW u \in Admins
               PROVE  /\ IsFiniteSet(FreshOf(u, "RESET"))
                      /\ Cardinality(FreshOf(u, "RESET")) + Cardinality(Adding(u))
                             <= Cardinality(Handlers)
    BY DEF ResetsCounted
  <1>1. FreshOf(u, "RESET") = {}
    BY DEF UsersInit, FreshOf, NoLinkRow
  <1>2. /\ Cardinality(Adding(u)) \in Nat
        /\ Cardinality(Adding(u)) <= Cardinality(Handlers)
    BY InvInit, SetsCounted
  <1>3. IsFiniteSet({}) /\ Cardinality({}) = 0
    BY FS_EmptySet
  <1> QED
    BY <1>1, <1>2, <1>3

-----------------------------------------------------------------------------
(* Between the two steps of the setup there is a way on *)

\* Only the first step of the setup brings a user between the two.
LEMMA StartsBetween ==
    ASSUME UsersInv, NEW h \in Handlers, HandlerStep(h),
           NEW u \in Admins, BetweenSteps(u)'
    PROVE  \/ BetweenSteps(u)
           \/ u = Who(h) /\ SetsPassword(h) /\ On(h, "setupPassword")
  <1> USE DEF BetweenSteps
  <1>1. CASE admins'[u] = admins[u]
    BY <1>1
  <1>2. CASE u = Who(h) /\ (Creates(h) \/ Switches(h) \/ Secures(h) \/ Deletes(h))
    BY <1>1, <1>2 DEF Creates, Switches, Secures, Deletes
  <1>3. CASE u = Who(h) /\ SetsPassword(h)
    <2>1. /\ Exists(u) /\ admins'[u].totp = admins[u].totp
          /\ (On(h, "change") => HasEverything(u))
          /\ (On(h, "resetPassword") => HasPassword(u))
          /\ (On(h, "setupPassword") \/ On(h, "change") \/ On(h, "resetPassword"))
      BY <1>3 DEF SetsPassword, UsersInv, Fits, On
    <2> QED
      BY <1>3, <2>1 DEF HasEverything, CanWork, Removed, HasPassword, Exists
  <1> QED
    BY <1>1, <1>2, <1>3
    DEF HandlerStep, Begins, Turns, GivesUp, Creates, SetsPassword, Switches,
        Secures, Deletes, Invalidates, Clears, Consumes, Adds, Writes, WritesLinks

\* The invitation of a user between the two steps is lost on the record only.
LEMMA InvitationKept ==
    ASSUME UsersInv, NEW h \in Handlers, HandlerStep(h),
           NEW u \in Admins, BetweenSteps(u), BetweenSteps(u)',
           NEW l \in FreshOf(u, "INVITE")
    PROVE  u \in stranded' \/ FreshOf(u, "INVITE")' # {}
  <1>0. l \in Links /\ links[l].of = u /\ links[l].purpose = "INVITE"
        /\ links[l].state = "fresh" /\ u # NoOne
    BY PanelUsersAssumption DEF FreshOf
  <1>1. CASE links'[l] = links[l]
    BY <1>0, <1>1 DEF FreshOf
  <1>2. CASE Deletes(h)
    BY <1>0, <1>1, <1>2 DEF Deletes, BetweenSteps, Exists
  <1>3. CASE Invalidates(h)
    <2>1. CASE Who(h) = u
      <3>1. UNCHANGED admins
        BY <1>3 DEF Invalidates, WritesLinks
      <3>2. Strands(u, links') \/ FreshOf(u, "INVITE")' # {}
        BY DEF Strands, BetweenSteps, FreshOf
      <3> QED
        BY <1>3, <2>1, <3>2 DEF Invalidates
    <2>2. CASE Who(h) # u
      BY <1>0, <1>1, <1>3, <2>2 DEF Invalidates
    <2> QED
      BY <2>1, <2>2
  <1>4. CASE Clears(h)
    BY <1>0, <1>1, <1>4 DEF Clears, FreshOf
  <1>5. CASE Consumes(h)
    <2>1. CASE l = handlers[h].link
      <3>1. Fits(h) /\ (On(h, "consumeInvite") \/ On(h, "consumeReset"))
        BY <1>5 DEF UsersInv, Consumes
      <3>2. On(h, "consumeInvite") /\ u = Who(h)
        BY <1>0, <2>1, <3>1 DEF Fits, On
      <3> QED
        BY <3>1, <3>2 DEF Fits, On, BetweenSteps, HasEverything, CanWork, Removed
    <2>2. CASE l # handlers[h].link
      BY <1>0, <1>1, <1>5, <2>2 DEF Consumes
    <2> QED
      BY <2>1, <2>2
  <1>6. CASE \E k \in Links : Adds(h, k)
    BY <1>0, <1>1, <1>6 DEF Adds
  <1> QED
    BY <1>1, <1>2, <1>3, <1>4, <1>5, <1>6
    DEF HandlerStep, Begins, Turns, GivesUp, Creates, SetsPassword, Switches,
        Secures, Writes

\* A handler that is about to add the invitation adds it, or gives up on record.
LEMMA InvitationComes ==
    ASSUME UsersInv, NEW h \in Handlers, HandlerStep(h),
           NEW u \in Admins, BetweenSteps(u),
           NEW g \in Handlers, Who(g) = u, On(g, "inviteLink")
    PROVE  WayOn(u)'
  <1>1. CASE g # h
    <2>1. handlers'[g] = handlers[g]
      BY <1>1
      DEF HandlerStep, Begins, Turns, GivesUp, Creates, SetsPassword, Switches,
          Secures, Deletes, Invalidates, Clears, Consumes, Adds, Writes,
          WritesLinks, Alone
    <2> QED
      BY <2>1 DEF WayOn, Who, On
  <1>2. CASE g = h
    <2>1. CASE GivesUp(h)
      <3>1. Strands(u, links) \/ FreshOf(u, "INVITE") # {}
        BY DEF Strands, BetweenSteps, FreshOf
      <3>2. FreshOf(u, "INVITE")' = FreshOf(u, "INVITE")
        BY <2>1 DEF GivesUp, FreshOf
      <3> QED
        BY <1>2, <2>1, <3>1, <3>2 DEF GivesUp, WayOn
    <2>2. CASE \E l \in Links : Adds(h, l)
      <3>1. PICK l \in Links : Adds(h, l)
        BY <2>2
      <3>2. l \in FreshOf(u, "INVITE")'
        BY <1>2, <3>1 DEF Adds, FreshOf, On
      <3> QED
        BY <3>2 DEF WayOn
    <2> QED
      BY <1>2, <2>1, <2>2
      DEF HandlerStep, Begins, Turns, Creates, SetsPassword, Switches, Secures,
          Deletes, Invalidates, Clears, Consumes, On, Free, BetweenSteps
  <1> QED
    BY <1>1, <1>2

LEMMA WaysSteps ==
    ASSUME UsersInv, WaysOn, NEW h \in Handlers, HandlerStep(h)
    PROVE  WaysOn'
  <1> SUFFICES ASSUME NEW u \in Admins, BetweenSteps(u)' PROVE WayOn(u)'
    BY DEF WaysOn
  <1>1. CASE BetweenSteps(u)
    <2>1. WayOn(u)
      BY <1>1 DEF WaysOn
    <2>2. CASE u \in stranded
      <3>1. stranded \subseteq stranded'
        BY DEF HandlerStep, Begins, Turns, GivesUp, Creates, SetsPassword, Switches,
               Secures, Deletes, Invalidates, Clears, Consumes, Adds, Writes,
               WritesLinks
      <3> QED
        BY <2>2, <3>1 DEF WayOn
    <2>3. CASE FreshOf(u, "INVITE") # {}
      BY <1>1, <2>3, InvitationKept DEF WayOn
    <2>4. CASE \E g \in Handlers : Who(g) = u /\ On(g, "inviteLink")
      BY <1>1, <2>4, InvitationComes
    <2> QED
      BY <2>1, <2>2, <2>3, <2>4 DEF WayOn
  <1>2. CASE u = Who(h) /\ SetsPassword(h) /\ On(h, "setupPassword")
    <2>1. FreshOf(u, "INVITE")' = FreshOf(u, "INVITE")
      BY <1>2 DEF SetsPassword, Writes, FreshOf
    <2> QED
      BY <1>2, <2>1 DEF SetsPassword, WayOn
  <1> QED
    BY <1>1, <1>2, StartsBetween

LEMMA WaysAge ==
    ASSUME UsersInv, WaysOn, Ages \/ UNCHANGED userVars
    PROVE  WaysOn'
  <1>1. ASSUME NEW u \in Admins
        PROVE  /\ FreshOf(u, "INVITE")' = FreshOf(u, "INVITE")
               /\ BetweenSteps(u)' <=> BetweenSteps(u)
    BY DEF Ages, userVars, FreshOf, BetweenSteps
  <1>2. UNCHANGED <<stranded, handlers>>
    BY DEF Ages, userVars
  <1> QED
    BY <1>1, <1>2 DEF WaysOn, WayOn, Who, On

LEMMA WaysInit == UsersInit => WaysOn
  <1> SUFFICES ASSUME UsersInit, NEW u \in Admins PROVE ~BetweenSteps(u)
    BY DEF WaysOn
  <1>1. admins[u] \in {NoRow, Working, [NoRow EXCEPT !.password = "pending"]}
    BY DEF UsersInit
  <1> QED
    BY <1>1 DEF NoRow, Working, BetweenSteps

-----------------------------------------------------------------------------
(* Theorems *)

\* Rows, links and handlers have their types, and a link that works is of a user
\* that is there (admin_tokens.user_id is a foreign key with ON DELETE CASCADE).
THEOREM UsersTypesHold == UsersSpec => []UsersTypeOK
  <1>1. UsersInv => UsersTypeOK
    BY DEF UsersInv
  <1> QED
    BY <1>1, InvariantHolds, PTL

\* Whoever deactivates and removes whom, an active user with password and TOTP is
\* left, unless two handlers that take users out overlapped: the user that began
\* the removal was one, and only another removal could take him out before it ends.
THEOREM WorkerLeft == UsersSpec => []WorkingUserLeft
  <1>1. UsersInv /\ AnotherLeft /\ [UsersNext]_userVars => UsersInv' /\ AnotherLeft'
    BY InvNext, AnotherNext
  <1>2. AnotherLeft => WorkingUserLeft
    BY DEF AnotherLeft, WorkingUserLeft, HasEverything, Removed
  <1> QED
    BY <1>1, <1>2, InvInit, AnotherInit, PTL DEF UsersSpec

\* However often a user asks for a new password, the links that work are no more
\* than the requests that can be under way: a request removes the user's links
\* before it adds one, so that each link and each request about to add one counts.
THEOREM ResetsBounded == UsersSpec => []ResetLinksBounded
  <1>1. ASSUME UsersInv, ResetsCounted, [UsersNext]_userVars
        PROVE  UsersInv' /\ ResetsCounted'
    BY <1>1, InvNext, NextKinds, ResetsSteps, ResetsAge
  <1>2. ASSUME UsersInv, ResetsCounted, NEW u \in Admins
        PROVE  Cardinality(FreshOf(u, "RESET")) <= Cardinality(Handlers)
    <2>1. /\ Cardinality(FreshOf(u, "RESET")) \in Nat
          /\ Cardinality(Adding(u)) \in Nat /\ Cardinality(Handlers) \in Nat
          /\ Cardinality(FreshOf(u, "RESET")) + Cardinality(Adding(u))
                 <= Cardinality(Handlers)
      BY <1>2, SetsCounted, FS_CardinalityType DEF ResetsCounted
    <2> QED
      BY <2>1
  <1>3. UsersInv /\ ResetsCounted => ResetLinksBounded
    BY <1>2 DEF ResetLinksBounded
  <1> QED
    BY <1>1, <1>3, InvInit, ResetsInit, PTL DEF UsersSpec

\* Between the two steps of the setup a user keeps the invitation, or a new one is
\* being written, or the loss is one of those on record: the handlers that use an
\* invitation up belong to users through with both steps.
THEOREM SetupGoesOn == UsersSpec => []SetupNotStranded
  <1>1. ASSUME UsersInv, WaysOn, [UsersNext]_userVars PROVE UsersInv' /\ WaysOn'
    BY <1>1, InvNext, NextKinds, WaysSteps, WaysAge
  <1>2. WaysOn => SetupNotStranded
    BY DEF WaysOn, WayOn, BetweenSteps, SetupNotStranded, Active
  <1> QED
    BY <1>1, <1>2, InvInit, WaysInit, PTL DEF UsersSpec
=============================================================================
