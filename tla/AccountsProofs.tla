---------------------------- MODULE AccountsProofs ----------------------------
(***************************************************************************)
(* TLAPS proofs about Accounts, for every set of users, tokens, grants and *)
(* handlers, all lengths of windows, locks and sessions, and every bound.  *)
(***************************************************************************)
EXTENDS Accounts, SequenceTheorems, TLAPS

USE RolesAssumption, TimesAssumption, BoundsAssumption

-----------------------------------------------------------------------------
(* Types.                                                                  *)

LEMMA Blank ==
  /\ Absent \in UserType
  /\ Unused \in SessionType
  /\ NoGrant \in GrantType
  /\ Idle \in JobType
BY DEF Absent, UserType, Unused, SessionType, NoGrant, GrantType, Idle, JobType, Time, Purposes

(* What is at work belongs to someone: a row of `sessions` to a user, a    *)
(* request to a user and a session, an acceptance to a confirmation.       *)
Held ==
    /\ \A t \in Tokens : sessions[t].state \in {"live", "revoked"} => sessions[t].user \in Users
    /\ \A t \in Tokens : sessions[t].user \in Users => Exists(sessions[t].user)
    /\ \A h \in Handlers :
         /\ job[h].pc \in {"login", "admitted", "accept"} =>
              job[h].user \in Users /\ Exists(job[h].user)
         /\ job[h].pc \in {"admitted", "accept"} =>
              job[h].token \in Tokens /\ sessions[job[h].token].state # "unused"
         /\ job[h].pc = "accept" => job[h].grant \in Grants

LEMMA InitType == Init => TypeOK /\ Held
BY Blank DEF Init, TypeOK, Time, Held, Idle, Unused

(* Updates of the fields of a row. *)
LEMMA Counted ==
  ASSUME NEW x \in UserType, NEW n \in Nat, NEW f \in Nat \cup {Null}, NEW l \in Nat \cup {Null}
  PROVE  [x EXCEPT !.failed = n, !.first = f, !.locked = l] \in UserType
BY Zenon DEF UserType, Time

LEMMA Given ==
  ASSUME NEW x \in UserType, NEW R \in SUBSET Roles
  PROVE  [x EXCEPT !.roles = R] \in UserType
BY Zenon DEF UserType, Time

LEMMA Created ==
  ASSUME NEW legacy \in {"admin", "reviewer"}, NEW R \in SUBSET Roles
  PROVE  NewUser(legacy, R) \in UserType /\ NewUser(legacy, R).legacy = legacy
                                         /\ NewUser(legacy, R).roles = R
                                         /\ NewUser(legacy, R).failed = 0
                                         /\ NewUser(legacy, R).first = Null
                                         /\ NewUser(legacy, R).locked = Null
BY DEF NewUser, Absent, UserType, Time

LEMMA Refreshed ==
  ASSUME NEW x \in SessionType, NEW s \in Nat, NEW i \in Nat
  PROVE  [x EXCEPT !.seen = s, !.idle = i] \in SessionType
BY Zenon DEF SessionType, Time

LEMMA Spent ==
  ASSUME NEW x \in GrantType, NEW n \in Nat
  PROVE  [x EXCEPT !.state = "spent", !.until = n] \in GrantType
BY Zenon DEF GrantType, Time

LEMMA Granted ==
  ASSUME NEW x \in JobType, NEW g \in Grants
  PROVE  LET y == [x EXCEPT !.pc = "accept", !.grant = g]
         IN  /\ y \in JobType /\ y.pc = "accept" /\ y.grant = g
             /\ y.user = x.user /\ y.token = x.token
<1>1. [x EXCEPT !.pc = "accept", !.grant = g] \in JobType
  BY Zenon DEF JobType
<1> QED BY <1>1 DEF JobType

LEMMA HandlerType ==
  ASSUME TypeOK, Held, NEW h \in Handlers, HandlerStep(h)
  PROVE  TypeOK'
<1> USE DEF TypeOK, Time, historyVars
<1>h. /\ \A u \in Users : users[u] \in UserType
      /\ \A t \in Tokens : sessions[t] \in SessionType
      /\ \A g \in Grants : grants[g] \in GrantType
  OBVIOUS
<1>a. job[h] \in JobType /\ Idle \in JobType
  BY Blank
<1>b. \A x \in JobType : [job EXCEPT ![h] = x] \in [Handlers -> JobType]
  OBVIOUS
<1>c. ASSUME Finish(h) PROVE job' \in [Handlers -> JobType]
  BY <1>a, <1>b, <1>c DEF Finish
<1>d. \A u \in Users, x \in UserType : [users EXCEPT ![u] = x] \in [Users -> UserType]
  OBVIOUS
<1>e. \A t \in Tokens : Revoked(t) \in SessionType
  BY Blank DEF Revoked, SessionType
<1>f. \A g \in Grants, x \in GrantType : [grants EXCEPT ![g] = x] \in [Grants -> GrantType]
  OBVIOUS
<1>1. CASE SetupCheck(h)
  <2>1. [job[h] EXCEPT !.pc = "setup"] \in JobType
    BY <1>a DEF JobType
  <2> QED BY <1>1, <1>b, <2>1 DEF SetupCheck
<1>g. \A u \in Users : [Idle EXCEPT !.pc = "login", !.user = u] \in JobType
  BY <1>a DEF JobType
<1>2. ASSUME NEW u \in Users, SetupCreate(h, u) PROVE TypeOK'
  <2>1. NewUser("admin", {"owner"}) \in UserType
    BY Created
  <2>2. CASE Exists(u)
    <3>1. job' = [job EXCEPT ![h] = Idle] /\ UNCHANGED <<users, assigned>>
      BY <1>2, <2>2 DEF SetupCreate
    <3> QED BY <1>2, <3>1, <1>a, <1>b DEF SetupCreate
  <2>3. CASE ~Exists(u)
    <3>1. /\ users' = [users EXCEPT ![u] = NewUser("admin", {"owner"})]
          /\ assigned' = [assigned EXCEPT ![u] = {"owner"}]
          /\ job' = [job EXCEPT ![h] = [Idle EXCEPT !.pc = "login", !.user = u]]
      BY <1>2, <2>3 DEF SetupCreate
    <3>2. job' \in [Handlers -> JobType]
      BY <3>1, <1>b, <1>g
    <3>3. users' \in [Users -> UserType] /\ assigned' \in [Users -> SUBSET Roles]
      BY <3>1, <2>1, <1>d
    <3> QED BY <1>2, <3>2, <3>3 DEF SetupCreate
  <2> QED BY <2>2, <2>3
<1>3. ASSUME NEW u \in Users, RightPassword(h, u) PROVE TypeOK'
  <2>1. [users[u] EXCEPT !.failed = 0, !.first = Null, !.locked = Null] \in UserType
    BY <1>h, Counted
  <2>2. wrong' \in [Users -> Seq(Time)]
    BY <1>3 DEF RightPassword
  <2> QED BY <1>3, <1>b, <1>d, <1>g, <2>1, <2>2 DEF RightPassword
<1>4. ASSUME NEW t \in Tokens, OpenSession(h, t) PROVE TypeOK'
  <2>1. [state |-> "live", user |-> job[h].user, created |-> now, seen |-> now,
         idle |-> now + IdleFor, absolute |-> now + AbsoluteFor] \in SessionType
    BY <1>a DEF SessionType, JobType
  <2>2. [Unused EXCEPT !.state = "purged"] \in SessionType
    BY Blank DEF SessionType
  <2>3. sessions' \in [Tokens -> SessionType]
    BY <1>4, <2>1, <2>2 DEF OpenSession
  <2> QED BY <1>4, <1>a, <1>b, <2>3 DEF OpenSession
<1>5. ASSUME NEW t \in Tokens, Admit(h, t) PROVE TypeOK'
  <2>1. NextIdle(t) \in Nat
    BY DEF NextIdle, Earlier, SessionType
  <2>2. [sessions[t] EXCEPT !.seen = now, !.idle = NextIdle(t)] \in SessionType
    BY <2>1, <1>h, Refreshed
  <2>3. sessions' \in [Tokens -> SessionType]
    BY <1>5, <2>2 DEF Admit
  <2>4. sessions[t].user \in Users /\ users[sessions[t].user].roles \in SUBSET Roles
    <3>1. sessions[t].user \in Users
      BY <1>5 DEF Admit, Current, Held
    <3> QED BY <3>1, <1>h DEF UserType
  <2>5. [Idle EXCEPT !.pc = "admitted", !.user = sessions[t].user, !.token = t,
                     !.roles = users[sessions[t].user].roles] \in JobType
    BY <1>a, <2>4 DEF JobType
  <2> QED BY <1>5, <1>b, <2>3, <2>5 DEF Admit
<1>6. CASE OtherRequest(h) \/ RefuseConfirmation(h)
  BY <1>6, <1>c DEF OtherRequest, RefuseConfirmation
<1>7. CASE Logout(h)
  <2>1. job[h].token \in Tokens
    BY <1>7 DEF Logout, Held
  <2>2. sessions' \in [Tokens -> SessionType]
    BY <1>7, <2>1, <1>e DEF Logout
  <2> QED BY <1>7, <1>c, <2>1, <2>2 DEF Logout
<1>8. CASE AcceptRisk(h)
  <2>1. accepted' \in [Grants -> Seq(Users)]
    <3>1. job[h].grant \in Grants /\ job[h].user \in Users
      BY <1>8 DEF AcceptRisk, Held
    <3>2. \A g \in Grants, u \in Users :
            [accepted EXCEPT ![g] = Append(@, u)] \in [Grants -> Seq(Users)]
      OBVIOUS
    <3>3. \/ accepted' = [accepted EXCEPT ![job[h].grant] = Append(@, job[h].user)]
          \/ accepted' = accepted
      BY <1>8 DEF AcceptRisk
    <3>4. [accepted EXCEPT ![job[h].grant] = Append(@, job[h].user)] \in [Grants -> Seq(Users)]
      BY <3>1, <3>2
    <3> QED BY <3>3, <3>4
  <2> QED BY <1>8, <1>c, <2>1 DEF AcceptRisk
<1>9. ASSUME NEW u \in Users, NEW r \in Roles, CreateUser(h, u, r) PROVE TypeOK'
  <2>1. NewUser(IF r = "owner" THEN "admin" ELSE "reviewer", {r}) \in UserType
    BY Created
  <2> QED BY <1>9, <1>c, <1>d, <2>1 DEF CreateUser
<1>10. ASSUME NEW u \in Users, NEW R \in RoleSets, UpdateRoles(h, u, R) PROVE TypeOK'
  <2>1. [users[u] EXCEPT !.roles = R] \in UserType
    BY <1>h, Given
  <2>2. sessions' \in [Tokens -> SessionType]
    BY <1>10, <1>e DEF UpdateRoles
  <2> QED BY <1>10, <1>c, <1>d, <2>1, <2>2 DEF UpdateRoles, Event
<1>11. ASSUME NEW g \in Grants, NEW p \in Purposes, Confirm(h, g, p) PROVE TypeOK'
  <2>1. [state |-> "held", user |-> job[h].user, purpose |-> p, until |-> now + GrantFor] \in GrantType
    BY <1>a DEF JobType, GrantType
  <2> QED BY <1>11, <1>c, <1>f, <2>1 DEF Confirm, Event
<1>12. ASSUME NEW g \in Grants, UseGrant(h, g) PROVE TypeOK'
  <2>1. [grants[g] EXCEPT !.state = "spent", !.until = 0] \in GrantType
    BY <1>h, Spent
  <2>2. [job[h] EXCEPT !.pc = "accept", !.grant = g] \in JobType
    BY <1>a DEF JobType
  <2>3. job' \in [Handlers -> JobType]
    BY <1>12, <1>a, <1>b, <2>2 DEF UseGrant
  <2> QED BY <1>12, <1>f, <2>1, <2>3 DEF UseGrant, Without
<1> QED
  BY <1>1, <1>2, <1>3, <1>4, <1>5, <1>6, <1>7, <1>8, <1>9, <1>10, <1>11, <1>12 DEF HandlerStep

LEMMA StepType ==
  ASSUME TypeOK, Held, [Next]_vars
  PROVE  TypeOK'
<1> USE Blank DEF TypeOK, Time, historyVars
<1>h. /\ \A u \in Users : users[u] \in UserType
      /\ \A t \in Tokens : sessions[t] \in SessionType
      /\ \A g \in Grants : grants[g] \in GrantType
  OBVIOUS
<1>1. ASSUME NEW h \in Handlers, HandlerStep(h) PROVE TypeOK'
  BY <1>1, HandlerType
<1>2. ASSUME NEW u \in Users, WrongPassword(u) PROVE TypeOK'
  <2>1. [users[u] EXCEPT !.failed = Failures(u), !.first = IF WindowOver(u) THEN now ELSE @,
                         !.locked = LockFrom(Failures(u))] \in UserType
    <3>1. Failures(u) \in Nat /\ LockFrom(Failures(u)) \in Nat \cup {Null}
      BY <1>h DEF Failures, LockFrom, UserType
    <3>2. (IF WindowOver(u) THEN now ELSE users[u].first) \in Nat \cup {Null}
      BY <1>h DEF UserType
    <3> QED BY <1>h, <3>1, <3>2, Counted
  <2>2. wrong' \in [Users -> Seq(Time)]
    BY <1>2 DEF WrongPassword
  <2>3. users' \in [Users -> UserType]
    BY <1>2, <2>1 DEF WrongPassword
  <2> QED BY <1>2, <2>2, <2>3 DEF WrongPassword, Event
<1>3. ASSUME NEW t \in Tokens, RefuseExpired(t) PROVE TypeOK'
  BY <1>3 DEF RefuseExpired, Revoked, Unused, SessionType
<1>4. CASE Advance
  BY <1>4 DEF Advance
<1>5. CASE Restart
  <2>1. \A u \in Users : [users[u] EXCEPT !.roles = Seeded(u)] \in UserType
    <3>1. \A u \in Users : Seeded(u) \in SUBSET Roles
      BY <1>h DEF Seeded, Mapped, UserType
    <3> QED BY <3>1, <1>h, Given
  <2>2. \A g \in Grants : [grants[g] EXCEPT !.state = "spent", !.until = 0] \in GrantType
    BY <1>h, Spent
  <2>3. users' \in [Users -> UserType] /\ grants' \in [Grants -> GrantType]
    BY <1>5, <2>1, <2>2 DEF Restart
  <2>4. job' \in [Handlers -> JobType]
    BY <1>5 DEF Restart
  <2>5. UNCHANGED <<now, sessions, historyVars>> /\ events' \in Nat
    <3>1. UNCHANGED <<now, sessions, historyVars>> /\ Event
      BY <1>5 DEF Restart
    <3> QED BY <3>1 DEF Event
  <2> QED BY <2>3, <2>4, <2>5
<1>6. CASE UNCHANGED vars
  BY <1>6 DEF vars, historyVars
<1> QED
  BY <1>1, <1>2, <1>3, <1>4, <1>5, <1>6 DEF Next

-----------------------------------------------------------------------------
(* The legacy column of a user is written once.                            *)
LEMMA LegacyKept ==
  ASSUME TypeOK, [Next]_vars, NEW u \in Users, Exists(u)
  PROVE  users'[u].legacy = users[u].legacy
<1>h. users \in [Users -> UserType] /\ users[u] \in UserType
  BY DEF TypeOK
<1> USE DEF historyVars
<1>1. ASSUME NEW h \in Handlers, HandlerStep(h) PROVE users'[u].legacy = users[u].legacy
  <2>1. ASSUME NEW v \in Users, SetupCreate(h, v) PROVE users'[u].legacy = users[u].legacy
    BY <1>h, <2>1 DEF SetupCreate, Exists
  <2>2. ASSUME NEW v \in Users, RightPassword(h, v) PROVE users'[u].legacy = users[u].legacy
    BY <1>h, <2>2 DEF RightPassword, UserType
  <2>3. ASSUME NEW v \in Users, NEW r \in Roles, CreateUser(h, v, r)
        PROVE users'[u].legacy = users[u].legacy
    BY <1>h, <2>3 DEF CreateUser
  <2>4. ASSUME NEW v \in Users, NEW R \in RoleSets, UpdateRoles(h, v, R)
        PROVE users'[u].legacy = users[u].legacy
    BY <1>h, <2>4 DEF UpdateRoles, UserType
  <2> QED
    BY <1>1, <2>1, <2>2, <2>3, <2>4
    DEF HandlerStep, SetupCheck, OpenSession, Admit, OtherRequest, RefuseConfirmation, Logout, AcceptRisk, Confirm, UseGrant
<1>2. ASSUME NEW v \in Users, WrongPassword(v) PROVE users'[u].legacy = users[u].legacy
  BY <1>h, <1>2 DEF WrongPassword, UserType
<1>3. CASE Restart
  BY <1>h, <1>3 DEF Restart, UserType
<1> QED
  BY <1>1, <1>2, <1>3 DEF Next, RefuseExpired, Advance, vars

LEMMA ExistsKept ==
  ASSUME TypeOK, [Next]_vars
  PROVE  \A u \in Users : Exists(u) => Exists(u)'
BY LegacyKept DEF Exists

LEMMA HandlerHeld ==
  ASSUME TypeOK, TypeOK', Held, NEW h \in Handlers, HandlerStep(h)
  PROVE  Held'
<1>h. /\ \A k \in Handlers : job[k] \in JobType
      /\ \A t \in Tokens : sessions[t] \in SessionType
      /\ job \in [Handlers -> JobType] /\ sessions \in [Tokens -> SessionType]
  BY DEF TypeOK
<1>k. \A u \in Users : Exists(u) => Exists(u)'
  BY ExistsKept DEF Next
<1>a. Idle.pc = "idle"
  BY DEF Idle
(* A handler that is done, or goes on with a request of its own, disturbs
   no other. *)
<1>b. ASSUME UNCHANGED sessions, NEW x \in JobType, job' = [job EXCEPT ![h] = x],
             \/ x.pc \in {"idle", "setup"}
             \/ x.pc = "login" /\ x.user \in Users /\ Exists(x.user)'
             \/ x.pc = "accept" /\ x.grant \in Grants /\ x.user = job[h].user
                                /\ x.token = job[h].token /\ job[h].pc = "admitted"
      PROVE Held'
  BY <1>h, <1>k, <1>b DEF Held, Exists
<1>1. CASE SetupCheck(h)
  <2>1. [job[h] EXCEPT !.pc = "setup"] \in JobType /\ [job[h] EXCEPT !.pc = "setup"].pc = "setup"
    BY <1>h DEF JobType
  <2> QED BY <1>1, <1>b, <2>1 DEF SetupCheck
<1>g. ASSUME NEW u \in Users PROVE /\ [Idle EXCEPT !.pc = "login", !.user = u] \in JobType
                                   /\ [Idle EXCEPT !.pc = "login", !.user = u].pc = "login"
                                   /\ [Idle EXCEPT !.pc = "login", !.user = u].user = u
  BY Blank DEF JobType, Idle
<1>c. ASSUME UNCHANGED sessions, Finish(h) PROVE Held'
  BY <1>a, <1>b, <1>c, Blank DEF Finish
<1>2. ASSUME NEW u \in Users, SetupCreate(h, u) PROVE Held'
  <2>1. CASE Exists(u)
    <3>1. job' = [job EXCEPT ![h] = Idle] /\ UNCHANGED sessions
      BY <1>2, <2>1 DEF SetupCreate
    <3> QED BY <3>1, <1>c DEF Finish
  <2>2. CASE ~Exists(u)
    <3>1. /\ users' = [users EXCEPT ![u] = NewUser("admin", {"owner"})]
          /\ job' = [job EXCEPT ![h] = [Idle EXCEPT !.pc = "login", !.user = u]]
          /\ UNCHANGED sessions
      BY <1>2, <2>2 DEF SetupCreate
    <3>2. Exists(u)'
      BY <3>1, Created DEF Exists, TypeOK
    <3> DEFINE x == [Idle EXCEPT !.pc = "login", !.user = u]
    <3>3. x \in JobType /\ x.pc = "login" /\ x.user = u
      BY <1>g
    <3>4. job' = [job EXCEPT ![h] = x]
      BY <3>1
    <3> HIDE DEF x
    <3>5. x.user \in Users /\ Exists(x.user)'
      BY <3>2, <3>3 DEF Exists
    <3> QED BY <3>1, <3>3, <3>4, <3>5, <1>b
  <2> QED BY <2>1, <2>2
<1>3. ASSUME NEW u \in Users, RightPassword(h, u) PROVE Held'
  <2> DEFINE x == [Idle EXCEPT !.pc = "login", !.user = u]
  <2>1. x \in JobType /\ x.pc = "login" /\ x.user = u
    BY <1>g
  <2>2. job' = [job EXCEPT ![h] = x] /\ UNCHANGED sessions /\ Exists(u)
    BY <1>3 DEF RightPassword
  <2> HIDE DEF x
  <2>3. x.user \in Users /\ Exists(x.user)'
    BY <2>1, <2>2, <1>k DEF Exists
  <2> QED BY <2>1, <2>2, <2>3, <1>b
<1>4. ASSUME NEW t \in Tokens, OpenSession(h, t) PROVE Held'
  <2>1. job[h].user \in Users /\ Exists(job[h].user)
    BY <1>4 DEF OpenSession, Held
  <2>2. /\ [Unused EXCEPT !.state = "purged"].state = "purged"
        /\ [Unused EXCEPT !.state = "purged"].user = Null
    BY DEF Unused
  <2>3. \A s \in Tokens :
          \/ sessions'[s] = sessions[s]
          \/ sessions'[s].state = "live" /\ sessions'[s].user = job[h].user
          \/ sessions'[s].state = "purged" /\ sessions'[s].user = Null
    BY <1>4, <2>2 DEF OpenSession
  <2>4. \A k \in Handlers : job'[k] = job[k] \/ job'[k] = Idle
    BY <1>4, <1>h DEF OpenSession
  <2> QED BY <1>a, <1>k, <2>1, <2>3, <2>4 DEF Held, Exists
<1>5. ASSUME NEW t \in Tokens, Admit(h, t) PROVE Held'
  <2>1. sessions[t].user \in Users /\ Exists(sessions[t].user) /\ sessions[t].state = "live"
    BY <1>5 DEF Admit, Current, Held
  <2>2. \A s \in Tokens : sessions'[s].state = sessions[s].state /\ sessions'[s].user = sessions[s].user
    BY <1>5, <1>h DEF Admit, SessionType
  <2> DEFINE x == [Idle EXCEPT !.pc = "admitted", !.user = sessions[t].user, !.token = t,
                               !.roles = users[sessions[t].user].roles]
  <2>3. x.pc = "admitted" /\ x.user = sessions[t].user /\ x.token = t
    BY DEF Idle
  <2>4. \A k \in Handlers : job'[k] = IF k = h THEN x ELSE job[k]
    BY <1>5, <1>h DEF Admit
  <2> HIDE DEF x
  <2> QED BY <1>k, <2>1, <2>2, <2>3, <2>4 DEF Held, Exists
<1>6. CASE OtherRequest(h) \/ RefuseConfirmation(h)
  BY <1>6, <1>c DEF OtherRequest, RefuseConfirmation
<1>7. CASE Logout(h)
  <2>1. job[h].token \in Tokens /\ sessions[job[h].token].state # "unused"
    BY <1>7 DEF Logout, Held
  <2>2. \A t \in Tokens : Revoked(t).state = "revoked" /\ Revoked(t).user = sessions[t].user
    BY DEF Revoked, Unused
  <2>3. \A s \in Tokens :
          \/ sessions'[s] = sessions[s]
          \/ /\ sessions'[s].state = "revoked" /\ sessions'[s].user = sessions[s].user
             /\ sessions[s].state \notin {"unused", "purged"}
    BY <1>7, <1>h, <2>1, <2>2 DEF Logout
  <2>4. \A k \in Handlers : job'[k] = job[k] \/ job'[k] = Idle
    BY <1>7, <1>h DEF Logout, Finish
  <2>5. \A s \in Tokens : sessions[s].state \notin {"unused", "purged"} => sessions[s].user \in Users
    BY <1>h DEF Held, SessionType
  <2> QED BY <1>a, <1>k, <2>3, <2>4, <2>5 DEF Held, Exists
<1>8. CASE AcceptRisk(h)
  BY <1>8, <1>c DEF AcceptRisk
<1>9. ASSUME NEW u \in Users, NEW r \in Roles, CreateUser(h, u, r) PROVE Held'
  BY <1>9, <1>c DEF CreateUser
<1>10. ASSUME NEW u \in Users, NEW R \in RoleSets, UpdateRoles(h, u, R) PROVE Held'
  <2>2. \A t \in Tokens : Revoked(t).state = "revoked" /\ Revoked(t).user = sessions[t].user
    BY DEF Revoked, Unused
  <2>3. \A s \in Tokens :
          \/ sessions'[s] = sessions[s]
          \/ /\ sessions'[s].state = "revoked" /\ sessions'[s].user = sessions[s].user
             /\ sessions[s].user \in Users
    BY <1>10, <1>h, <2>2 DEF UpdateRoles, SessionsOf
  <2>4. \A k \in Handlers : job'[k] = job[k] \/ job'[k] = Idle
    BY <1>10, <1>h DEF UpdateRoles, Finish
  <2> QED BY <1>a, <1>k, <2>3, <2>4 DEF Held, Exists
<1>11. ASSUME NEW g \in Grants, NEW p \in Purposes, Confirm(h, g, p) PROVE Held'
  BY <1>11, <1>c DEF Confirm
<1>12. ASSUME NEW g \in Grants, UseGrant(h, g) PROVE Held'
  <2> DEFINE x == [job[h] EXCEPT !.pc = "accept", !.grant = g]
  <2>1. job[h] \in JobType
    BY <1>h
  <2>2. /\ x \in JobType /\ x.pc = "accept" /\ x.grant = g
        /\ x.user = job[h].user /\ x.token = job[h].token
    BY <2>1, Granted
  <2>3. CASE Valid(h, g)
    <3>1. /\ job' = [job EXCEPT ![h] = x] /\ UNCHANGED sessions
          /\ job[h].pc = "admitted"
      BY <1>12, <2>3 DEF UseGrant
    <3> HIDE DEF x
    <3> QED BY <1>b, <2>2, <3>1
  <2>4. CASE ~Valid(h, g)
    <3>1. job' = [job EXCEPT ![h] = Idle]
      BY <1>12, <2>4 DEF UseGrant
    <3> QED BY <1>12, <1>c, <3>1 DEF UseGrant, Finish
  <2> QED BY <2>3, <2>4
<1> QED
  BY <1>1, <1>2, <1>3, <1>4, <1>5, <1>6, <1>7, <1>8, <1>9, <1>10, <1>11, <1>12 DEF HandlerStep

LEMMA StepHeld ==
  ASSUME TypeOK, TypeOK', Held, [Next]_vars
  PROVE  Held'
<1>h. /\ \A t \in Tokens : sessions[t] \in SessionType
      /\ sessions \in [Tokens -> SessionType]
  BY DEF TypeOK
<1>k. \A u \in Users : Exists(u) => Exists(u)'
  BY ExistsKept
<1>1. ASSUME NEW h \in Handlers, HandlerStep(h) PROVE Held'
  BY <1>1, HandlerHeld
<1>b. ASSUME UNCHANGED <<sessions, job>> PROVE Held'
  BY <1>k, <1>b DEF Held, Exists
<1>2. ASSUME NEW u \in Users, WrongPassword(u) PROVE Held'
  BY <1>2, <1>b DEF WrongPassword
<1>3. ASSUME NEW t \in Tokens, RefuseExpired(t) PROVE Held'
  <2>1. Revoked(t).state = "revoked" /\ Revoked(t).user = sessions[t].user
    BY DEF Revoked, Unused
  <2>2. \A s \in Tokens :
          \/ sessions'[s] = sessions[s]
          \/ /\ sessions'[s].state = "revoked" /\ sessions'[s].user = sessions[s].user
             /\ sessions[s].state = "live"
    BY <1>3, <1>h, <2>1 DEF RefuseExpired, Current
  <2> QED BY <1>3, <1>k, <2>2 DEF Held, Exists, RefuseExpired
<1>4. CASE Advance
  BY <1>4, <1>b DEF Advance
<1>5. CASE Restart
  <2>1. \A h \in Handlers : job'[h].pc = "idle"
    BY <1>5 DEF Restart, Idle
  <2> QED BY <1>5, <1>k, <2>1 DEF Restart, Held, Exists
<1>6. CASE UNCHANGED vars
  BY <1>6, <1>b DEF vars
<1> QED
  BY <1>1, <1>2, <1>3, <1>4, <1>5, <1>6 DEF Next

-----------------------------------------------------------------------------
(* Sessions: what is stored with a row that can be used, and that an ended *)
(* one cannot.                                                             *)
SessionTimes ==
    \A t \in Tokens : sessions[t].state = "live" =>
        /\ sessions[t].idle <= sessions[t].seen + IdleFor
        /\ sessions[t].absolute = sessions[t].created + AbsoluteFor

EndedGone == \A t \in ended : sessions[t].state \in {"revoked", "purged"}

LEMMA StepSessions ==
  ASSUME TypeOK, Held, SessionTimes, EndedGone, [Next]_vars
  PROVE  SessionTimes' /\ EndedGone'
<1>h. /\ \A t \in Tokens : sessions[t] \in SessionType
      /\ sessions \in [Tokens -> SessionType] /\ ended \subseteq Tokens /\ now \in Nat
      /\ \A h \in Handlers : job[h] \in JobType
  BY DEF TypeOK, Time
<1>r. \A t \in Tokens : Revoked(t).state = "revoked" /\ Revoked(t).user = sessions[t].user
  BY DEF Revoked, Unused
<1>b. ASSUME UNCHANGED <<sessions, ended>> PROVE SessionTimes' /\ EndedGone'
  BY <1>b DEF SessionTimes, EndedGone
<1> USE DEF historyVars
<1>1. ASSUME NEW h \in Handlers, NEW t \in Tokens, OpenSession(h, t)
      PROVE  SessionTimes' /\ EndedGone'
  <2> DEFINE new == [state |-> "live", user |-> job[h].user, created |-> now, seen |-> now,
                     idle |-> now + IdleFor, absolute |-> now + AbsoluteFor]
  <2> DEFINE gone == [Unused EXCEPT !.state = "purged"]
  <2>1. gone.state = "purged"
    BY DEF Unused
  <2>2. \A s \in Tokens :
          \/ s # t /\ sessions'[s] = sessions[s]
          \/ s # t /\ sessions'[s].state = "purged"
          \/ s = t /\ sessions'[s] = new
    <3>1. \A s \in Tokens : sessions'[s] = IF s = t THEN new
                                           ELSE IF Purged(s) THEN gone ELSE sessions[s]
      BY <1>1 DEF OpenSession
    <3> HIDE DEF new, gone
    <3> QED BY <2>1, <3>1
  <2>3. sessions[t].state = "unused" /\ ended' = ended
    BY <1>1 DEF OpenSession
  <2>4. EndedGone'
    BY <2>2, <2>3, <1>h DEF EndedGone
  <2>5. SessionTimes'
    BY <2>2, <1>h DEF SessionTimes
  <2> QED BY <2>4, <2>5
<1>2. ASSUME NEW h \in Handlers, NEW t \in Tokens, Admit(h, t)
      PROVE  SessionTimes' /\ EndedGone'
  <2>1. NextIdle(t) <= now + IdleFor
    BY <1>h DEF NextIdle, Earlier, SessionType, Time
  <2>2. \A s \in Tokens \ {t} : sessions'[s] = sessions[s]
    BY <1>2, <1>h DEF Admit
  <2>3. /\ sessions'[t].state = sessions[t].state /\ sessions'[t].created = sessions[t].created
        /\ sessions'[t].absolute = sessions[t].absolute
        /\ sessions'[t].seen = now /\ sessions'[t].idle = NextIdle(t)
    BY <1>2, <1>h DEF Admit, SessionType
  <2>4. EndedGone'
    BY <1>2, <2>2, <2>3, <1>h DEF EndedGone, Admit
  <2>5. SessionTimes'
    BY <2>1, <2>2, <2>3 DEF SessionTimes
  <2> QED BY <2>4, <2>5
<1>3. ASSUME NEW h \in Handlers, Logout(h) PROVE SessionTimes' /\ EndedGone'
  <2>1. job[h].token \in Tokens
    BY <1>3 DEF Logout, Held
  <2>2. \A s \in Tokens : sessions'[s] = sessions[s] \/ sessions'[s].state = "revoked"
    BY <1>3, <1>h, <1>r, <2>1 DEF Logout
  <2>3. sessions'[job[h].token].state \in {"revoked", "purged"}
    BY <1>3, <1>h, <1>r, <2>1 DEF Logout
  <2> QED BY <1>3, <1>h, <2>1, <2>2, <2>3 DEF Logout, SessionTimes, EndedGone
<1>4. ASSUME NEW h \in Handlers, NEW u \in Users, NEW R \in RoleSets, UpdateRoles(h, u, R)
      PROVE  SessionTimes' /\ EndedGone'
  <2>1. \A s \in Tokens :
          IF sessions[s].user = u THEN sessions'[s].state = "revoked" ELSE sessions'[s] = sessions[s]
    BY <1>4, <1>r DEF UpdateRoles, SessionsOf
  <2>2. ended' = ended \cup {s \in Tokens : sessions[s].user = u}
    BY <1>4 DEF UpdateRoles
  <2> QED BY <1>h, <2>1, <2>2 DEF SessionTimes, EndedGone
<1>5. ASSUME NEW t \in Tokens, RefuseExpired(t) PROVE SessionTimes' /\ EndedGone'
  <2>1. \A s \in Tokens : sessions'[s] = sessions[s] \/ sessions'[s].state = "revoked"
    BY <1>5, <1>h, <1>r DEF RefuseExpired
  <2> QED BY <1>5, <1>h, <2>1 DEF RefuseExpired, SessionTimes, EndedGone
<1>6. ASSUME NEW h \in Handlers, HandlerStep(h) PROVE SessionTimes' /\ EndedGone'
  BY <1>6, <1>b, <1>1, <1>2, <1>3, <1>4
  DEF HandlerStep, SetupCheck, SetupCreate, RightPassword, OtherRequest, RefuseConfirmation, AcceptRisk,
      CreateUser, Confirm, UseGrant
<1> QED
  BY <1>b, <1>5, <1>6 DEF Next, WrongPassword, Advance, Restart, vars

-----------------------------------------------------------------------------
(* Roles.  The first user is an owner whose legacy column says so, for     *)
(* good; everyone else was created by a user who existed before.           *)
OwnerFounded ==
    /\ (\E u \in Users : Exists(u)) => \E u \in Users : users[u].legacy = "admin"
    /\ \A u \in Users : ~Exists(u) => users[u].roles = {}

LEMMA StepRoles ==
  ASSUME TypeOK, Held, OwnerFounded, DriftBounded, [Next]_vars
  PROVE  OwnerFounded' /\ DriftBounded'
<1>h. /\ \A u \in Users : users[u] \in UserType
      /\ users \in [Users -> UserType] /\ assigned \in [Users -> SUBSET Roles]
  BY DEF TypeOK
<1>b. ASSUME UNCHANGED assigned,
             \A u \in Users : users'[u].legacy = users[u].legacy /\ users'[u].roles = users[u].roles
      PROVE  OwnerFounded' /\ DriftBounded'
  BY <1>b DEF OwnerFounded, DriftBounded, Exists, Mapped
<1>c. ASSUME UNCHANGED users, UNCHANGED assigned
      PROVE  OwnerFounded' /\ DriftBounded'
  BY <1>b, <1>c
<1> USE DEF historyVars
(* A new user, when it is the founder or someone else exists. *)
<1>d. ASSUME NEW u \in Users, ~Exists(u), NEW legacy \in {"admin", "reviewer"}, NEW R \in SUBSET Roles,
             users' = [users EXCEPT ![u] = NewUser(legacy, R)], assigned' = [assigned EXCEPT ![u] = R],
             legacy = "admin" \/ \E v \in Users : Exists(v)
      PROVE  OwnerFounded' /\ DriftBounded'
  <2>1. users'[u].legacy = legacy /\ users'[u].roles = R /\ assigned'[u] = R
    BY <1>d, <1>h, Created
  <2>2. \A v \in Users \ {u} : users'[v] = users[v] /\ assigned'[v] = assigned[v]
    BY <1>d, <1>h
  <2>3. OwnerFounded'
    <3>1. CASE legacy = "admin"
      BY <2>1, <2>2, <3>1 DEF OwnerFounded, Exists
    <3>2. CASE legacy # "admin"
      <4>1. PICK v \in Users : users[v].legacy = "admin"
        BY <1>d, <3>2 DEF OwnerFounded
      <4>2. v # u
        BY <1>d, <4>1 DEF Exists
      <4> QED BY <2>1, <2>2, <4>1, <4>2 DEF OwnerFounded, Exists
    <3> QED BY <3>1, <3>2
  <2>4. DriftBounded'
    BY <2>1, <2>2 DEF DriftBounded, Mapped
  <2> QED BY <2>3, <2>4
<1>1. ASSUME NEW h \in Handlers, NEW u \in Users, SetupCreate(h, u) PROVE OwnerFounded' /\ DriftBounded'
  <2>1. CASE Exists(u)
    BY <1>1, <1>c, <2>1 DEF SetupCreate
  <2>2. CASE ~Exists(u)
    <3>1. users' = [users EXCEPT ![u] = NewUser("admin", {"owner"})]
          /\ assigned' = [assigned EXCEPT ![u] = {"owner"}]
      BY <1>1, <2>2 DEF SetupCreate
    <3>2. {"owner"} \in SUBSET Roles
      OBVIOUS
    <3> QED BY <1>d, <2>2, <3>1, <3>2
  <2> QED BY <2>1, <2>2
<1>2. ASSUME NEW h \in Handlers, NEW u \in Users, RightPassword(h, u) PROVE OwnerFounded' /\ DriftBounded'
  BY <1>2, <1>b, <1>h DEF RightPassword, UserType
<1>3. ASSUME NEW u \in Users, WrongPassword(u) PROVE OwnerFounded' /\ DriftBounded'
  BY <1>3, <1>b, <1>h DEF WrongPassword, UserType
<1>4. ASSUME NEW h \in Handlers, NEW u \in Users, NEW r \in Roles, CreateUser(h, u, r)
      PROVE  OwnerFounded' /\ DriftBounded'
  <2>1. \E v \in Users : Exists(v)
    BY <1>4 DEF CreateUser, Held
  <2> DEFINE legacy == IF r = "owner" THEN "admin" ELSE "reviewer"
  <2>2. users' = [users EXCEPT ![u] = NewUser(legacy, {r})] /\ assigned' = [assigned EXCEPT ![u] = {r}]
        /\ ~Exists(u) /\ legacy \in {"admin", "reviewer"} /\ {r} \in SUBSET Roles
    BY <1>4 DEF CreateUser
  <2> HIDE DEF legacy
  <2> QED BY <1>d, <2>1, <2>2
<1>5. ASSUME NEW h \in Handlers, NEW u \in Users, NEW R \in RoleSets, UpdateRoles(h, u, R)
      PROVE  OwnerFounded' /\ DriftBounded'
  <2>1. \A v \in Users : users'[v].legacy = users[v].legacy
    BY <1>5, <1>h DEF UpdateRoles, UserType
  <2>2. \A v \in Users : IF v = u THEN users'[v].roles = R /\ assigned'[v] = R
                         ELSE users'[v].roles = users[v].roles /\ assigned'[v] = assigned[v]
    BY <1>5, <1>h DEF UpdateRoles, UserType
  <2>3. Exists(u)
    BY <1>5 DEF UpdateRoles
  <2> QED BY <2>1, <2>2, <2>3 DEF OwnerFounded, DriftBounded, Exists, Mapped
<1>6. CASE Restart
  <2>1. \A v \in Users : users'[v].legacy = users[v].legacy /\ users'[v].roles = Seeded(v)
    <3>1. \A v \in Users : users'[v] = [users[v] EXCEPT !.roles = Seeded(v)]
      BY <1>6 DEF Restart
    <3>2. \A v \in Users : /\ [users[v] EXCEPT !.roles = Seeded(v)].legacy = users[v].legacy
                           /\ [users[v] EXCEPT !.roles = Seeded(v)].roles = Seeded(v)
      BY <1>h DEF UserType
    <3> QED BY <3>1, <3>2
  <2>2. UNCHANGED assigned
    BY <1>6 DEF Restart
  <2>3. OwnerFounded'
    BY <2>1 DEF OwnerFounded, Exists, Seeded
  <2>4. \A v \in Users : assigned[v] \subseteq Seeded(v) /\ Seeded(v) \subseteq assigned[v] \cup {Mapped(users[v].legacy)}
    BY DEF Seeded, DriftBounded, OwnerFounded
  <2>5. DriftBounded'
    BY <2>1, <2>2, <2>4 DEF DriftBounded, Mapped
  <2> QED BY <2>3, <2>5
<1>7. ASSUME NEW h \in Handlers, HandlerStep(h) PROVE OwnerFounded' /\ DriftBounded'
  BY <1>7, <1>c, <1>1, <1>2, <1>4, <1>5
  DEF HandlerStep, SetupCheck, OpenSession, Admit, OtherRequest, RefuseConfirmation, Logout, AcceptRisk, Confirm, UseGrant
<1> QED
  BY <1>c, <1>3, <1>6, <1>7 DEF Next, RefuseExpired, Advance, vars

-----------------------------------------------------------------------------
(* Confirmations.  One that has not been taken out of the dictionary       *)
(* serves nobody yet; one that has serves the request that took it.        *)
Accepts(h, g) == job[h].pc = "accept" /\ job[h].grant = g

GrantsHeld ==
    \A g \in Grants :
        /\ grants[g].state # "spent" =>
             /\ accepted[g] = <<>>
             /\ \A h \in Handlers : ~Accepts(h, g)
        /\ \A h \in Handlers : Accepts(h, g) =>
             /\ accepted[g] = <<>>
             /\ job[h].user = grants[g].user /\ grants[g].purpose = "accept-risk"
        /\ \A h, k \in Handlers : Accepts(h, g) /\ Accepts(k, g) => h = k

GrantInv == GrantsHeld /\ ConfirmedOnce

LEMMA StepGrants ==
  ASSUME TypeOK, TypeOK', Held, GrantInv, [Next]_vars
  PROVE  GrantInv'
<1>h. /\ job \in [Handlers -> JobType] /\ job' \in [Handlers -> JobType]
      /\ grants \in [Grants -> GrantType] /\ accepted \in [Grants -> Seq(Users)]
      /\ \A h \in Handlers : job[h] \in JobType
  BY DEF TypeOK
<1>a. Idle.pc = "idle"
  BY DEF Idle
<1> USE DEF historyVars
(* Requests that are no acceptances come and go. *)
<1>b. ASSUME UNCHANGED <<grants, accepted>>,
             \A h \in Handlers : job'[h] = job[h] \/ job'[h].pc # "accept"
      PROVE  GrantInv'
  BY <1>b DEF GrantInv, GrantsHeld, ConfirmedOnce, Accepts
<1>1. ASSUME NEW h \in Handlers, NEW g \in Grants, NEW p \in Purposes, Confirm(h, g, p) PROVE GrantInv'
  <2>1. \A k \in Grants \ {g} : grants'[k] = grants[k]
    BY <1>1, <1>h DEF Confirm
  <2>2. grants[g].state = "unused" /\ UNCHANGED accepted
    BY <1>1 DEF Confirm
  <2>3. \A k \in Handlers : job'[k] = job[k] \/ job'[k].pc = "idle"
    BY <1>1, <1>h, <1>a DEF Confirm, Finish
  <2>4. \A k \in Handlers, x \in Grants : Accepts(k, x)' => Accepts(k, x)
    BY <2>3 DEF Accepts
  <2>5. \A k \in Handlers, x \in Grants : Accepts(k, x)' => job'[k] = job[k]
    BY <2>3 DEF Accepts
  <2>6. accepted[g] = <<>> /\ \A k \in Handlers : ~Accepts(k, g)
    BY <2>2 DEF GrantInv, GrantsHeld
  <2>7. GrantsHeld'
    BY <2>1, <2>2, <2>4, <2>5, <2>6 DEF GrantInv, GrantsHeld
  <2>8. ConfirmedOnce'
    BY <2>1, <2>2, <2>6 DEF GrantInv, ConfirmedOnce
  <2> QED BY <2>7, <2>8 DEF GrantInv
<1>2. ASSUME NEW h \in Handlers, NEW g \in Grants, UseGrant(h, g) PROVE GrantInv'
  <2>1. \A k \in Grants \ {g} : grants'[k] = grants[k]
    BY <1>2, <1>h DEF UseGrant, Without
  <2>2. /\ grants[g].state = "held" /\ UNCHANGED accepted /\ job[h].pc = "admitted"
        /\ grants'[g].state = "spent"
        /\ grants'[g].user = grants[g].user /\ grants'[g].purpose = grants[g].purpose
    BY <1>2, <1>h DEF UseGrant, Without, GrantType
  <2>3. \A k \in Handlers \ {h} : job'[k] = job[k]
    BY <1>2, <1>h DEF UseGrant
  <2>4. \/ job'[h].pc = "idle"
        \/ /\ job'[h].pc = "accept" /\ job'[h].grant = g /\ job'[h].user = job[h].user
           /\ Valid(h, g)
    <3>1. CASE Valid(h, g)
      <4> DEFINE x == [job[h] EXCEPT !.pc = "accept", !.grant = g]
      <4>1. job'[h] = x
        BY <1>2, <1>h, <3>1 DEF UseGrant
      <4>2. job[h] \in JobType
        BY <1>h
      <4>3. x.pc = "accept" /\ x.grant = g /\ x.user = job[h].user
        BY <4>2, Granted
      <4> HIDE DEF x
      <4> QED BY <3>1, <4>1, <4>3
    <3>2. CASE ~Valid(h, g)
      BY <1>2, <1>h, <1>a, <3>2 DEF UseGrant
    <3> QED BY <3>1, <3>2
  <2>5. accepted[g] = <<>> /\ \A k \in Handlers : ~Accepts(k, g)
    BY <2>2 DEF GrantInv, GrantsHeld
  <2>6. \A k \in Handlers, x \in Grants \ {g} : Accepts(k, x)' => Accepts(k, x) /\ job'[k] = job[k]
    BY <2>3, <2>4 DEF Accepts
  <2>7. \A k \in Handlers : Accepts(k, g)' => k = h /\ job'[k].user = job[h].user /\ Valid(h, g)
    BY <2>3, <2>4, <2>5 DEF Accepts
  <2>8. GrantsHeld'
    BY <2>1, <2>2, <2>5, <2>6, <2>7 DEF GrantInv, GrantsHeld, Valid
  <2>9. ConfirmedOnce'
    BY <2>1, <2>2 DEF GrantInv, ConfirmedOnce
  <2> QED BY <2>8, <2>9 DEF GrantInv
<1>3. ASSUME NEW h \in Handlers, AcceptRisk(h) PROVE GrantInv'
  <2>a. PICK g \in Grants : g = job[h].grant
    BY <1>3 DEF AcceptRisk, Held
  <2>1. g \in Grants /\ job[h].user \in Users /\ Accepts(h, g) /\ UNCHANGED grants
    BY <1>3, <2>a DEF AcceptRisk, Held, Accepts
  <2>2. /\ \A k \in Handlers \ {h} : job'[k] = job[k]
        /\ job'[h].pc = "idle"
    BY <1>3, <1>h, <1>a DEF AcceptRisk, Finish
  <2>3. \A k \in Handlers, x \in Grants : Accepts(k, x)' => k # h /\ Accepts(k, x) /\ job'[k] = job[k]
    BY <2>2 DEF Accepts
  <2>4. \A k \in Handlers : ~Accepts(k, g)'
    BY <2>1, <2>3 DEF GrantInv, GrantsHeld
  <2>5. \A x \in Grants \ {g} : accepted'[x] = accepted[x]
    BY <1>3, <1>h, <2>a DEF AcceptRisk
  <2>6. grants[g].state = "spent" /\ job[h].user = grants[g].user /\ grants[g].purpose = "accept-risk"
        /\ accepted[g] = <<>>
    BY <2>1 DEF GrantInv, GrantsHeld
  <2>7. accepted'[g] = <<>> \/ accepted'[g] = Append(<<>>, job[h].user)
    BY <1>3, <1>h, <2>a, <2>1, <2>6 DEF AcceptRisk
  <2>8. GrantsHeld'
    BY <2>1, <2>3, <2>4, <2>5, <2>6 DEF GrantInv, GrantsHeld
  <2>9. /\ Len(accepted'[g]) <= 1
        /\ \A i \in DOMAIN accepted'[g] : accepted'[g][i] = job[h].user
    <3>1. CASE accepted'[g] = <<>>
      BY <3>1
    <3>2. CASE accepted'[g] = Append(<<>>, job[h].user)
      BY <3>2
    <3> QED BY <2>7, <3>1, <3>2
  <2>10. ConfirmedOnce'
    BY <2>1, <2>5, <2>6, <2>9 DEF GrantInv, ConfirmedOnce
  <2> QED BY <2>8, <2>10 DEF GrantInv
<1>4. CASE Restart
  <2>1. \A h \in Handlers : job'[h].pc = "idle"
    BY <1>4, <1>a DEF Restart
  <2>2. \A g \in Grants : /\ grants'[g].user = grants[g].user
                          /\ grants'[g].purpose = grants[g].purpose
                          /\ grants'[g].state # "spent" => grants[g].state # "spent"
    <3>1. \A g \in Grants : \/ grants'[g] = grants[g]
                            \/ grants'[g] = [grants[g] EXCEPT !.state = "spent", !.until = 0]
      BY <1>4 DEF Restart
    <3>2. \A g \in Grants : LET y == [grants[g] EXCEPT !.state = "spent", !.until = 0]
                            IN  /\ y.user = grants[g].user /\ y.purpose = grants[g].purpose
                                /\ y.state = "spent"
      BY <1>h DEF GrantType
    <3> QED BY <3>1, <3>2
  <2>3. UNCHANGED accepted
    BY <1>4 DEF Restart
  <2> QED BY <2>1, <2>2, <2>3 DEF GrantInv, GrantsHeld, ConfirmedOnce, Accepts
<1>5. ASSUME NEW h \in Handlers, HandlerStep(h) PROVE GrantInv'
  <2>1. ASSUME NEW x, x.pc # "accept", job' = [job EXCEPT ![h] = x], UNCHANGED <<grants, accepted>>
        PROVE GrantInv'
    BY <1>b, <1>h, <2>1
  <2>2. ASSUME Finish(h), UNCHANGED <<grants, accepted>> PROVE GrantInv'
    BY <2>1, <2>2, <1>a DEF Finish
  <2>3. CASE SetupCheck(h)
    <3>1. [job[h] EXCEPT !.pc = "setup"].pc = "setup"
      BY <1>h DEF JobType
    <3> QED BY <2>1, <2>3, <3>1 DEF SetupCheck
  <2>4. ASSUME NEW u \in Users, SetupCreate(h, u) PROVE GrantInv'
    <3>1. [Idle EXCEPT !.pc = "login", !.user = u].pc = "login"
      BY DEF Idle
    <3>2. \/ job' = [job EXCEPT ![h] = Idle]
          \/ job' = [job EXCEPT ![h] = [Idle EXCEPT !.pc = "login", !.user = u]]
      BY <2>4 DEF SetupCreate
    <3>3. UNCHANGED <<grants, accepted>>
      BY <2>4 DEF SetupCreate
    <3> QED BY <2>1, <3>1, <3>2, <3>3, <1>a
  <2>5. ASSUME NEW u \in Users, RightPassword(h, u) PROVE GrantInv'
    <3>1. [Idle EXCEPT !.pc = "login", !.user = u].pc = "login"
      BY DEF Idle
    <3> QED BY <2>1, <2>5, <3>1 DEF RightPassword
  <2>6. ASSUME NEW t \in Tokens, OpenSession(h, t) PROVE GrantInv'
    BY <2>6, <2>1, <1>a DEF OpenSession
  <2>7. ASSUME NEW t \in Tokens, Admit(h, t) PROVE GrantInv'
    <3> DEFINE x == [Idle EXCEPT !.pc = "admitted", !.user = sessions[t].user, !.token = t,
                                 !.roles = users[sessions[t].user].roles]
    <3>1. x.pc = "admitted"
      BY DEF Idle
    <3>2. job' = [job EXCEPT ![h] = x] /\ UNCHANGED <<grants, accepted>>
      BY <2>7 DEF Admit
    <3> HIDE DEF x
    <3> QED BY <2>1, <3>1, <3>2
  <2> QED
    BY <1>5, <1>1, <1>2, <1>3, <2>2, <2>3, <2>4, <2>5, <2>6, <2>7
    DEF HandlerStep, OtherRequest, RefuseConfirmation, Logout, CreateUser, UpdateRoles
<1> QED
  BY <1>b, <1>4, <1>5 DEF Next, WrongPassword, RefuseExpired, Advance, vars

-----------------------------------------------------------------------------
(* Wrong passwords.  The counter counts the last ones, all of them from    *)
(* the first one of the window on and none later than the window's end.    *)
Counting(u) ==
    LET n == Len(wrong[u])
        k == users[u].failed
    IN  /\ users[u].first = Null => k = 0
        /\ users[u].first # Null =>
             /\ k \in 1 .. n /\ users[u].first <= now
             /\ wrong[u][n] <= users[u].first + Window
             /\ \A i \in (n - k + 1) .. n : users[u].first <= wrong[u][i]
        /\ users[u].locked # Null => users[u].first # Null /\ k >= MaxFailures

Counts == \A u \in Users : Counting(u)

LEMMA CountsSuffice == TypeOK /\ Counts => LockEarned
<1> SUFFICES ASSUME TypeOK, Counts, NEW u \in Users, users[u].locked # Null
             PROVE  /\ Len(wrong[u]) >= MaxFailures
                    /\ wrong[u][Len(wrong[u])] - wrong[u][Len(wrong[u]) - MaxFailures + 1] <= Window
  BY DEF LockEarned
<1>1. /\ wrong[u] \in Seq(Nat) /\ Len(wrong[u]) \in Nat
      /\ users[u].first \in Nat \cup {Null} /\ users[u].failed \in Nat
  BY DEF TypeOK, UserType, Time
<1>2. \A i \in 1 .. Len(wrong[u]) : wrong[u][i] \in Nat
  BY <1>1
<1>3. Counting(u)
  BY DEF Counts
<1> DEFINE n == Len(wrong[u])
           f == users[u].first
<1>4. /\ f \in Nat /\ users[u].failed \in MaxFailures .. n
      /\ wrong[u][n] <= f + Window
      /\ \A i \in (n - users[u].failed + 1) .. n : f <= wrong[u][i]
  BY <1>1, <1>3 DEF Counting
<1>5. (n - MaxFailures + 1) \in (n - users[u].failed + 1) .. n /\ (n - MaxFailures + 1) \in 1 .. n
  <2> DEFINE k == users[u].failed
  <2>1. n \in Nat /\ k \in Nat /\ MaxFailures <= k /\ k <= n /\ MaxFailures \in Nat /\ MaxFailures >= 1
    BY <1>1, <1>4
  <2> HIDE DEF n, k
  <2>2. (n - MaxFailures + 1) \in (n - k + 1) .. n /\ (n - MaxFailures + 1) \in 1 .. n
    BY <2>1
  <2> QED BY <2>2 DEF n, k
<1>6. f <= wrong[u][n - MaxFailures + 1] /\ wrong[u][n - MaxFailures + 1] \in Nat
  BY <1>2, <1>4, <1>5
<1>7. wrong[u][n] \in Nat /\ n >= MaxFailures
  BY <1>1, <1>2, <1>4
<1>8. ASSUME NEW a \in Nat, NEW b \in Nat, NEW c \in Nat, a <= c + Window, c <= b
      PROVE  a - b <= Window
  BY <1>8
<1> QED
  <2>1. wrong[u][n] - wrong[u][n - MaxFailures + 1] <= Window
    BY <1>4, <1>6, <1>7, <1>8
  <2> QED BY <1>7, <2>1

(* What a step does to the counting of a user's wrong passwords: nothing,  *)
(* or it begins again, or it goes on.                                      *)
Undisturbed(u) ==
    /\ wrong'[u] = wrong[u]
    /\ users'[u].failed = users[u].failed /\ users'[u].first = users[u].first
    /\ users'[u].locked = users[u].locked

Cleared(u) ==
    /\ users'[u].failed = 0 /\ users'[u].first = Null /\ users'[u].locked = Null
    /\ wrong'[u] = <<>> \/ (~Exists(u) /\ wrong'[u] = wrong[u])

CountedAgain(u) ==
    /\ Exists(u) /\ ~Locked(u) /\ now' = now
    /\ wrong'[u] = Append(wrong[u], now)
    /\ users'[u].failed = Failures(u) /\ users'[u].locked = LockFrom(Failures(u))
    /\ users'[u].first = IF WindowOver(u) THEN now ELSE users[u].first

LEMMA PasswordSteps ==
  ASSUME TypeOK, [Next]_vars
  PROVE  /\ now' \in {now, now + 1}
         /\ \A u \in Users : Undisturbed(u) \/ Cleared(u) \/ CountedAgain(u)
<1>h. /\ users \in [Users -> UserType] /\ \A u \in Users : users[u] \in UserType
      /\ wrong \in [Users -> Seq(Nat)]
  BY DEF TypeOK, Time
<1> USE DEF historyVars
<1> DEFINE Goal == /\ now' \in {now, now + 1}
                   /\ \A u \in Users : Undisturbed(u) \/ Cleared(u) \/ CountedAgain(u)
<1>a. ASSUME UNCHANGED <<users, wrong>>, now' \in {now, now + 1} PROVE Goal
  BY <1>a DEF Undisturbed
<1>b. ASSUME NEW u \in Users, NEW legacy \in {"admin", "reviewer"}, NEW R \in SUBSET Roles,
             users' = [users EXCEPT ![u] = NewUser(legacy, R)], UNCHANGED <<now, wrong>>, ~Exists(u)
      PROVE  Goal
  <2>1. users'[u] = NewUser(legacy, R) /\ \A v \in Users \ {u} : users'[v] = users[v]
    BY <1>b, <1>h
  <2>2. Cleared(u)
    BY <1>b, <2>1, Created DEF Cleared
  <2> QED BY <1>b, <2>1, <2>2 DEF Undisturbed
<1>1. ASSUME NEW h \in Handlers, NEW u \in Users, SetupCreate(h, u) PROVE Goal
  <2>1. CASE Exists(u)
    BY <1>1, <1>a, <2>1 DEF SetupCreate
  <2>2. CASE ~Exists(u)
    <3>1. users' = [users EXCEPT ![u] = NewUser("admin", {"owner"})] /\ UNCHANGED <<now, wrong>>
      BY <1>1, <2>2 DEF SetupCreate
    <3>2. {"owner"} \in SUBSET Roles
      OBVIOUS
    <3> QED BY <1>b, <2>2, <3>1, <3>2
  <2> QED BY <2>1, <2>2
<1>2. ASSUME NEW h \in Handlers, NEW u \in Users, RightPassword(h, u) PROVE Goal
  <2>1. users'[u].failed = 0 /\ users'[u].first = Null /\ users'[u].locked = Null /\ wrong'[u] = <<>>
    BY <1>2, <1>h DEF RightPassword, UserType
  <2>2. \A v \in Users \ {u} : users'[v] = users[v] /\ wrong'[v] = wrong[v]
    BY <1>2, <1>h DEF RightPassword
  <2>3. now' = now
    BY <1>2 DEF RightPassword
  <2> QED BY <2>1, <2>2, <2>3 DEF Cleared, Undisturbed
<1>3. ASSUME NEW u \in Users, WrongPassword(u) PROVE Goal
  <2>1. \A v \in Users \ {u} : users'[v] = users[v] /\ wrong'[v] = wrong[v]
    BY <1>3, <1>h DEF WrongPassword
  <2>2. CountedAgain(u)
    BY <1>3, <1>h DEF WrongPassword, UserType, CountedAgain
  <2>3. now' = now
    BY <1>3 DEF WrongPassword
  <2> QED BY <2>1, <2>2, <2>3 DEF Undisturbed
<1>4. ASSUME NEW h \in Handlers, NEW u \in Users, NEW r \in Roles, CreateUser(h, u, r) PROVE Goal
  <2> DEFINE legacy == IF r = "owner" THEN "admin" ELSE "reviewer"
  <2>1. users' = [users EXCEPT ![u] = NewUser(legacy, {r})] /\ UNCHANGED <<now, wrong>>
        /\ legacy \in {"admin", "reviewer"} /\ {r} \in SUBSET Roles /\ ~Exists(u)
    BY <1>4 DEF CreateUser
  <2> HIDE DEF legacy
  <2> QED BY <1>b, <2>1
<1>5. ASSUME NEW h \in Handlers, NEW u \in Users, NEW R \in RoleSets, UpdateRoles(h, u, R) PROVE Goal
  <2>1. \A v \in Users : /\ users'[v].failed = users[v].failed /\ users'[v].first = users[v].first
                         /\ users'[v].locked = users[v].locked
    BY <1>5, <1>h DEF UpdateRoles, UserType
  <2>2. UNCHANGED <<now, wrong>>
    BY <1>5 DEF UpdateRoles
  <2> QED BY <2>1, <2>2 DEF Undisturbed
<1>6. ASSUME Restart PROVE Goal
  <2>1. \A v \in Users : users'[v] = [users[v] EXCEPT !.roles = Seeded(v)]
    BY <1>6 DEF Restart
  <2>2. \A v \in Users : /\ users'[v].failed = users[v].failed /\ users'[v].first = users[v].first
                         /\ users'[v].locked = users[v].locked
    <3>1. \A v \in Users : /\ [users[v] EXCEPT !.roles = Seeded(v)].failed = users[v].failed
                           /\ [users[v] EXCEPT !.roles = Seeded(v)].first = users[v].first
                           /\ [users[v] EXCEPT !.roles = Seeded(v)].locked = users[v].locked
      BY <1>h DEF UserType
    <3> QED BY <2>1, <3>1
  <2>3. UNCHANGED <<now, wrong>>
    BY <1>6 DEF Restart
  <2> QED BY <2>2, <2>3 DEF Undisturbed
<1> HIDE DEF Goal
<1>7. ASSUME UNCHANGED <<users, wrong, now>> PROVE Goal
  BY <1>7, <1>a
<1>8. ASSUME NEW h \in Handlers, HandlerStep(h) PROVE Goal
  BY <1>8, <1>7, <1>1, <1>2, <1>4, <1>5
  DEF HandlerStep, SetupCheck, OpenSession, Admit, OtherRequest, RefuseConfirmation, Logout, AcceptRisk, Confirm, UseGrant
<1>9. ASSUME Advance PROVE Goal
  BY <1>9, <1>a DEF Advance
<1>10. Goal
  BY <1>3, <1>6, <1>7, <1>8, <1>9 DEF Next, RefuseExpired, vars
<1> QED BY <1>10 DEF Goal

LEMMA StepCounts ==
  ASSUME TypeOK, Counts, [Next]_vars
  PROVE  Counts'
<1>h. /\ \A u \in Users : users[u] \in UserType
      /\ wrong \in [Users -> Seq(Nat)] /\ now \in Nat
  BY DEF TypeOK, Time
<1>n. now' \in Nat /\ now' >= now
  BY <1>h, PasswordSteps
<1>1. SUFFICES ASSUME NEW u \in Users PROVE Counting(u)'
  BY DEF Counts
<1>2. CASE Undisturbed(u)
  <2>1. Counting(u) /\ users[u].first \in Nat \cup {Null}
    BY <1>h DEF Counts, UserType, Time
  <2> QED BY <1>2, <1>h, <1>n, <2>1 DEF Counting, Undisturbed
<1>3. CASE Cleared(u)
  BY <1>3 DEF Counting, Cleared
<1>4. CASE CountedAgain(u)
  <2> DEFINE w == wrong[u]
             n == Len(w)
             k == users[u].failed
             f == users[u].first
  <2>3. /\ wrong'[u] = Append(w, now)
        /\ users'[u].failed = Failures(u) /\ users'[u].locked = LockFrom(Failures(u))
        /\ users'[u].first = IF WindowOver(u) THEN now ELSE f
        /\ now' = now
    BY <1>4 DEF CountedAgain
  <2>4. w \in Seq(Nat) /\ n \in Nat /\ k \in Nat /\ f \in Nat \cup {Null}
    BY <1>h DEF UserType, Time
  <2>5. /\ Len(Append(w, now)) = n + 1 /\ Append(w, now)[n + 1] = now
        /\ \A i \in 1 .. n : Append(w, now)[i] = w[i]
    BY <2>4, <1>h
  <2>6. Counting(u)
    BY DEF Counts
  <2>7. CASE WindowOver(u)
    <3>1. users'[u].failed = 1 /\ users'[u].first = now
      BY <2>3, <2>7 DEF Failures
    <3>2. users'[u].locked # Null => 1 >= MaxFailures
      BY <2>3, <2>7 DEF Failures, LockFrom
    <3>3. Counting(u)'
      BY <1>h, <2>3, <2>4, <2>5, <3>1, <3>2 DEF Counting
    <3> QED BY <3>3
  <2>8. CASE ~WindowOver(u)
    <3>1. f \in Nat /\ now - f <= Window
      BY <2>4, <2>8, <1>h DEF WindowOver
    <3>2. users'[u].failed = k + 1 /\ users'[u].first = f
      BY <2>3, <2>8 DEF Failures
    <3>3. users'[u].locked # Null => k + 1 >= MaxFailures
      BY <2>3, <2>8 DEF Failures, LockFrom
    <3>4. /\ k \in 1 .. n /\ f <= now
          /\ \A i \in (n - k + 1) .. n : f <= w[i]
      BY <2>4, <2>6, <3>1 DEF Counting
    <3>5. \A i \in ((n + 1) - (k + 1) + 1) .. (n + 1) : f <= Append(w, now)[i]
      <4>1. SUFFICES ASSUME NEW i \in ((n + 1) - (k + 1) + 1) .. (n + 1)
                     PROVE  f <= Append(w, now)[i]
        OBVIOUS
      <4>2. CASE i = n + 1
        BY <2>5, <3>4, <4>2
      <4>3. CASE i # n + 1
        <5>1. i \in (n - k + 1) .. n /\ i \in 1 .. n
          BY <2>4, <3>4, <4>3
        <5> QED BY <2>5, <3>4, <5>1
      <4> QED BY <4>2, <4>3
    <3>6. now <= f + Window /\ f # Null /\ k + 1 \in 1 .. (n + 1)
      BY <1>h, <2>4, <3>1, <3>4
    <3> HIDE DEF w, n, k, f
    <3>7. Counting(u)'
      BY <2>3, <2>5, <3>2, <3>3, <3>4, <3>5, <3>6 DEF Counting
    <3> QED BY <3>7
  <2> QED BY <2>7, <2>8
<1> QED BY <1>1, <1>2, <1>3, <1>4, PasswordSteps

-----------------------------------------------------------------------------
(* The inductive invariant and what follows from it.                       *)
IInv ==
    /\ TypeOK
    /\ Held
    /\ SessionTimes /\ EndedGone
    /\ OwnerFounded /\ DriftBounded
    /\ GrantInv
    /\ Counts

(* The strengthened invariant of accounts, sessions and confirmations: it  *)
(* holds when the database is new and every request, failure, restart and  *)
(* tick of the clock preserves it.                                         *)
THEOREM InductiveInvariant == Spec => []IInv
<1>1. Init => IInv
  <2> SUFFICES ASSUME Init PROVE IInv
    OBVIOUS
  <2>1. TypeOK /\ Held
    BY InitType
  <2>2. SessionTimes /\ EndedGone
    BY DEF Init, Unused, SessionTimes, EndedGone
  <2>3. OwnerFounded /\ DriftBounded
    BY DEF Init, Absent, OwnerFounded, DriftBounded, Exists
  <2>4. GrantInv
    BY DEF Init, Idle, NoGrant, GrantInv, GrantsHeld, ConfirmedOnce, Accepts
  <2>5. Counts
    BY DEF Init, Absent, Counts, Counting
  <2> QED BY <2>1, <2>2, <2>3, <2>4, <2>5 DEF IInv
<1>2. IInv /\ [Next]_vars => IInv'
  <2> SUFFICES ASSUME IInv, [Next]_vars PROVE IInv'
    OBVIOUS
  <2>1. TypeOK' /\ Held'
    BY StepType, StepHeld DEF IInv
  <2> QED BY <2>1, StepSessions, StepRoles, StepGrants, StepCounts DEF IInv
<1> QED BY <1>1, <1>2, PTL DEF Spec

(* Users, sessions, confirmations and requests keep their types. *)
THEOREM TypeCorrect == Spec => []TypeOK
<1>1. IInv => TypeOK
  BY DEF IInv
<1> QED BY <1>1, InductiveInvariant, PTL

(* authenticate locks an account only after MaxFailures wrong passwords in *)
(* a row within one window.                                                *)
THEOREM LocksAreEarned == Spec => []LockEarned
<1>1. IInv => LockEarned
  BY CountsSuffice DEF IInv
<1> QED BY <1>1, InductiveInvariant, PTL

(* Restarts take no role away, and add at most the one of the legacy       *)
(* column (_seed_rbac).                                                    *)
THEOREM RolesDriftBounded == Spec => []DriftBounded
<1>1. IInv => DriftBounded
  BY DEF IInv
<1> QED BY <1>1, InductiveInvariant, PTL

(* A password confirmation serves at most one acceptance of a risk, of the *)
(* user who confirmed (consume_step_up_grant, update_finding).             *)
THEOREM OneUsePerConfirmation == Spec => []ConfirmedOnce
<1>1. IInv => ConfirmedOnce
  BY DEF IInv, GrantInv
<1> QED BY <1>1, InductiveInvariant, PTL

(* Only a step of current_user admits a request. *)
LEMMA AdmittedBy ==
  ASSUME TypeOK, [Next]_vars, NEW h \in Handlers, Admitted(h)
  PROVE  \E t \in Tokens : Admit(h, t) /\ job'[h].token = t
<1>h. job \in [Handlers -> JobType] /\ \A k \in Handlers : job[k] \in JobType
  BY DEF TypeOK
<1>i. Idle.pc = "idle"
  BY DEF Idle
<1>a. job[h].pc = "idle" /\ job'[h].pc = "admitted"
  BY DEF Admitted
<1>1. ASSUME NEW k \in Handlers, HandlerStep(k)
      PROVE  \E t \in Tokens : Admit(h, t) /\ job'[h].token = t
  <2>1. ASSUME NEW x, job' = [job EXCEPT ![k] = x], x.pc # "admitted" PROVE FALSE
    BY <1>h, <1>a, <2>1
  <2>2. ~Finish(k)
    BY <2>1, <1>i DEF Finish
  <2>3. [job[k] EXCEPT !.pc = "setup"].pc = "setup"
    BY <1>h DEF JobType
  <2>4. \A u \in Users : [Idle EXCEPT !.pc = "login", !.user = u].pc = "login"
    BY DEF Idle
  <2>5. ~SetupCheck(k)
    BY <2>1, <2>3 DEF SetupCheck
  <2>6. \A u \in Users : ~SetupCreate(k, u)
    <3> SUFFICES ASSUME NEW u \in Users, SetupCreate(k, u) PROVE FALSE
      OBVIOUS
    <3>1. \/ job' = [job EXCEPT ![k] = Idle]
          \/ job' = [job EXCEPT ![k] = [Idle EXCEPT !.pc = "login", !.user = u]]
      BY DEF SetupCreate
    <3> QED BY <3>1, <2>1, <2>4, <1>i
  <2>7. \A u \in Users : ~RightPassword(k, u)
    BY <2>1, <2>4 DEF RightPassword
  <2>8. \A t \in Tokens : ~OpenSession(k, t)
    BY <2>1, <1>i DEF OpenSession
  <2>9. \A g \in Grants : ~UseGrant(k, g)
    <3> SUFFICES ASSUME NEW g \in Grants, UseGrant(k, g) PROVE FALSE
      OBVIOUS
    <3> DEFINE x == [job[k] EXCEPT !.pc = "accept", !.grant = g]
    <3>1. x.pc = "accept"
      BY <1>h, Granted
    <3>2. job' = [job EXCEPT ![k] = Idle] \/ job' = [job EXCEPT ![k] = x]
      BY DEF UseGrant
    <3> HIDE DEF x
    <3> QED BY <3>1, <3>2, <2>1, <1>i
  <2>10. PICK t \in Tokens : Admit(k, t)
    BY <1>1, <2>2, <2>5, <2>6, <2>7, <2>8, <2>9
    DEF HandlerStep, OtherRequest, RefuseConfirmation, Logout, AcceptRisk, CreateUser, UpdateRoles, Confirm
  <2>11. k = h
    BY <1>a, <1>h, <2>10 DEF Admit
  <2> DEFINE x == [Idle EXCEPT !.pc = "admitted", !.user = sessions[t].user, !.token = t,
                               !.roles = users[sessions[t].user].roles]
  <2>12. x.token = t
    BY DEF Idle
  <2>13. job' = [job EXCEPT ![h] = x]
    BY <2>10, <2>11 DEF Admit
  <2> HIDE DEF x
  <2>14. job'[h].token = t
    BY <1>h, <2>12, <2>13
  <2> QED BY <2>10, <2>11, <2>14
<1>2. CASE UNCHANGED job
  BY <1>2, <1>a
<1>3. CASE Restart
  <2>1. job'[h] = Idle
    BY <1>3 DEF Restart
  <2> QED BY <2>1, <1>a, <1>i
<1> QED
  BY <1>1, <1>2, <1>3 DEF Next, WrongPassword, RefuseExpired, Advance, vars

(* No request is admitted on a session that was idle too long or is too    *)
(* old (get_user_from_token).                                              *)
THEOREM ExpiryHolds == Spec => SessionsExpire
<1>1. IInv /\ [Next]_vars =>
        [\A h \in Handlers : Admitted(h) =>
            LET s == sessions[job'[h].token]
            IN  now < s.seen + IdleFor /\ now < s.created + AbsoluteFor]_vars
  <2> SUFFICES ASSUME IInv, [Next]_vars, NEW h \in Handlers, Admitted(h)
               PROVE  LET s == sessions[job'[h].token]
                      IN  now < s.seen + IdleFor /\ now < s.created + AbsoluteFor
    OBVIOUS
  <2>1. PICK t \in Tokens : Admit(h, t) /\ job'[h].token = t
    BY AdmittedBy DEF IInv
  <2>2. sessions[t] \in SessionType /\ now \in Nat
    BY DEF IInv, TypeOK, Time
  <2>3. sessions[t].state = "live" /\ ~(sessions[t].idle <= now) /\ ~(sessions[t].absolute <= now)
    BY <2>1 DEF Admit, Current, Expired
  <2>4. /\ sessions[t].idle <= sessions[t].seen + IdleFor
        /\ sessions[t].absolute = sessions[t].created + AbsoluteFor
    BY <2>3 DEF IInv, SessionTimes
  <2> QED BY <2>1, <2>2, <2>3, <2>4 DEF SessionType, Time
<1> QED BY <1>1, InductiveInvariant, PTL DEF Spec, SessionsExpire

(* A session that a logout or a change of roles ended admits no request    *)
(* again.                                                                  *)
THEOREM EndedForGood == Spec => RevocationLasts
<1>1. IInv /\ [Next]_vars =>
        [\A h \in Handlers : Admitted(h) => job'[h].token \notin ended]_vars
  <2> SUFFICES ASSUME IInv, [Next]_vars, NEW h \in Handlers, Admitted(h)
               PROVE  job'[h].token \notin ended
    OBVIOUS
  <2>1. PICK t \in Tokens : Admit(h, t) /\ job'[h].token = t
    BY AdmittedBy DEF IInv
  <2> QED BY <2>1 DEF IInv, EndedGone, Admit, Current
<1> QED BY <1>1, InductiveInvariant, PTL DEF Spec, RevocationLasts

(* A restart finds an owner as soon as there are users, even if the last   *)
(* owner has given the role away (_seed_rbac).                             *)
THEOREM OwnerFound == Spec => OwnerAtStartup
<1>1. IInv /\ [Next]_vars =>
        [Restart /\ ~SetupRequired => \E u \in Users : "owner" \in users'[u].roles]_vars
  <2> SUFFICES ASSUME IInv, Restart, ~SetupRequired
               PROVE  \E u \in Users : "owner" \in users'[u].roles
    OBVIOUS
  <2>1. PICK u \in Users : users[u].legacy = "admin"
    BY DEF SetupRequired, IInv, OwnerFounded
  <2>2. users[u] \in UserType
    BY DEF IInv, TypeOK
  <2>3. "owner" \in Seeded(u)
    BY <2>1 DEF Seeded, Mapped, Exists
  <2>4. users'[u] = [users[u] EXCEPT !.roles = Seeded(u)]
    BY DEF Restart
  <2>5. users'[u].roles = Seeded(u)
    BY <2>2, <2>4 DEF UserType
  <2> QED BY <2>3, <2>5
<1> QED BY <1>1, InductiveInvariant, PTL DEF Spec, OwnerAtStartup

-----------------------------------------------------------------------------
(* How many passwords can be tried.                                        *)

(* The present window and the one before it: where each begins, how many   *)
(* it counts, and the locks between.  A window holds one guess more than   *)
(* MaxFailures when a lock ends in the very moment in which it does.       *)
Began(w, k) == Len(w) - k + 1

Before(w, p, b) ==
    /\ p \in 1 .. b - 1 /\ b - p <= MaxFailures + 1
    /\ w[p] + Window < w[b]
    /\ b - p >= MaxFailures => w[b - 1] + Lockout <= w[b]
    /\ b - p = MaxFailures + 1 => w[b - 2] + Lockout <= w[b - 1]

Windowed(w, k, f, l) ==
    /\ f = Null => w = <<>>
    /\ f # Null =>
         /\ k \in 1 .. Len(w) /\ k <= MaxFailures + 1
         /\ w[Began(w, k)] = f
         /\ k >= MaxFailures => l # Null /\ w[Len(w)] + Lockout <= l
         /\ k = MaxFailures + 1 => w[Len(w) - 1] + Lockout <= w[Len(w)]
         /\ Began(w, k) > 1 => \E p \in 1 .. Len(w) : Before(w, p, Began(w, k))

Ordered(w, t) ==
    /\ \A i, j \in 1 .. Len(w) : i <= j => w[i] <= w[j]
    /\ \A i \in 1 .. Len(w) : w[i] <= t

Spread(w) ==
    \A i \in 1 .. Len(w) :
        i + 2 * MaxFailures - 1 <= Len(w) => w[i + 2 * MaxFailures - 1] - w[i] > Window

LEMMA WrongAgain ==
  ASSUME Lockout >= Window, MaxFailures > 1,
         NEW w \in Seq(Nat), NEW k \in Nat, NEW f \in Nat \cup {Null}, NEW l \in Nat \cup {Null},
         NEW t \in Nat, l = Null \/ l <= t,
         Ordered(w, t), Windowed(w, k, f, l), Spread(w),
         NEW k2 \in Nat, NEW f2 \in Nat, NEW l2 \in Nat \cup {Null},
         \/ (f = Null \/ t - f > Window) /\ k2 = 1 /\ f2 = t
         \/ f \in Nat /\ t - f <= Window /\ k2 = k + 1 /\ f2 = f,
         k2 >= MaxFailures => l2 = t + Lockout
  PROVE  LET v == Append(w, t) IN Ordered(v, t) /\ Windowed(v, k2, f2, l2) /\ Spread(v)
<1> DEFINE v == Append(w, t)
<1> DEFINE n == Len(w)
<1> DEFINE M == MaxFailures
<1>1. /\ n \in Nat /\ v \in Seq(Nat) /\ Len(v) = n + 1 /\ v[n + 1] = t
      /\ \A i \in 1 .. n : v[i] = w[i] /\ w[i] \in Nat /\ w[i] <= t
      /\ \A i, j \in 1 .. n : i <= j => w[i] <= w[j]
      /\ \A i \in 1 .. n : i + 2 * M - 1 <= n => w[i + 2 * M - 1] - w[i] > Window
  <2>1. /\ n \in Nat /\ v \in Seq(Nat) /\ Len(v) = n + 1 /\ v[n + 1] = t
        /\ \A i \in 1 .. n : v[i] = w[i] /\ w[i] \in Nat
    OBVIOUS
  <2> QED BY <2>1 DEF Ordered, Spread
<1>2. /\ M \in Nat /\ M > 1 /\ Lockout \in Nat /\ Lockout > 0 /\ Window \in Nat /\ Lockout >= Window
  OBVIOUS
<1>3. /\ f = Null => n = 0
      /\ f # Null =>
           /\ f \in Nat /\ k \in 1 .. n /\ k <= M + 1 /\ w[n - k + 1] = f
           /\ k >= M => w[n] + Lockout <= t
           /\ k = M + 1 => w[n - 1] + Lockout <= w[n]
           /\ n - k + 1 > 1 => \E p \in 1 .. n : Before(w, p, n - k + 1)
  <2>1. f = Null => n = 0
    BY DEF Windowed
  <2>2. ASSUME f # Null, k >= M  PROVE w[n] + Lockout <= t
    <3>1. l # Null /\ w[n] + Lockout <= l /\ n \in 1 .. n
      BY <1>1, <2>2 DEF Windowed
    <3>2. l \in Nat /\ l <= t /\ w[n] \in Nat
      BY <1>1, <3>1
    <3> QED BY <1>2, <3>1, <3>2
  <2> QED BY <2>1, <2>2 DEF Windowed, Began
<1> HIDE DEF v, n, M
<1>4. Ordered(v, t)
  <2>1. ASSUME NEW i \in 1 .. n + 1  PROVE v[i] <= t
    BY <1>1
  <2>2. ASSUME NEW i \in 1 .. n + 1, NEW j \in 1 .. n + 1, i <= j  PROVE v[i] <= v[j]
    <3>1. CASE j = n + 1
      BY <1>1, <2>1, <3>1
    <3>2. CASE j # n + 1
      <4>1. i \in 1 .. n /\ j \in 1 .. n
        BY <1>1, <2>2, <3>2
      <4>2. v[i] = w[i] /\ v[j] = w[j] /\ w[i] <= w[j]
        BY <1>1, <2>2, <4>1
      <4> QED BY <4>2
    <3> QED BY <3>1, <3>2
  <2> QED BY <1>1, <2>1, <2>2 DEF Ordered
(* It suffices to look at the stretch that ends with the new guess. *)
<1>5. ASSUME NEW i \in 1 .. n, i + 2 * M - 1 = n + 1 => t - w[i] > Window
      PROVE  i + 2 * M - 1 <= n + 1 => v[i + 2 * M - 1] - v[i] > Window
  <2>1. CASE i + 2 * M - 1 = n + 1
    BY <1>1, <1>5, <2>1
  <2>2. CASE i + 2 * M - 1 <= n
    <3>1. i + 2 * M - 1 \in 1 .. n
      BY <1>1, <1>2, <2>2
    <3> QED BY <1>1, <2>2, <3>1
  <2> QED BY <1>1, <1>2, <2>1, <2>2
<1>6. ASSUME \A i \in 1 .. n : i + 2 * M - 1 = n + 1 => t - w[i] > Window
      PROVE  Spread(v)
  <2>1. \A i \in 1 .. n : i + 2 * M - 1 <= n + 1 => v[i + 2 * M - 1] - v[i] > Window
    BY <1>5, <1>6
  <2>2. n + 1 + 2 * M - 1 > n + 1
    BY <1>1, <1>2
  <2>3. \A i \in 1 .. n + 1 : i + 2 * M - 1 <= n + 1 => i \in 1 .. n
    BY <1>1, <1>2
  <2> QED BY <1>1, <2>1, <2>3 DEF Spread, M
(* Sums of times. *)
<1>a. ASSUME NEW x \in Nat, NEW y \in Nat, NEW z \in Nat, x <= y, y + Window < z, z <= t
      PROVE  t - x > Window
  BY <1>a, <1>2
<1>c. ASSUME NEW x \in Nat, NEW y \in Nat, NEW z \in Nat, NEW u \in Nat,
             x <= y, y + Lockout <= z, z <= u, u + Lockout <= t
      PROVE  t - x > Window
  BY <1>c, <1>2
<1>d. ASSUME NEW x \in Nat, NEW y \in Nat, NEW z \in Nat, NEW u \in Nat,
             x <= y, y + Lockout <= z, z + Lockout <= u, u <= t
      PROVE  t - x > Window
  BY <1>d, <1>2
<1>7. CASE f = Null
  <2>1. n = 0 /\ k2 = 1 /\ f2 = t
    BY <1>3, <1>7
  <2>2. Windowed(v, k2, f2, l2)
    BY <1>1, <1>2, <2>1 DEF Windowed, Began, M
  <2>3. Spread(v)
    BY <1>6, <2>1
  <2> QED BY <1>4, <2>2, <2>3 DEF v
<1>8. CASE f # Null /\ k2 = 1 /\ f2 = t /\ t - f > Window
  <2> DEFINE b == n - k + 1
  <2>1. /\ b \in 1 .. n /\ w[b] = f /\ f \in Nat /\ k \in 1 .. n /\ k <= M + 1
        /\ n + 1 - b = k
    BY <1>1, <1>3, <1>8
  <2>2. Before(v, b, n + 1)
    <3>0. f + Window < t
      BY <1>2, <1>8, <2>1
    <3>1. v[b] = w[b] /\ v[b] + Window < v[n + 1] /\ b <= n
      <4>1. v[b] = f /\ v[n + 1] = t
        BY <1>1, <2>1
      <4>2. b <= n
        BY <1>1, <2>1
      <4> HIDE DEF b
      <4> QED BY <2>1, <3>0, <4>1, <4>2
    <3>2. k >= M => v[n] + Lockout <= v[n + 1]
      BY <1>1, <1>3, <1>8, <2>1
    <3>3. k = M + 1 => v[n - 1] + Lockout <= v[n]
      <4>1. k = M + 1 => n - 1 \in 1 .. n /\ n \in 1 .. n
        BY <1>1, <1>2, <2>1
      <4> QED BY <1>1, <1>3, <1>8, <4>1
    <3> DEFINE e == n + 1
    <3>4. e - 1 = n /\ e - 2 = n - 1 /\ b \in 1 .. e - 1 /\ e - b = k
      BY <1>1, <2>1
    <3>5. v[b] + Window < v[e]
      BY <3>1
    <3>6. e - b >= M => v[e - 1] + Lockout <= v[e]
      BY <3>2, <3>4
    <3>7. e - b = M + 1 => v[e - 2] + Lockout <= v[e - 1]
      BY <3>3, <3>4
    <3> HIDE DEF b, e
    <3>8. Before(v, b, e)
      BY <2>1, <3>4, <3>5, <3>6, <3>7 DEF Before, M
    <3> QED BY <3>8 DEF e
  <2>3. Windowed(v, k2, f2, l2)
    <3>1. Began(v, k2) = n + 1 /\ b \in 1 .. Len(v) /\ k2 \in 1 .. Len(v) /\ k2 < M
      BY <1>1, <1>2, <1>8, <2>1 DEF Began
    <3>2. f2 # Null /\ v[n + 1] = f2
      BY <1>1, <1>8
    <3> HIDE DEF b
    <3> QED BY <1>2, <2>2, <3>1, <3>2 DEF Windowed, M
  <2>4. ASSUME NEW i \in 1 .. n, i + 2 * M - 1 = n + 1  PROVE t - w[i] > Window
    <3>1. i <= b
      BY <1>1, <1>2, <2>1, <2>4
    <3>2. w[i] <= f
      BY <1>1, <2>1, <3>1
    <3> QED BY <1>1, <1>2, <1>8, <2>1, <3>2
  <2> QED BY <1>4, <1>6, <2>3, <2>4 DEF v
<1>9. CASE f # Null /\ k2 = k + 1 /\ f2 = f /\ t - f <= Window
  <2> DEFINE b == n - k + 1
  <2>1. b \in 1 .. n /\ w[b] = f /\ f \in Nat /\ k \in 1 .. n
    BY <1>1, <1>3, <1>9
  <2>2. k <= M
    <3>1. SUFFICES ASSUME k = M + 1 PROVE FALSE
      BY <1>2, <1>3, <1>9
    <3>2. n - 1 \in 1 .. n /\ n \in 1 .. n /\ b <= n - 1
      BY <1>1, <1>2, <2>1, <3>1
    <3>3. w[n] + Lockout <= t /\ w[n - 1] + Lockout <= w[n] /\ w[n - 1] >= w[b]
      BY <1>1, <1>2, <1>3, <1>9, <2>1, <3>1, <3>2
    <3>4. w[n] \in Nat /\ w[n - 1] \in Nat
      BY <1>1, <3>2
    <3>5. ASSUME NEW y \in Nat, NEW z \in Nat, z + Lockout <= t, y + Lockout <= z, f <= y
          PROVE  t - f > Window
      BY <1>2, <2>1, <3>5
    <3>6. f <= w[n - 1]
      BY <2>1, <3>3
    <3>7. t - f > Window
      BY <3>3, <3>4, <3>5, <3>6
    <3>8. f \in Nat /\ t - f <= Window
      BY <1>9, <2>1
    <3> QED BY <1>2, <3>7, <3>8
  <2>3. k = M => w[n] + Lockout <= t
    BY <1>2, <1>3, <1>9
  <2>4. b > 1 => \E p \in 1 .. n : Before(w, p, b)
    BY <1>3, <1>9
  <2>5. ASSUME NEW p \in 1 .. n, Before(w, p, b)  PROVE Before(v, p, b)
    <3>1. p \in 1 .. b - 1 /\ b - p <= M + 1
      BY <2>5 DEF Before, M
    <3>2. v[p] = w[p] /\ v[b] = w[b]
      BY <1>1, <2>1
    <3>3. b - p >= M => b - 1 \in 1 .. n
      BY <1>1, <1>2, <2>1, <3>1
    <3>4. b - p = M + 1 => b - 2 \in 1 .. n
      BY <1>1, <1>2, <2>1, <3>1
    <3>5. b - p = M + 1 => b - p >= M
      BY <1>2
    <3> HIDE DEF b
    <3> QED BY <1>1, <2>5, <3>1, <3>2, <3>3, <3>4, <3>5 DEF Before, M
  <2>6. Windowed(v, k2, f2, l2)
    <3>1. Began(v, k2) = b /\ k2 \in 1 .. Len(v) /\ k2 <= M + 1 /\ f2 # Null /\ v[b] = f2
      BY <1>1, <1>2, <1>9, <2>1, <2>2 DEF Began
    <3>2. k2 >= M => l2 # Null /\ v[Len(v)] + Lockout <= l2
      BY <1>1, <1>2 DEF M
    <3>3. k2 = M + 1 => v[Len(v) - 1] + Lockout <= v[Len(v)]
      <4>1. n \in 1 .. n /\ Len(v) - 1 = n
        BY <1>1, <2>1
      <4>2. v[Len(v) - 1] = w[n] /\ v[Len(v)] = t
        BY <1>1, <4>1
      <4>3. k2 = M + 1 => k = M
        BY <1>2, <1>9
      <4> QED BY <2>3, <4>2, <4>3
    <3>4. b > 1 => \E p \in 1 .. Len(v) : Before(v, p, b)
      <4>1. 1 .. n \subseteq 1 .. Len(v)
        BY <1>1
      <4> HIDE DEF b
      <4> QED BY <2>4, <2>5, <4>1
    <3> HIDE DEF b
    <3> QED BY <3>1, <3>2, <3>3, <3>4 DEF Windowed, M
  <2>7. ASSUME NEW i \in 1 .. n, i + 2 * M - 1 = n + 1  PROVE t - w[i] > Window
    <3>1. i < b /\ b - i = 2 * M - 1 - k
      BY <1>1, <1>2, <2>1, <2>2, <2>7
    <3>2. PICK p \in 1 .. n : Before(w, p, b)
      BY <2>1, <2>4, <3>1
    <3>3. /\ p \in 1 .. b - 1 /\ b - p <= M + 1
          /\ w[p] + Window < w[b]
          /\ b - p >= M => w[b - 1] + Lockout <= w[b]
          /\ b - p = M + 1 => w[b - 2] + Lockout <= w[b - 1]
      BY <3>2 DEF Before, M
    <3>4. w[i] \in Nat /\ w[b] \in Nat /\ w[b] <= t /\ w[p] \in Nat
      BY <1>1, <2>1
    <3>5. CASE i <= p
      <4>1. w[i] <= w[p]
        BY <1>1, <3>5
      <4>2. w[p] + Window < w[b] /\ w[b] <= t
        BY <3>3, <3>4
      <4> HIDE DEF b
      <4> QED BY <1>a, <3>4, <4>1, <4>2
    <3>6. CASE p < i /\ k = M
      <4>1. b - 1 \in 1 .. n /\ i <= b - 1 /\ b - p >= M /\ n \in 1 .. n /\ b <= n
        BY <1>1, <1>2, <2>1, <3>1, <3>6
      <4>2. w[i] <= w[b - 1] /\ w[b - 1] + Lockout <= w[b] /\ w[b] <= w[n] /\ w[n] + Lockout <= t
        BY <1>1, <2>1, <2>3, <3>3, <3>6, <4>1
      <4>3. w[b - 1] \in Nat /\ w[n] \in Nat
        BY <1>1, <4>1
      <4> HIDE DEF b
      <4> QED BY <1>c, <3>4, <4>2, <4>3
    <3>7. CASE p < i /\ k < M
      <4>1. b - p = M + 1 /\ i <= b - 2 /\ b - 2 \in 1 .. n /\ b - 1 \in 1 .. n
        BY <1>1, <1>2, <2>1, <3>1, <3>3, <3>7
      <4>2. w[i] <= w[b - 2] /\ w[b - 2] + Lockout <= w[b - 1] /\ w[b - 1] + Lockout <= w[b]
        BY <1>1, <1>2, <3>3, <4>1
      <4>3. w[b - 1] \in Nat /\ w[b - 2] \in Nat
        BY <1>1, <4>1
      <4> HIDE DEF b
      <4> QED BY <1>d, <3>4, <4>2, <4>3
    <3> QED BY <1>2, <2>1, <2>2, <3>5, <3>6, <3>7
  <2> QED BY <1>4, <1>6, <2>6, <2>7 DEF v
<1> QED BY <1>7, <1>8, <1>9

Limited == Lockout >= Window /\ MaxFailures > 1

Guesses(u) ==
    /\ ~Exists(u) => wrong[u] = <<>>
    /\ Ordered(wrong[u], now)
    /\ Windowed(wrong[u], users[u].failed, users[u].first, users[u].locked)
    /\ Spread(wrong[u])

LEMMA StepGuesses ==
  ASSUME TypeOK, TypeOK', Limited, NEW u \in Users, Guesses(u), [Next]_vars
  PROVE  Guesses(u)'
<1>h. /\ wrong[u] \in Seq(Nat) /\ now \in Nat
      /\ users[u].failed \in Nat /\ users[u].first \in Nat \cup {Null}
      /\ users[u].locked \in Nat \cup {Null}
  BY DEF TypeOK, UserType, Time
<1>n. now' \in {now, now + 1}
  BY PasswordSteps
<1>e. Exists(u) => Exists(u)'
  BY ExistsKept
<1>o. Ordered(wrong[u], now')
  <2>1. \A i \in 1 .. Len(wrong[u]) : wrong[u][i] \in Nat
    BY <1>h
  <2>2. now' = now \/ now' = now + 1
    BY <1>n
  <2> QED BY <1>h, <2>1, <2>2 DEF Guesses, Ordered
<1>1. CASE Undisturbed(u)
  BY <1>1, <1>e, <1>o DEF Guesses, Undisturbed, Exists
<1>2. CASE Cleared(u)
  <2>1. wrong'[u] = <<>> /\ users'[u].first = Null
    BY <1>2 DEF Cleared, Guesses
  <2>2. \A t : Ordered(<<>>, t)
    BY DEF Ordered
  <2>3. \A k, l : Windowed(<<>>, k, Null, l)
    BY DEF Windowed
  <2>4. Spread(<<>>)
    BY DEF Spread
  <2> QED BY <2>1, <2>2, <2>3, <2>4 DEF Guesses
<1>3. CASE CountedAgain(u)
  <2> DEFINE k == Failures(u)
  <2> DEFINE f == IF WindowOver(u) THEN now ELSE users[u].first
  <2> DEFINE l == LockFrom(k)
  <2>1. /\ wrong'[u] = Append(wrong[u], now) /\ now' = now /\ Exists(u)
        /\ users'[u].failed = k /\ users'[u].first = f /\ users'[u].locked = l
    BY <1>3 DEF CountedAgain
  <2>2. users[u].locked = Null \/ users[u].locked <= now
    BY <1>3, <1>h DEF CountedAgain, Locked
  <2>3. k \in Nat /\ f \in Nat /\ l \in Nat \cup {Null}
    BY <1>h DEF Failures, WindowOver, LockFrom
  <2>4. \/ (users[u].first = Null \/ now - users[u].first > Window) /\ k = 1 /\ f = now
        \/ /\ users[u].first \in Nat /\ now - users[u].first <= Window
           /\ k = users[u].failed + 1 /\ f = users[u].first
    BY <1>h DEF Failures, WindowOver
  <2>5. k >= MaxFailures => l = now + Lockout
    BY DEF LockFrom
  <2> HIDE DEF k, f, l
  <2>6. LET v == Append(wrong[u], now) IN Ordered(v, now) /\ Windowed(v, k, f, l) /\ Spread(v)
    <3>1. /\ wrong[u] \in Seq(Nat) /\ users[u].failed \in Nat /\ users[u].first \in Nat \cup {Null}
          /\ users[u].locked \in Nat \cup {Null} /\ now \in Nat /\ Lockout >= Window /\ MaxFailures > 1
      BY <1>h DEF Limited
    <3>2. /\ Ordered(wrong[u], now) /\ Spread(wrong[u])
          /\ Windowed(wrong[u], users[u].failed, users[u].first, users[u].locked)
      BY <1>h DEF Guesses
    <3> QED BY <3>1, <3>2, <2>2, <2>3, <2>4, <2>5, WrongAgain
  <2>7. Exists(u)'
    BY <1>e, <2>1
  <2> QED BY <2>1, <2>6, <2>7 DEF Guesses
<1> QED BY <1>1, <1>2, <1>3, PasswordSteps

(* Windows do not slide, but the lock makes up for it: no stretch as long  *)
(* as a window holds twice MaxFailures wrong passwords (security.py        *)
(* 154-198), whatever the lengths and however requests interleave.         *)
THEOREM GuessesLimited == Spec => []GuessesBounded
<1> DEFINE All == Limited => \A u \in Users : Guesses(u)
<1>1. Init => All
  BY DEF Init, Absent, Exists, Guesses, Ordered, Windowed, Spread
<1>2. IInv /\ IInv' /\ All /\ [Next]_vars => All'
  BY StepGuesses DEF IInv, Limited
<1>3. All => GuessesBounded
  BY DEF Limited, Guesses, Spread, GuessesBounded
<1> QED BY <1>1, <1>2, <1>3, InductiveInvariant, PTL DEF Spec
=============================================================================
