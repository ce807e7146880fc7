------------------------------- MODULE Accounts -------------------------------
(***************************************************************************)
(* Local users, their roles, sessions and password confirmations:          *)
(* app/core/security.py, the account endpoints of app/main.py and the      *)
(* seeding of roles in app/db.py.                                          *)
(*                                                                         *)
(* Every use of db.connection() holds one process-wide lock and commits at *)
(* its end: each is an atomic action here.  A request uses several of      *)
(* them, so other requests run in between: between the check that the      *)
(* first-run setup is still open and the insertion of the owner, between a *)
(* right password and its session, between the admission of a request with *)
(* the roles of that moment and what it does with them, between the use of *)
(* a confirmation and the write it allows.                                 *)
(*                                                                         *)
(* The clock of a transaction is taken to be the clock read just before    *)
(* it.  Rows of `users` are never deleted and is_active is never cleared.  *)
(***************************************************************************)
EXTENDS Integers, Sequences, FiniteSets

CONSTANTS
    Users,        \* usernames (UNIQUE)
    Tokens,       \* session tokens (48 random bytes: never used twice)
    Grants,       \* step-up tokens, likewise
    Handlers,     \* threads that serve requests
    Roles,        \* the roles that are in use
    RoleSets,     \* bound: the sets of roles an owner may give to a user
    Null,
    Window,       \* login_window_minutes
    MaxFailures,  \* login_max_failures
    Lockout,      \* lockout_minutes
    IdleFor,      \* session_idle_minutes
    AbsoluteFor,  \* session_absolute_hours
    GrantFor,     \* the five minutes of a step-up grant
    Guessed,      \* bound: users whose password is mistyped
    MaxTime,      \* bound: the clock stops here
    MaxEvents     \* bound: wrong passwords, confirmations, changes of roles and
                  \* restarts, together

ASSUME RolesAssumption ==
    /\ {"owner", "reviewer"} \subseteq Roles /\ "admin" \notin Roles
    /\ RoleSets \subseteq (SUBSET Roles) \ {{}}

ASSUME TimesAssumption ==
    /\ Window \in Nat /\ MaxFailures \in Nat \ {0} /\ Lockout \in Nat \ {0}
    /\ IdleFor \in Nat \ {0} /\ AbsoluteFor \in Nat \ {0} /\ GrantFor \in Nat \ {0}

ASSUME BoundsAssumption ==
    /\ Null \notin Users \cup Tokens \cup Grants \cup Nat \cup {"admin", "reviewer"}
    /\ Guessed \subseteq Users
    /\ MaxTime \in Nat /\ MaxEvents \in Nat

VARIABLES
    now,       \* the clock
    users,     \* the tables `users` and `user_roles`
    sessions,  \* the table `sessions`
    grants,    \* the dictionary _STEP_UP, in memory
    job,       \* the request each handler serves
    assigned,  \* history: the roles a user was last given
    wrong,     \* history: times of the wrong passwords since the last right one
    ended,     \* history: tokens ended by a logout or a change of roles
    accepted,  \* history: users who accepted a risk with each grant
    events     \* bound: see MaxEvents

historyVars == <<assigned, wrong, ended, accepted>>
vars == <<now, users, sessions, grants, job, historyVars, events>>

-----------------------------------------------------------------------------
Absent == [legacy |-> Null, roles |-> {}, failed |-> 0, first |-> Null, locked |-> Null]
Unused == [state |-> "unused", user |-> Null, created |-> 0, seen |-> 0, idle |-> 0, absolute |-> 0]
NoGrant == [state |-> "unused", user |-> Null, purpose |-> Null, until |-> 0]
Idle == [pc |-> "idle", user |-> Null, token |-> Null, roles |-> {}, grant |-> Null]

Init ==
    /\ now = 0
    /\ users = [u \in Users |-> Absent]
    /\ sessions = [t \in Tokens |-> Unused]
    /\ grants = [g \in Grants |-> NoGrant]
    /\ job = [h \in Handlers |-> Idle]
    /\ assigned = [u \in Users |-> {}]
    /\ wrong = [u \in Users |-> <<>>]
    /\ ended = {}
    /\ accepted = [g \in Grants |-> <<>>]
    /\ events = 0

Exists(u) == users[u].legacy # Null
SetupRequired == \A u \in Users : ~Exists(u)

(* What the rows of role_permissions allow.                                *)
Managers == {"owner"}
Purposes == {"accept-risk", "restore-backup"}
RiskAcceptors == {"owner", "security_engineer"}

Event == events < MaxEvents /\ events' = events + 1

Advance ==
    /\ now < MaxTime
    /\ now' = now + 1
    /\ UNCHANGED <<users, sessions, grants, job, historyVars, events>>

-----------------------------------------------------------------------------
(* First-run setup: the check and the insertion are two transactions, and  *)
(* the session of the new owner is a third.                                *)
SetupCheck(h) ==
    /\ job[h].pc = "idle" /\ SetupRequired
    /\ job' = [job EXCEPT ![h].pc = "setup"]
    /\ UNCHANGED <<now, users, sessions, grants, historyVars, events>>

NewUser(legacy, R) == [Absent EXCEPT !.legacy = legacy, !.roles = R]

SetupCreate(h, u) ==
    /\ job[h].pc = "setup"
    /\ IF Exists(u)                     \* UNIQUE(username): HTTP 500
       THEN /\ job' = [job EXCEPT ![h] = Idle]
            /\ UNCHANGED <<users, assigned>>
       ELSE /\ users' = [users EXCEPT ![u] = NewUser("admin", {"owner"})]
            /\ assigned' = [assigned EXCEPT ![u] = {"owner"}]
            /\ job' = [job EXCEPT ![h] = [Idle EXCEPT !.pc = "login", !.user = u]]
    /\ UNCHANGED <<now, sessions, grants, wrong, ended, accepted, events>>

-----------------------------------------------------------------------------
(* authenticate.  Wrong passwords are counted from the first one of a      *)
(* window; the count starts again when the next one falls outside of it.   *)
Locked(u) == users[u].locked # Null /\ users[u].locked > now

RightPassword(h, u) ==
    /\ job[h].pc = "idle" /\ Exists(u) /\ ~Locked(u)
    /\ users' = [users EXCEPT ![u].failed = 0, ![u].first = Null, ![u].locked = Null]
    /\ wrong' = [wrong EXCEPT ![u] = <<>>]
    /\ job' = [job EXCEPT ![h] = [Idle EXCEPT !.pc = "login", !.user = u]]
    /\ UNCHANGED <<now, sessions, grants, assigned, ended, accepted, events>>

WindowOver_Never(u) == users[u].first = Null
WindowOver(u) == users[u].first = Null \/ now - users[u].first > Window

Failures(u) == IF WindowOver(u) THEN 1 ELSE users[u].failed + 1

LockFrom_OneLate(n) == IF n > MaxFailures THEN now + Lockout ELSE Null
LockFrom(n) == IF n >= MaxFailures THEN now + Lockout ELSE Null

WrongPassword(u) ==
    /\ Exists(u) /\ ~Locked(u)
    /\ u \in Guessed /\ Event
    /\ users' = [users EXCEPT ![u].failed = Failures(u),
                              ![u].first = IF WindowOver(u) THEN now ELSE @,
                              ![u].locked = LockFrom(Failures(u))]
    /\ wrong' = [wrong EXCEPT ![u] = Append(@, now)]
    /\ UNCHANGED <<now, sessions, grants, job, assigned, ended, accepted>>

-----------------------------------------------------------------------------
(* Sessions.                                                               *)
(* Of a revoked row only the user is looked at again.                      *)
Revoked(t) == [Unused EXCEPT !.state = "revoked", !.user = sessions[t].user]

Earlier(a, b) == IF a < b THEN a ELSE b

Purged(t) ==
    \/ sessions[t].state = "revoked"
    \/ sessions[t].state = "live" /\ sessions[t].absolute < now

OpenSession(h, t) ==
    /\ job[h].pc = "login" /\ sessions[t].state = "unused"
    /\ sessions' = [s \in Tokens |->
           IF s = t THEN [state |-> "live", user |-> job[h].user, created |-> now, seen |-> now,
                          idle |-> now + IdleFor, absolute |-> now + AbsoluteFor]
           ELSE IF Purged(s) THEN [Unused EXCEPT !.state = "purged"]
           ELSE sessions[s]]
    /\ job' = [job EXCEPT ![h] = Idle]
    /\ UNCHANGED <<now, users, grants, historyVars, events>>

Current(t) == sessions[t].state = "live"

Expired(t) == sessions[t].idle <= now \/ sessions[t].absolute <= now

NextIdle_FromExpiry(t) == Earlier(sessions[t].absolute, sessions[t].idle + IdleFor)
NextIdle(t) == Earlier(sessions[t].absolute, now + IdleFor)

(* current_user: a request is admitted with the roles of this moment.      *)
Admit(h, t) ==
    /\ job[h].pc = "idle" /\ Current(t) /\ ~Expired(t)
    /\ sessions' = [sessions EXCEPT ![t].seen = now, ![t].idle = NextIdle(t)]
    /\ job' = [job EXCEPT ![h] = [Idle EXCEPT !.pc = "admitted", !.user = sessions[t].user,
                                              !.token = t, !.roles = users[sessions[t].user].roles]]
    /\ UNCHANGED <<now, users, grants, historyVars, events>>

RefuseExpired(t) ==
    /\ Current(t) /\ Expired(t)
    /\ sessions' = [sessions EXCEPT ![t] = Revoked(t)]
    /\ UNCHANGED <<now, users, grants, job, historyVars, events>>

Finish(h) == job' = [job EXCEPT ![h] = Idle]

(* An admitted request that changes nothing here, or is forbidden.         *)
OtherRequest(h) ==
    /\ job[h].pc = "admitted"
    /\ Finish(h)
    /\ UNCHANGED <<now, users, sessions, grants, historyVars, events>>

Logout(h) ==
    /\ job[h].pc = "admitted"
    /\ sessions' = IF sessions[job[h].token].state = "purged" THEN sessions    \* no such row
                    ELSE [sessions EXCEPT ![job[h].token] = Revoked(job[h].token)]
    /\ ended' = ended \cup {job[h].token}
    /\ Finish(h)
    /\ UNCHANGED <<now, users, grants, assigned, wrong, accepted, events>>

-----------------------------------------------------------------------------
(* Users and roles.                                                        *)
CreateUser(h, u, r) ==
    /\ job[h].pc = "admitted" /\ job[h].roles \cap Managers # {}
    /\ ~Exists(u)                       \* else HTTP 409, nothing written
    /\ users' = [users EXCEPT ![u] = NewUser(IF r = "owner" THEN "admin" ELSE "reviewer", {r})]
    /\ assigned' = [assigned EXCEPT ![u] = {r}]
    /\ Finish(h)
    /\ UNCHANGED <<now, sessions, grants, wrong, ended, accepted, events>>

SessionsOf_ButThis(h, u) == {t \in Tokens \ {job[h].token} : sessions[t].user = u}
SessionsOf(h, u) == {t \in Tokens : sessions[t].user = u}

UpdateRoles(h, u, R) ==
    /\ job[h].pc = "admitted" /\ job[h].roles \cap Managers # {}
    /\ Exists(u) /\ Event
    /\ users' = [users EXCEPT ![u].roles = R]
    /\ assigned' = [assigned EXCEPT ![u] = R]
    /\ sessions' = [t \in Tokens |-> IF t \in SessionsOf(h, u) THEN Revoked(t) ELSE sessions[t]]
    /\ ended' = ended \cup {t \in Tokens : sessions[t].user = u}
    /\ Finish(h)
    /\ UNCHANGED <<now, grants, wrong, accepted>>

-----------------------------------------------------------------------------
(* A fresh password confirmation, and the acceptance of a risk it allows.  *)
(* The confirmation is taken out of the dictionary before anything else is *)
(* checked, and the finding is written in a transaction of its own.        *)
Confirm(h, g, p) ==
    /\ job[h].pc = "admitted" /\ grants[g].state = "unused" /\ Event
    /\ grants' = [grants EXCEPT ![g] = [state |-> "held", user |-> job[h].user,
                                        purpose |-> p, until |-> now + GrantFor]]
    /\ Finish(h)
    /\ UNCHANGED <<now, users, sessions, historyVars>>

(* A wrong password ends the request.  Unlike authenticate, the endpoint   *)
(* neither counts it nor looks for a lock.                                 *)
RefuseConfirmation(h) ==
    /\ job[h].pc = "admitted"
    /\ Finish(h)
    /\ UNCHANGED <<now, users, sessions, grants, historyVars, events>>

Valid(h, g) == grants[g].user = job[h].user /\ grants[g].until > now
               /\ grants[g].purpose = "accept-risk"

Without_Kept(g) == grants
Without(g) == [grants EXCEPT ![g].state = "spent", ![g].until = 0]

UseGrant(h, g) ==
    /\ job[h].pc = "admitted" /\ job[h].roles \cap RiskAcceptors # {}
    /\ grants[g].state = "held"
    /\ grants' = Without(g)
    /\ job' = [job EXCEPT ![h] = IF Valid(h, g) THEN [@ EXCEPT !.pc = "accept", !.grant = g] ELSE Idle]
    /\ UNCHANGED <<now, users, sessions, historyVars, events>>

(* Without a meaningful reason the confirmation is lost and nothing is     *)
(* written: the second disjunct.                                           *)
AcceptRisk(h) ==
    /\ job[h].pc = "accept"
    /\ \/ accepted' = [accepted EXCEPT ![job[h].grant] = Append(@, job[h].user)]
       \/ UNCHANGED accepted
    /\ Finish(h)
    /\ UNCHANGED <<now, users, sessions, grants, assigned, wrong, ended, events>>

-----------------------------------------------------------------------------
(* A restart: requests and confirmations are gone, the database stays, and *)
(* init_db seeds the roles again.  Each user is given the role that the    *)
(* column of version 0.1.1 maps to, on top of those held.                  *)
Mapped_ByName(legacy) == IF legacy \in Roles THEN legacy ELSE "reviewer"
Mapped(legacy) == IF legacy \in Roles THEN legacy
                  ELSE IF legacy = "admin" THEN "owner" ELSE "reviewer"

Seeded_Replaced(u) == IF Exists(u) THEN {Mapped(users[u].legacy)} ELSE {}
Seeded(u) == IF Exists(u) THEN users[u].roles \cup {Mapped(users[u].legacy)} ELSE {}

Restart ==
    /\ Event
    /\ users' = [u \in Users |-> [users[u] EXCEPT !.roles = Seeded(u)]]
    /\ job' = [h \in Handlers |-> Idle]
    /\ grants' = [g \in Grants |-> IF grants[g].state = "held"
                                   THEN [grants[g] EXCEPT !.state = "spent", !.until = 0]
                                   ELSE grants[g]]
    /\ UNCHANGED <<now, sessions, historyVars>>

-----------------------------------------------------------------------------
HandlerStep(h) ==
    \/ SetupCheck(h)
    \/ \E u \in Users : SetupCreate(h, u) \/ RightPassword(h, u)
    \/ \E t \in Tokens : OpenSession(h, t) \/ Admit(h, t)
    \/ OtherRequest(h) \/ Logout(h) \/ AcceptRisk(h)
    \/ \E u \in Users, r \in Roles : CreateUser(h, u, r)
    \/ \E u \in Users, R \in RoleSets : UpdateRoles(h, u, R)
    \/ RefuseConfirmation(h) \/ \E g \in Grants, p \in Purposes : Confirm(h, g, p)
    \/ \E g \in Grants : UseGrant(h, g)

Next ==
    \/ \E h \in Handlers : HandlerStep(h)
    \/ \E u \in Users : WrongPassword(u)
    \/ \E t \in Tokens : RefuseExpired(t)
    \/ Advance \/ Restart

Spec == Init /\ [][Next]_vars

-----------------------------------------------------------------------------
(* Every variable has its type.                                            *)
Time == Nat
UserType == [legacy : {Null, "admin", "reviewer"}, roles : SUBSET Roles, failed : Nat,
             first : Time \cup {Null}, locked : Time \cup {Null}]
SessionType == [state : {"unused", "live", "revoked", "purged"}, user : Users \cup {Null},
                created : Time, seen : Time, idle : Time, absolute : Time]
GrantType == [state : {"unused", "held", "spent"}, user : Users \cup {Null},
              purpose : Purposes \cup {Null}, until : Time]
JobType == [pc : {"idle", "setup", "login", "admitted", "accept"}, user : Users \cup {Null},
            token : Tokens \cup {Null}, roles : SUBSET Roles, grant : Grants \cup {Null}]

TypeOK ==
    /\ now \in Time
    /\ users \in [Users -> UserType]
    /\ sessions \in [Tokens -> SessionType]
    /\ grants \in [Grants -> GrantType]
    /\ job \in [Handlers -> JobType]
    /\ assigned \in [Users -> SUBSET Roles]
    /\ wrong \in [Users -> Seq(Time)]
    /\ ended \subseteq Tokens
    /\ accepted \in [Grants -> Seq(Users)]
    /\ events \in Nat

(* An account is locked only after MaxFailures wrong passwords in a row    *)
(* that fall into one window (authenticate): counts of older windows, or   *)
(* from before a right password, lock nobody out.                          *)
LockEarned ==
    \A u \in Users : users[u].locked # Null =>
        /\ Len(wrong[u]) >= MaxFailures
        /\ wrong[u][Len(wrong[u])] - wrong[u][Len(wrong[u]) - MaxFailures + 1] <= Window

(* Windows do not slide, so more than MaxFailures wrong passwords fit into *)
(* one stretch of that length, but never twice as many, when a lock lasts  *)
(* at least as long and one wrong password is not enough for it.           *)
GuessesBounded ==
    Lockout >= Window /\ MaxFailures > 1 => \A u \in Users : \A i \in 1 .. Len(wrong[u]) :
        i + 2 * MaxFailures - 1 <= Len(wrong[u]) =>
            wrong[u][i + 2 * MaxFailures - 1] - wrong[u][i] > Window

(* What a restart leaves of the roles an owner gave: all of them, and at   *)
(* most the role of the legacy column on top (_seed_rbac).                 *)
DriftBounded ==
    \A u \in Users : /\ assigned[u] \subseteq users[u].roles
                     /\ users[u].roles \subseteq assigned[u] \cup {Mapped(users[u].legacy)}

(* One confirmation serves one acceptance, of the user who confirmed and   *)
(* for the purpose that was confirmed, however requests interleave         *)
(* (consume_step_up_grant, update_finding).                                *)
ConfirmedOnce ==
    \A g \in Grants :
        /\ Len(accepted[g]) <= 1
        /\ \A i \in DOMAIN accepted[g] :
               accepted[g][i] = grants[g].user /\ grants[g].purpose = "accept-risk"

Admitted(h) == job[h].pc = "idle" /\ job'[h].pc = "admitted"

(* No request is admitted on a session that was unused for the idle time   *)
(* or is older than its absolute time, however often it was refreshed      *)
(* (get_user_from_token).                                                  *)
SessionsExpire ==
    [][\A h \in Handlers : Admitted(h) =>
           LET s == sessions[job'[h].token]
           IN  now < s.seen + IdleFor /\ now < s.created + AbsoluteFor]_vars

(* Once a logout or a change of its user's roles ended a session, no       *)
(* request is ever admitted on it again, whichever refreshes and purges    *)
(* run in between.                                                         *)
RevocationLasts ==
    [][\A h \in Handlers : Admitted(h) => job'[h].token \notin ended]_vars

(* Owners may give away their own role, the last one too; but a restart    *)
(* finds an owner again as soon as there are users at all (_seed_rbac,     *)
(* initialize_owner).                                                      *)
OwnerAtStartup ==
    [][Restart /\ ~SetupRequired =>
           \E u \in Users : "owner" \in users'[u].roles]_vars

(* CHANGELOG.md:20 says that seeding the database preserves the rights of  *)
(* viewers, whom docs/FIRST_RUN_AND_INTENDED_BEHAVIOUR.md:75 gives         *)
(* "read-only" visibility: who was last made a viewer is nothing else.     *)
ViewersOnlyRead ==
    \A u \in Users : assigned[u] = {"viewer"} => users[u].roles = {"viewer"}

=============================================================================
