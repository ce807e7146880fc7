------------------------------ MODULE Workspace ------------------------------
(***************************************************************************)
(* One data directory of YashSec, as the backends started on it one after  *)
(* another use it: accounts and projects of a local installation, and the  *)
(* public demo that the same program becomes with YASHSEC_DEMO_MODE.       *)
(*                                                                         *)
(* The startup hook runs init_db, whose _seed_rbac adds roles, and in demo *)
(* mode seed_demo_workspace, which makes or takes over the account of the  *)
(* demo and the bundled project.  Visitors of the demo ask for sessions,   *)
(* under a limit for each address.  Projects are imported by whoever may.  *)
(*                                                                         *)
(* Logins, lockouts and the sessions of other accounts are in Accounts.    *)
(* Role changes are those of the demo's account, to one role at a time     *)
(* (bound); times are in whole steps of the clock.                         *)
(***************************************************************************)
EXTENDS Projects

CONSTANTS
    DemoViewer,   \* demo_mode.DEMO_USERNAME
    Bundled,      \* the bundled project
    Visitors,     \* threads that serve POST /api/demo/session
    Addresses,
    Roles,
    Window,       \* an hour
    Limit,        \* settings.demo_session_requests_per_hour
    Keep,         \* 200
    SessionFor,   \* settings.session_absolute_hours
    MaxTime,      \* bound: the clock stops there
    MaxEvents     \* bound: imports, visits, account changes and restarts, together

ASSUME WorkspaceAssumption ==
    /\ DemoViewer \in Users /\ Bundled \notin Imports
    /\ {"owner", "security_engineer", "reviewer", "viewer"} \subseteq Roles
    /\ "admin" \notin Roles /\ Null \notin Roles \cup {"admin"}
    /\ Window \in Nat /\ Limit \in Nat \ {0} /\ Keep \in Nat \ {0} /\ SessionFor \in Nat
    /\ MaxTime \in Nat /\ MaxEvents \in Nat

VARIABLES
    mode,      \* settings.demo_mode of the backend that runs
    accounts,  \* `users` with `user_roles`
    sessions,  \* the demo account's rows of `sessions` that are not revoked
    clock,
    stamps,    \* _DEMO_SESSION_REQUESTS
    visit,     \* visit[v]: the request that thread v serves
    events,
    edited,    \* history: an owner changed the demo account's roles since the startup
    first,     \* history: how the first account came to be
    admitted   \* history: every admission of each address since the startup

demoVars == <<sessions, stamps, visit, admitted>>
vars == <<projectVars, demoVars, mode, accounts, clock, events, edited, first>>

-----------------------------------------------------------------------------
Missing == [legacy |-> Null, roles |-> {}, by |-> Null]
Exists(who, u) == who[u] # Missing
Holds(u, R) == accounts[u].roles \cap R # {}
Resting == [pc |-> "idle", from |-> Null, at |-> 0, no |-> 0]

Event == events < MaxEvents /\ events' = events + 1

(* _seed_rbac: the role of the legacy column, added to those held.         *)
Mapped_AdminReviews(legacy) == IF legacy \in Roles THEN legacy ELSE "reviewer"
Mapped(legacy) ==
    IF legacy \in Roles THEN legacy ELSE IF legacy = "admin" THEN "owner" ELSE "reviewer"

Seeded(who) ==
    [u \in Users |-> IF Exists(who, u) THEN [who[u] EXCEPT !.roles = @ \cup {Mapped(who[u].legacy)}] ELSE who[u]]

(* _insert_demo_user: an account of that name is taken over.               *)
WithDemoUser(who) ==
    IF Exists(who, DemoViewer)
    THEN [who EXCEPT ![DemoViewer].roles = {"viewer"}]
    ELSE [who EXCEPT ![DemoViewer] = [legacy |-> "viewer", roles |-> {"viewer"}, by |-> "demo"]]

SetupRequired(who) == \A u \in Users : ~Exists(who, u)

(* The startup hook of a backend started in mode m, and what it finds.     *)
Startup(m, who, granted) ==
    /\ mode' = m
    /\ accounts' = IF m = "demo" THEN WithDemoUser(Seeded(who)) ELSE Seeded(who)
    /\ members' = IF m = "demo" THEN granted \cup {<<DemoViewer, Bundled>>} ELSE granted
    /\ first' = IF m = "demo" /\ SetupRequired(who) THEN "demo" ELSE first

(* The backend ends or is killed, and another one is started.              *)
Restart(m) ==
    /\ Event
    /\ ImportsEnd
    /\ Startup(m, accounts, members)
    /\ stamps' = [a \in Addresses |-> {}] /\ admitted' = [a \in Addresses |-> {}]
    /\ visit' = [v \in Visitors |-> Resting]
    /\ edited' = FALSE
    /\ UNCHANGED <<sessions, clock>>

Init ==
    /\ ProjectsInit
    /\ mode = "local"
    /\ accounts = [u \in Users |-> Missing]
    /\ sessions = {} /\ clock = 0
    /\ stamps = [a \in Addresses |-> {}] /\ admitted = [a \in Addresses |-> {}]
    /\ visit = [v \in Visitors |-> Resting]
    /\ events = 0 /\ edited = FALSE /\ first = Null

-----------------------------------------------------------------------------
(* Accounts.                                                               *)
Setup(u) ==
    /\ Event /\ mode = "local" /\ SetupRequired(accounts)
    /\ accounts' = [accounts EXCEPT ![u] = [legacy |-> "admin", roles |-> {"owner"}, by |-> "setup"]]
    /\ first' = "setup"
    /\ UNCHANGED <<projectVars, demoVars, mode, clock, edited>>

OwnerLogsIn == \E u \in Users : Holds(u, {"owner"})

CreateUser(u, role) ==
    /\ Event /\ OwnerLogsIn /\ ~Exists(accounts, u)
    /\ accounts' = [accounts EXCEPT ![u] =
                      [legacy |-> IF role = "owner" THEN "admin" ELSE "reviewer", roles |-> {role}, by |-> "owner"]]
    /\ UNCHANGED <<projectVars, demoVars, mode, clock, edited, first>>

(* update_user_roles of the demo's account: its sessions are revoked.      *)
ChangeRole_SessionsKept(role) ==
    /\ Event /\ OwnerLogsIn /\ Exists(accounts, DemoViewer)
    /\ accounts' = [accounts EXCEPT ![DemoViewer].roles = {role}]
    /\ edited' = TRUE
    /\ UNCHANGED <<projectVars, demoVars, mode, clock, first>>
ChangeRole(role) ==
    /\ Event /\ OwnerLogsIn /\ Exists(accounts, DemoViewer)
    /\ accounts' = [accounts EXCEPT ![DemoViewer].roles = {role}]
    /\ sessions' = {}
    /\ edited' = TRUE
    /\ UNCHANGED <<projectVars, stamps, visit, admitted, mode, clock, first>>

(* require_permission("projects.create")                                   *)
AcceptImport(h, u, kind, n, nested) ==
    /\ Event /\ Holds(u, {"owner", "security_engineer"})
    /\ Accept(h, u, kind, n, nested)
    /\ UNCHANGED <<demoVars, mode, accounts, clock, edited, first>>

ImportGoesOn(h) ==
    /\ ImportStep(h)
    /\ UNCHANGED <<demoVars, mode, accounts, clock, events, edited, first>>

-----------------------------------------------------------------------------
(* create_demo_session.  The clock is read before the lock is taken.       *)
Visiting(v, step) == visit[v].pc = step
Proceed(v, step) == visit' = [visit EXCEPT ![v].pc = step]
visitUnchanged == <<projectVars, mode, accounts, clock, edited, first>>

VisitBegins(v, a) ==
    /\ Event /\ mode = "demo" /\ Visiting(v, "idle")
    /\ visit' = [visit EXCEPT ![v] = [pc |-> "stamped", from |-> a, at |-> clock, no |-> events']]
    /\ UNCHANGED <<visitUnchanged, sessions, stamps, admitted>>

Recent_Exclusive(a, now) == {s \in stamps[a] : s.at > now - Window}
Recent(a, now) == {s \in stamps[a] : s.at >= now - Window}

Admit(v) ==
    /\ Visiting(v, "stamped")
    /\ LET a == visit[v].from
           now == visit[v].at
           no == visit[v].no
       IN  /\ Cardinality(Recent(a, now)) < Limit
           /\ stamps' = [stamps EXCEPT ![a] = Recent(a, now) \cup {[no |-> no, at |-> now]}]
           /\ admitted' = [admitted EXCEPT ![a] = @ \cup
                 {[no |-> no, at |-> now, overtaken |-> \E s \in admitted[a] : s.at > now]}]
    /\ Proceed(v, "admitted")
    /\ UNCHANGED <<visitUnchanged, sessions, events>>

Refuse(v) ==
    /\ Visiting(v, "stamped")
    /\ Cardinality(Recent(visit[v].from, visit[v].at)) >= Limit
    /\ visit' = [visit EXCEPT ![v] = Resting]
    /\ UNCHANGED <<visitUnchanged, sessions, stamps, admitted, events>>

(* create_session purges what has expired.  `opened` is history.           *)
OpenSession(v) ==
    /\ Visiting(v, "admitted")
    /\ sessions' = {s \in sessions : clock <= s.created + SessionFor}
                     \cup {[no |-> visit[v].no, created |-> clock, opened |-> accounts[DemoViewer].roles]}
    /\ Proceed(v, "opened")
    /\ UNCHANGED <<visitUnchanged, stamps, admitted, events>>

(* The newest sessions are kept; which of two of the same time is open.    *)
Newest(kept) ==
    /\ Cardinality(kept) = IF Cardinality(sessions) < Keep THEN Cardinality(sessions) ELSE Keep
    /\ \A s \in kept, t \in sessions \ kept : t.created <= s.created

Trim(v) ==
    /\ Visiting(v, "opened")
    /\ \E kept \in SUBSET sessions : Newest(kept) /\ sessions' = kept
    /\ visit' = [visit EXCEPT ![v] = Resting]
    /\ UNCHANGED <<visitUnchanged, stamps, admitted, events>>

(* One of its transactions fails: the request has used up its admission.   *)
VisitFails(v) ==
    /\ visit[v].pc \in {"admitted", "opened"} /\ Fault
    /\ visit' = [visit EXCEPT ![v] = Resting]
    /\ UNCHANGED <<dirs, projects, members, job, imports, shared, abandoned>>
    /\ UNCHANGED <<mode, accounts, clock, edited, first, sessions, stamps, admitted, events>>

(* Nothing reads the clock in local mode, and it stands still there.       *)
Advance ==
    /\ mode = "demo" /\ clock < MaxTime
    /\ clock' = clock + 1
    /\ UNCHANGED <<projectVars, demoVars, mode, accounts, events, edited, first>>

-----------------------------------------------------------------------------
VisitStep(v) == Admit(v) \/ Refuse(v) \/ OpenSession(v) \/ Trim(v) \/ VisitFails(v)

Next ==
    \/ \E m \in {"local", "demo"} : Restart(m)
    \/ \E u \in Users : Setup(u)
    \/ \E u \in Users, role \in Roles : CreateUser(u, role)
    \/ \E role \in Roles : ChangeRole(role)
    \/ \E h \in Handlers, u \in Users, kind \in Kinds, n \in Names, nested \in BOOLEAN :
          AcceptImport(h, u, kind, n, nested)
    \/ \E h \in Handlers : ImportGoesOn(h)
    \/ \E v \in Visitors, a \in Addresses : VisitBegins(v, a)
    \/ \E v \in Visitors : VisitStep(v)
    \/ Advance

Spec == Init /\ [][Next]_vars

-----------------------------------------------------------------------------
AccountType == [legacy : Roles \cup {"admin", Null}, roles : SUBSET Roles, by : {"setup", "owner", "demo", Null}]
Times == 0 .. MaxTime

(* The types of the variables of this module and of Projects.              *)
TypeOK ==
    /\ ProjectsTypeOK
    /\ members \subseteq Users \X (Imports \cup {Bundled})
    /\ mode \in {"local", "demo"}
    /\ accounts \in [Users -> AccountType]
    /\ sessions \subseteq [no : 0 .. MaxEvents, created : Times, opened : SUBSET Roles]
    /\ clock \in Times
    /\ stamps \in [Addresses -> SUBSET [no : 0 .. MaxEvents, at : Times]]
    /\ visit \in [Visitors -> [pc : {"idle", "stamped", "admitted", "opened"}, from : Addresses \cup {Null},
                               at : Times, no : 0 .. MaxEvents]]
    /\ events \in 0 .. MaxEvents
    /\ edited \in BOOLEAN /\ first \in {"setup", "demo", Null}
    /\ admitted \in [Addresses -> SUBSET [no : 0 .. MaxEvents, at : Times, overtaken : BOOLEAN]]

accountOf == accounts[DemoViewer]

(* What the demo's account may see (_visible_repository_clause).           *)
Visible(u) ==
    IF Holds(u, {"owner"}) THEN {i \in Imports : projects[i] # Null} \cup {Bundled}
    ELSE {i \in Imports \cup {Bundled} : <<u, i>> \in members}

(* The demo only views.  A backend in demo mode gives the demo's account   *)
(* the role of a viewer and no other until an owner changes it.  Whatever  *)
(* happens after a visitor's session was opened - a change of roles, a     *)
(* restart, another mode, another import - it never gains a right, and the *)
(* account sees the bundled project and nothing it did not import itself.  *)
(* The exception is an account of the demo's name that was there before    *)
(* the demo: a local startup gives it the role of its legacy column again. *)
DemoOnlyViews ==
    /\ mode = "demo" /\ ~edited => accountOf.roles = {"viewer"}
    /\ accountOf.by = "demo" => \A s \in sessions : accountOf.roles \subseteq s.opened \cup {"viewer"}
    /\ ~Holds(DemoViewer, {"owner"}) =>
          \A i \in Visible(DemoViewer) : i = Bundled \/ projects[i].by = DemoViewer

(* The limit of sessions for one address holds in every window: of the     *)
(* requests that were not overtaken - whose lock was not taken first by a  *)
(* request that had read a later time - at most Limit are admitted within  *)
(* Window of each other.  Each one overtaken may come on top.              *)
RateHolds ==
    \A a \in Addresses : \A s \in admitted[a] :
        ~s.overtaken =>
            Cardinality({t \in admitted[a] : ~t.overtaken /\ s.at - Window <= t.at /\ t.at <= s.at}) <= Limit

(* A local installation can be administered: first-run setup is open, or   *)
(* there is an owner, whichever modes the data directory went through.     *)
(* Two exceptions: a database whose first account was made by the demo,    *)
(* which closes the setup for good without an owner, and, until the next   *)
(* startup, an owner that gave the role away.                              *)
OwnerOrSetup ==
    mode = "local" => SetupRequired(accounts) \/ OwnerLogsIn \/ first = "demo" \/ edited
=============================================================================
