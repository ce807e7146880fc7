------------------------------ MODULE Schedules ------------------------------
(***************************************************************************)
(* Daily and weekly scans: app/core/scheduler.py and the schedule          *)
(* endpoints of app/main.py.                                               *)
(*                                                                         *)
(* One daemon thread reads the due rows of the table `schedules` in one    *)
(* transaction and then works on that copy: for each row it inserts a scan *)
(* and moves next_run in a second transaction, writes an audit event in a  *)
(* third, and hands the scan to the worker pool.  Users create, enable,    *)
(* disable and delete schedules and remove authentication profiles between *)
(* any two of these; a transaction may fail, which ends the pass; and the  *)
(* backend may be killed anywhere.                                         *)
(*                                                                         *)
(* Time is counted in seconds of the wall clock, which is taken not to run *)
(* backwards; Day is 86400 in the code and Week is 7 days.                 *)
(***************************************************************************)
EXTENDS Integers, Sequences, FiniteSets

CONSTANTS
    Schedules,   \* identities of rows (AUTOINCREMENT: never used twice)
    Profiles,    \* identities of authentication profiles, likewise
    Null,        \* SQL NULL
    Cadence,     \* Cadence[s]: "daily" or "weekly"
    Slot,        \* Slot[s]: the second of the day a schedule asks for
    DayOfWeek,   \* DayOfWeek[s]: the day of the week (of a weekly schedule)
    Day,         \* seconds in a day
    Week,        \* days in a week
    BatchLimit,  \* rows read by one pass (LIMIT 10)
    Edited,      \* bound: the schedules users enable, disable and delete
    MaxTime,     \* bound: the clock stops here
    MaxFaults,   \* bound: transactions that fail
    MaxKills     \* bound: times the backend is killed

ASSUME TimetableAssumption ==
    /\ Day \in Nat \ {0} /\ Week \in Nat \ {0}
    /\ Cadence \in [Schedules -> {"daily", "weekly"}]
    /\ Slot \in [Schedules -> 0 .. Day - 1]
    /\ DayOfWeek \in [Schedules -> 0 .. Week - 1]

ASSUME BoundsAssumption ==
    /\ Null \notin Profiles
    /\ BatchLimit \in Nat \ {0} /\ Edited \subseteq Schedules
    /\ MaxTime \in Nat /\ MaxFaults \in Nat /\ MaxKills \in Nat

VARIABLES
    now,        \* the wall clock
    linked,     \* were the tables made by this version?  (see Referring)
    rows,       \* the table `schedules`
    profiles,   \* the table `api_auth_profiles`
    scans,      \* the scans made by schedules, in the order of their ids
    alive,      \* is the backend running?
    pc,         \* where the scheduler thread stands
    batch,      \* the rows its pass has read and not yet served
    strays,     \* history: scans made since the row was disabled or deleted
    faults, kills

tableVars == <<rows, profiles, scans>>
threadVars == <<pc, batch>>
boundVars == <<faults, kills>>
vars == <<now, linked, tableVars, alive, threadVars, strays, boundVars>>

-----------------------------------------------------------------------------
(* compute_next_run.  The candidate is the wanted second of today, or of   *)
(* the next wanted weekday; when it is not after the given time it moves   *)
(* by a whole period.                                                      *)
Midnight(t) == t - (t % Day)
Weekday(t) == (t \div Day) % Week

Period(s) == IF Cadence[s] = "daily" THEN Day ELSE Week * Day

Candidate(s, t) ==
    Midnight(t) + Slot[s]
    + IF Cadence[s] = "daily" THEN 0 ELSE ((DayOfWeek[s] - Weekday(t)) % Week) * Day

NextRun_PeriodTooFar(s, t) == Candidate(s, t) + Period(s)

NextRun(s, t) ==
    IF Candidate(s, t) <= t THEN Candidate(s, t) + Period(s) ELSE Candidate(s, t)

-----------------------------------------------------------------------------
Absent == [state |-> "absent", next |-> 0, profile |-> Null]

Init ==
    /\ now = 0
    /\ linked \in BOOLEAN
    /\ rows = [s \in Schedules |-> Absent]
    /\ profiles = Profiles
    /\ scans = <<>>
    /\ alive = TRUE
    /\ pc = "idle" /\ batch = {}
    /\ strays = [s \in Schedules |-> 0]
    /\ faults = 0 /\ kills = 0

Present(s) == rows[s].state \in {"on", "off"}
Due_Disabled(s) == Present(s) /\ rows[s].next <= now
Due(s) == rows[s].state = "on" /\ rows[s].next <= now

Advance ==
    /\ now < MaxTime
    /\ now' = now + 1
    /\ UNCHANGED <<linked, tableVars, alive, threadVars, strays, boundVars>>

-----------------------------------------------------------------------------
(* The users' requests, each one transaction.                              *)

(* What a row may name in auth_profile_id.  The column is a foreign key in *)
(* tables made by this version (db.py 117, 215); in those of an older one  *)
(* it was added without (265, 284), and nobody looks whether it holds.     *)
Referring == IF linked THEN profiles \cup {Null} ELSE Profiles \cup {Null}

(* A foreign key that fails is HTTP 500, and no row. *)
CreateSchedule(s, p) ==
    /\ alive /\ rows[s].state = "absent"
    /\ p \in Referring
    /\ rows' = [rows EXCEPT ![s] = [state |-> "on", next |-> NextRun(s, now), profile |-> p]]
    /\ UNCHANGED <<now, linked, profiles, scans, alive, threadVars, strays, boundVars>>

Enable(s) ==
    /\ alive /\ Present(s)
    /\ rows' = [rows EXCEPT ![s].state = "on", ![s].next = NextRun(s, now)]
    /\ strays' = [strays EXCEPT ![s] = 0]
    /\ UNCHANGED <<now, linked, profiles, scans, alive, threadVars, boundVars>>

Disable(s) ==
    /\ alive /\ Present(s)
    /\ rows' = [rows EXCEPT ![s].state = "off"]
    /\ UNCHANGED <<now, linked, profiles, scans, alive, threadVars, strays, boundVars>>

DeleteSchedule(s) ==
    /\ alive /\ Present(s)
    /\ rows' = [rows EXCEPT ![s].state = "deleted"]
    /\ UNCHANGED <<now, linked, profiles, scans, alive, threadVars, strays, boundVars>>

(* ON DELETE SET NULL in both tables that refer to a profile, where the    *)
(* reference is a foreign key.                                             *)
Forgetting(p, q) == IF linked /\ q = p THEN Null ELSE q

RemoveProfile(p) ==
    /\ alive /\ p \in profiles
    /\ profiles' = profiles \ {p}
    /\ rows' = [s \in Schedules |-> [rows[s] EXCEPT !.profile = Forgetting(p, @)]]
    /\ scans' = [i \in DOMAIN scans |-> [scans[i] EXCEPT !.profile = Forgetting(p, @)]]
    /\ UNCHANGED <<now, linked, alive, threadVars, strays, boundVars>>

-----------------------------------------------------------------------------
(* The scheduler thread.                                                   *)

Snapshot(s) == [schedule |-> s, due |-> rows[s].next, profile |-> rows[s].profile]

(* tick: the BatchLimit due rows with the earliest next_run.               *)
Tick ==
    /\ alive /\ pc = "idle"
    /\ \E B \in SUBSET {s \in Schedules : Due(s)} :
         /\ B # {}
         /\ Cardinality(B) <= BatchLimit
         /\ \A s \in Schedules \ B :
              Due(s) => /\ Cardinality(B) = BatchLimit
                        /\ \A b \in B : rows[b].next <= rows[s].next
         /\ batch' = {Snapshot(s) : s \in B}
    /\ pc' = "row"
    /\ UNCHANGED <<now, linked, tableVars, alive, strays, boundVars>>

First(b) == b \in batch /\ \A c \in batch : b.due <= c.due

(* A plausible bug: a connection that does not turn foreign keys on. *)
ReferencesHold_Unchecked(b) == b.profile \in Profiles \cup {Null}

ReferencesHold(b) == b.profile \in Referring

ScanOf(b) ==
    [schedule |-> b.schedule, due |-> b.due, at |-> now, profile |-> b.profile, handed |-> FALSE]

(* create_due_scan, first transaction: the scan is inserted from the copy  *)
(* of the row and next_run moves, if the row still exists.                 *)
CreateDue_NotMoved(b) ==
    /\ alive /\ pc = "row" /\ First(b) /\ ReferencesHold(b)
    /\ scans' = Append(scans, ScanOf(b))
    /\ strays' = IF rows[b.schedule].state = "on" THEN strays
                 ELSE [strays EXCEPT ![b.schedule] = @ + 1]
    /\ batch' = batch \ {b}
    /\ pc' = "audit"
    /\ UNCHANGED <<now, linked, rows, profiles, alive, boundVars>>

CreateDue(b) ==
    /\ alive /\ pc = "row" /\ First(b) /\ ReferencesHold(b)
    /\ scans' = Append(scans, ScanOf(b))
    /\ rows' = IF Present(b.schedule)
               THEN [rows EXCEPT ![b.schedule].next = NextRun(b.schedule, now + 1)]
               ELSE rows
    /\ strays' = IF rows[b.schedule].state = "on" THEN strays
                 ELSE [strays EXCEPT ![b.schedule] = @ + 1]
    /\ batch' = batch \ {b}
    /\ pc' = "audit"
    /\ UNCHANGED <<now, linked, profiles, alive, boundVars>>

(* An exception leaves tick: the rest of the batch waits for the next one. *)
Abandon_ThreadEnds ==
    /\ batch' = {} /\ pc' = "dead"

Abandon ==
    /\ batch' = {} /\ pc' = "idle"

(* The profile was removed after the row was read.                         *)
ReferenceFails(b) ==
    /\ alive /\ pc = "row" /\ First(b) /\ ~ReferencesHold(b)
    /\ Abandon
    /\ UNCHANGED <<now, linked, tableVars, alive, strays, boundVars>>

(* The transaction of the scan, or that of the audit event, fails.         *)
TransactionFails ==
    /\ alive /\ pc \in {"row", "audit"} /\ faults < MaxFaults
    /\ faults' = faults + 1
    /\ Abandon
    /\ UNCHANGED <<now, linked, tableVars, alive, strays, kills>>

Audit ==
    /\ alive /\ pc = "audit"
    /\ pc' = "submit"
    /\ UNCHANGED <<now, linked, tableVars, alive, batch, strays, boundVars>>

Submit_LastOnly ==
    /\ alive /\ pc = "submit"
    /\ scans' = IF batch = {} THEN [scans EXCEPT ![Len(scans)].handed = TRUE] ELSE scans
    /\ pc' = IF batch = {} THEN "idle" ELSE "row"
    /\ UNCHANGED <<now, linked, rows, profiles, alive, batch, strays, boundVars>>

Submit ==
    /\ alive /\ pc = "submit"
    /\ scans' = [scans EXCEPT ![Len(scans)].handed = TRUE]
    /\ pc' = IF batch = {} THEN "idle" ELSE "row"
    /\ UNCHANGED <<now, linked, rows, profiles, alive, batch, strays, boundVars>>

Kill ==
    /\ alive /\ kills < MaxKills
    /\ alive' = FALSE /\ kills' = kills + 1
    /\ Abandon
    /\ UNCHANGED <<now, linked, tableVars, strays, faults>>

(* startup starts a new thread; nothing of the old one is remembered.      *)
Restart ==
    /\ ~alive
    /\ alive' = TRUE
    /\ UNCHANGED <<now, linked, tableVars, threadVars, strays, boundVars>>

-----------------------------------------------------------------------------
SchedulerStep ==
    \/ Tick \/ Audit \/ Submit \/ TransactionFails
    \/ \E b \in batch : CreateDue(b) \/ ReferenceFails(b)

UserStep ==
    \/ \E s \in Edited : Enable(s) \/ Disable(s) \/ DeleteSchedule(s)
    \/ \E s \in Schedules, p \in Referring : CreateSchedule(s, p)
    \/ \E p \in profiles : RemoveProfile(p)

Next == Advance \/ UserStep \/ SchedulerStep \/ Kill \/ Restart

Spec == Init /\ [][Next]_vars

(* The thread never sleeps longer than 30 seconds and never leaves _loop.  *)
FairSpec == Spec /\ WF_vars(SchedulerStep)

-----------------------------------------------------------------------------
RowType ==
    [state : {"absent", "on", "off", "deleted"}, next : Int, profile : Profiles \cup {Null}]

ScanType ==
    [schedule : Schedules, due : Int, at : Int, profile : Profiles \cup {Null}, handed : BOOLEAN]

(* Every variable holds a value of its type; a scan is being made exactly  *)
(* when the thread stands after the first transaction; and a batch holds a *)
(* schedule once.                                                          *)
TypeOK ==
    /\ now \in Nat /\ linked \in BOOLEAN
    /\ rows \in [Schedules -> RowType]
    /\ profiles \subseteq Profiles
    /\ scans \in Seq(ScanType)
    /\ alive \in BOOLEAN
    /\ pc \in {"idle", "row", "audit", "submit"}
    /\ batch \subseteq [schedule : Schedules, due : Int, profile : Profiles \cup {Null}]
    /\ \A b, c \in batch : b.schedule = c.schedule => b = c
    /\ pc = "idle" => batch = {}
    /\ pc = "row" => batch # {}
    /\ pc \in {"audit", "submit"} => scans # <<>> /\ ~scans[Len(scans)].handed
    /\ ~alive => pc = "idle"
    /\ strays \in [Schedules -> Nat]
    /\ faults \in 0 .. MaxFaults /\ kills \in 0 .. MaxKills

(* However late the thread is, and whatever fails or is killed, runs that  *)
(* were missed coalesce into one scan and no due time is served twice:     *)
(* what a scan answers to fell due after the schedule's previous scan was  *)
(* made (the insert and the new next_run are one transaction, 34-55).      *)
OneRunPerOutage ==
    \A i, j \in 1 .. Len(scans) :
        i < j /\ scans[i].schedule = scans[j].schedule => scans[i].at < scans[j].due

(* t is a time the schedule asks for.                                      *)
OnTimetable(s, t) ==
    /\ t % Day = Slot[s]
    /\ Cadence[s] = "weekly" => Weekday(t) = DayOfWeek[s]

(* An enabled schedule waits for a time on its timetable, and for the      *)
(* first one to come: no occurrence is passed over, but for one that falls *)
(* within the second after a scan was made (51: "+ timedelta(seconds=1)"). *)
NoneSkipped ==
    \A s \in Schedules : rows[s].state = "on" =>
        /\ OnTimetable(s, rows[s].next)
        /\ \A u \in now + 2 .. rows[s].next - 1 : ~OnTimetable(s, u)

(* A schedule that is disabled or deleted while a pass holds a copy of its *)
(* row still makes the scan of that copy, and never a second one.          *)
StraysAtMostOne == \A s \in Schedules : strays[s] <= 1

Unhanded == {i \in 1 .. Len(scans) : ~scans[i].handed}

(* A scan that is committed and not handed to the worker pool (nothing     *)
(* looks for it again) is the one in the thread's hands, or was left by a  *)
(* failed transaction or a kill, which leave one each at most.             *)
StrandedOnlyByFailure ==
    Cardinality(Unhanded) <= faults + kills + (IF pc \in {"audit", "submit"} THEN 1 ELSE 0)

(* Scans are made from a copy of the row that may be older than the        *)
(* removal of the profile it names.  With the foreign keys of db.py 117    *)
(* and 215, neither a schedule nor a scan ever refers to a profile that is *)
(* gone.  Without them (265, 284) a scan keeps the profile its schedule    *)
(* was made with, removed or not, and is never made without one.           *)
ProfilesFollow ==
    /\ linked =>
         /\ \A s \in Schedules : rows[s].profile \in profiles \cup {Null}
         /\ \A i \in 1 .. Len(scans) : scans[i].profile \in profiles \cup {Null}
    /\ ~linked => \A i \in 1 .. Len(scans) :
         scans[i].profile = rows[scans[i].schedule].profile

(* While the backend runs, a due schedule does not stay due: a row that    *)
(* makes a pass fail does not starve the rows behind it.                   *)
DueIsServed == \A s \in Schedules : Due(s) ~> (~Due(s) \/ ~alive)
=============================================================================
