------------------------------- MODULE Backups -------------------------------
(***************************************************************************)
(* Backups of the database: app/core/backup_service.py, init_db in         *)
(* app/db.py and the backup endpoints of app/main.py, with the trail of    *)
(* audit events that every database file holds.                            *)
(*                                                                         *)
(* The list of backups is a table of the very database that is backed up   *)
(* and restored; the copies are files beside it.  Creating a backup is     *)
(* four steps (the copy, its row, retention, the audit event), restoring   *)
(* one is a dozen, and other requests run between any two, other restores  *)
(* too: they all copy their file to the same temporary one.  A handler may *)
(* fail, a file may resist deletion, the backend may be killed.  A file    *)
(* name carries the time to the microsecond and is taken to be new; a file *)
(* is not altered by others, so its checksum holds as long as it exists,   *)
(* and is copied in one step.                                              *)
(***************************************************************************)
EXTENDS AuditTrail, FiniteSets

CONSTANTS
    Handlers,     \* threads that serve backup and restore requests
    Main,         \* the thread that runs startup
    None,         \* no file, no database
    Keep,         \* automatic backups that retention keeps (10)
    MaxFiles,     \* bound: backup files; at the last one no handler starts
    MaxWrites,    \* bound: events in the trail, and files, when another request writes
    MaxFaults     \* bound: failed transactions, undeletable files and kills, together

ASSUME ConstantsAssumption ==
    /\ Main \notin Handlers
    /\ Keep \in Nat \ {0}
    /\ MaxFiles \in Nat /\ MaxWrites \in Nat /\ MaxFaults \in Nat

Threads == Handlers \cup {Main}
Files == 1 .. MaxFiles

VARIABLES
    live,         \* data/yashsec.db
    disk,         \* the directory of backups
    stamp,        \* the last file name used
    tmp,          \* data/yashsec.restore.tmp
    alive,
    pc,
    job,          \* job[t]: the local variables of thread t
    met,          \* history: handlers whose temporary file another restore has
                  \* used, or whose migration another has put a database under
    crossed,      \* history: an old database was put under a migration that had
                  \* found the present version
    faults

databaseVars == <<live, disk, stamp, tmp>>
threadVars == <<pc, job, met, crossed>>
vars == <<databaseVars, alive, threadVars, faults>>

(* What a database file holds: the table `backups` (a row's id is its      *)
(* place), the table `audit_logs`, and whether the schema is older than    *)
(* SCHEMA_VERSION, or not there at all.                                    *)
Row(f, a) == [file |-> f, auto |-> a, status |-> "completed"]
Database(log, schema) == [rows |-> <<>>, log |-> log, schema |-> schema]
Blank == Database(<<>>, "none")

(* A thread's locals: whether it is inside restore_backup, whether the     *)
(* backup it makes will be subject to retention, the file it restores, the *)
(* file it has just written, the schema that init_db found; and, for the   *)
(* properties, what the source held when validated.                        *)
NoJob == [restoring |-> FALSE, auto |-> FALSE, source |-> None, new |-> None, version |-> None, picked |-> None]

Init ==
    /\ live \in { Database(<<>>, "current"), Database(<<Unhashed("legacy")>>, "old") }
    /\ disk = [f \in Files |-> None]
    /\ stamp = 0 /\ tmp = None
    /\ alive = TRUE
    /\ pc = [t \in Threads |-> IF t = Main THEN "version" ELSE "idle"]
    /\ job = [t \in Threads |-> NoJob]
    /\ met = {} /\ crossed = FALSE
    /\ faults = 0

Serving == alive /\ pc[Main] = "idle"

Goto(t, step) == pc' = [pc EXCEPT ![t] = step]

(* The thread leaves, with an answer or with an exception; what it held in *)
(* local variables is gone.                                                *)
Leave(t) ==
    /\ Goto(t, "idle")
    /\ job' = [job EXCEPT ![t] = NoJob]
    /\ met' = met \ {t}
    /\ UNCHANGED crossed

(* An online copy of the database into a file of a new name.               *)
WriteFile(t) ==
    /\ stamp < MaxFiles
    /\ stamp' = stamp + 1
    /\ disk' = [disk EXCEPT ![stamp + 1] = live]
    /\ job' = [job EXCEPT ![t].new = stamp + 1]

-----------------------------------------------------------------------------
(* audit: the previous hash is read and the event inserted in one          *)
(* transaction.                                                            *)
Recorded(event) == [live EXCEPT !.log = Appended(@, event)]

(* Any other request: what is seen of it here is the event it records.     *)
(* Against an old schema every request fails as it authenticates (sessions *)
(* has no token_hash).                                                     *)
Write ==
    /\ Serving /\ live.schema = "current"
    /\ Len(live.log) < MaxWrites /\ stamp <= MaxWrites
    /\ live' = Recorded("request")
    /\ UNCHANGED <<disk, stamp, tmp, alive, threadVars, faults>>

(* POST /api/backups.  The reason is free text; "manual" and               *)
(* "user-created" are exempt from retention.                               *)
StartBackup(t, a) ==
    /\ Serving /\ pc[t] = "idle" /\ stamp < MaxFiles
    /\ Goto(t, "save")
    /\ job' = [job EXCEPT ![t].auto = a]
    /\ UNCHANGED <<databaseVars, alive, met, crossed, faults>>

(* POST /api/backups/{id}/restore: the row is read.                        *)
StartRestore(t, id) ==
    /\ Serving /\ pc[t] = "idle" /\ live.schema = "current" /\ stamp < MaxFiles
    /\ job' = [job EXCEPT ![t].restoring = TRUE, ![t].source = live.rows[id].file]
    /\ Goto(t, "validate")
    /\ UNCHANGED <<databaseVars, alive, met, crossed, faults>>

Validate(t) ==
    /\ alive /\ pc[t] = "validate" /\ disk[job[t].source] # None
    /\ job' = [job EXCEPT ![t].picked = disk[job[t].source],
                          ![t].auto = TRUE]        \* create_backup("pre-restore")
    /\ Goto(t, "save")
    /\ UNCHANGED <<databaseVars, alive, met, crossed, faults>>

NotAvailable(t) ==
    /\ alive /\ pc[t] = "validate" /\ disk[job[t].source] = None
    /\ Leave(t)
    /\ UNCHANGED <<databaseVars, alive, faults>>

-----------------------------------------------------------------------------
(* create_backup.                                                          *)

Save(t) ==
    /\ alive /\ pc[t] = "save"
    /\ WriteFile(t)
    /\ Goto(t, "insert")
    /\ UNCHANGED <<live, tmp, alive, met, crossed, faults>>

Insert(t) ==
    /\ alive /\ pc[t] = "insert" /\ live.schema = "current"
    /\ live' = [live EXCEPT !.rows = Append(@, Row(job[t].new, job[t].auto))]
    /\ Goto(t, "retain")
    /\ UNCHANGED <<disk, stamp, tmp, alive, job, met, crossed, faults>>

(* The automatic backups in excess: all but the Keep newest rows.          *)
Automatic == {i \in DOMAIN live.rows : live.rows[i].status = "completed" /\ live.rows[i].auto}

Excess == {i \in Automatic : Cardinality({j \in Automatic : j > i}) >= Keep}

Without(S) ==
    [f \in Files |-> IF \E i \in S : live.rows[i].file = f THEN None ELSE disk[f]]

Expiring_All(S) ==
    [i \in DOMAIN live.rows |->
        IF i \in Excess THEN [live.rows[i] EXCEPT !.status = "expired"] ELSE live.rows[i]]

Expiring(S) ==
    [i \in DOMAIN live.rows |->
        IF i \in S THEN [live.rows[i] EXCEPT !.status = "expired"] ELSE live.rows[i]]

AfterRetention(t) ==
    /\ Goto(t, IF job[t].restoring THEN "copy" ELSE "record")
    /\ job' = [job EXCEPT ![t].new = None, ![t].auto = FALSE]    \* create_backup returns
    /\ UNCHANGED <<met, crossed>>

(* _apply_retention, one transaction.  A file that cannot be deleted is    *)
(* passed over and its row stays `completed`.                              *)
Retain(t) ==
    /\ alive /\ pc[t] = "retain" /\ live.schema = "current"
    /\ \E S \in SUBSET Excess :
         /\ S # Excess => faults < MaxFaults
         /\ faults' = IF S = Excess THEN faults ELSE faults + 1
         /\ disk' = Without(S)
         /\ live' = [live EXCEPT !.rows = Expiring(S)]
    /\ AfterRetention(t)
    /\ UNCHANGED <<stamp, tmp, alive>>

(* The last step of both handlers: their audit event.                      *)
RecordEvent(t) ==
    /\ alive /\ pc[t] = "record" /\ live.schema = "current"
    /\ live' = Recorded("request")
    /\ Leave(t)
    /\ UNCHANGED <<disk, stamp, tmp, alive, faults>>

(* The files are deleted while the transaction of retention is open, and   *)
(* stay deleted when it does not commit.                                   *)
DeletionsStay(t) ==
    pc[t] = "retain" /\ live.schema = "current" /\ \E S \in SUBSET Excess : disk' = Without(S)

(* A transaction fails, or meets a database of the old schema (no table    *)
(* `backups`, no hashes) or without tables: the handler's exception ends   *)
(* the request.                                                            *)
TransactionFails(t) ==
    /\ alive /\ pc[t] \in {"insert", "retain", "record"}
    /\ live.schema = "current" => faults < MaxFaults
    /\ faults' = IF live.schema = "current" THEN faults + 1 ELSE faults
    /\ disk' = disk \/ DeletionsStay(t)
    /\ Leave(t)
    /\ UNCHANGED <<live, stamp, tmp, alive>>

-----------------------------------------------------------------------------
(* The rest of restore_backup.                                             *)

(* Restores that have made their copy and not yet put it in place.         *)
Window == {u \in Handlers : pc[u] \in {"check", "replace"}}

Copy_Once(t) ==
    /\ alive /\ pc[t] = "copy" /\ disk[job[t].source] # None
    /\ tmp' = IF tmp = None THEN disk[job[t].source] ELSE tmp
    /\ met' = IF Window = {} THEN met ELSE met \cup Window \cup {t}
    /\ job' = [job EXCEPT ![t].source = None]
    /\ Goto(t, "check")
    /\ UNCHANGED <<live, disk, stamp, alive, crossed, faults>>

(* shutil.copy2, over whatever a killed restore has left there, or another *)
(* one has just copied.                                                    *)
Copy(t) ==
    /\ alive /\ pc[t] = "copy" /\ disk[job[t].source] # None
    /\ tmp' = disk[job[t].source]
    /\ met' = IF Window = {} THEN met ELSE met \cup Window \cup {t}
    /\ job' = [job EXCEPT ![t].source = None]
    /\ Goto(t, "check")
    /\ UNCHANGED <<live, disk, stamp, alive, crossed, faults>>

(* The retention of the pre-restore backup has just deleted the source.    *)
SourceGone(t) ==
    /\ alive /\ pc[t] = "copy" /\ disk[job[t].source] = None
    /\ Leave(t)
    /\ UNCHANGED <<databaseVars, alive, faults>>

(* The integrity check.  Where another restore has taken the file away,    *)
(* sqlite3.connect makes an empty one, which is sound.                     *)
Check(t) ==
    /\ alive /\ pc[t] = "check"
    /\ tmp' = IF tmp = None THEN Blank ELSE tmp
    /\ Goto(t, "replace")
    /\ UNCHANGED <<live, disk, stamp, alive, job, met, crossed, faults>>

ReplaceFails(t) ==
    /\ alive /\ pc[t] = "replace" /\ tmp = None
    /\ Leave(t)
    /\ UNCHANGED <<databaseVars, alive, faults>>

(* The rename, which takes no lock.                                        *)
Replace(t) ==
    /\ alive /\ pc[t] = "replace" /\ tmp # None
    /\ live' = tmp
    /\ tmp' = None
    /\ met' = (met \ {t}) \cup {u \in Handlers : pc[u] \in {"secure", "upgrade"}}
    /\ job' = [job EXCEPT ![t].picked = None]
    /\ Goto(t, "version")
    /\ UNCHANGED <<disk, stamp, alive, crossed, faults>>

-----------------------------------------------------------------------------
(* init_db, at startup and after a restore: the version is read, an older  *)
(* database is copied, and then expanded.  A restore may put another one   *)
(* in its place in between.                                                *)

ReadVersion(t) ==
    /\ alive /\ pc[t] = "version"
    /\ job' = [job EXCEPT ![t].version = live.schema]
    /\ Goto(t, "secure")
    /\ UNCHANGED <<databaseVars, alive, met, crossed, faults>>

(* An empty file is not copied; but it may have grown a first page.        *)
NoCopyNeeded(t) ==
    /\ alive /\ pc[t] = "secure"
    /\ job[t].version = "current" \/ live = Blank
    /\ Goto(t, "upgrade")
    /\ UNCHANGED <<databaseVars, alive, job, met, crossed, faults>>

(* The present schema; the chain is built anew if the version was old.     *)
Expanded(t) ==
    [live EXCEPT !.schema = "current", !.log = IF job[t].version = "current" THEN @ ELSE Rebuilt(@)]

PreMigrationBackup_After(t) ==
    /\ alive /\ pc[t] = "secure" /\ job[t].version # "current"
    /\ stamp < MaxFiles
    /\ stamp' = stamp + 1
    /\ disk' = [disk EXCEPT ![stamp + 1] = Expanded(t)]
    /\ job' = [job EXCEPT ![t].new = stamp + 1]
    /\ Goto(t, "upgrade")
    /\ UNCHANGED <<live, tmp, alive, met, crossed, faults>>

PreMigrationBackup(t) ==
    /\ alive /\ pc[t] = "secure" /\ job[t].version # "current"
    /\ WriteFile(t)
    /\ Goto(t, "upgrade")
    /\ UNCHANGED <<live, tmp, alive, met, crossed, faults>>

(* The tables are expanded, or made, and the copy is listed; the new       *)
(* user_version is the last write, and a killed migration is done again    *)
(* from the start.                                                         *)
Upgrade(t) ==
    /\ alive /\ pc[t] = "upgrade"
    /\ live' = IF job[t].new = None THEN Expanded(t)
               ELSE [Expanded(t) EXCEPT !.rows = Append(@, Row(job[t].new, TRUE))]
    /\ IF job[t].restoring
       THEN /\ Goto(t, "record") /\ met' = met \ {t}
            /\ job' = [job EXCEPT ![t].version = None, ![t].new = None]    \* init_db returns
            /\ crossed' = (crossed \/ (job[t].version = "current" /\ live.schema = "old"))
       ELSE Leave(t)
    /\ UNCHANGED <<disk, stamp, tmp, alive, faults>>

-----------------------------------------------------------------------------
Kill ==
    /\ alive /\ faults < MaxFaults
    /\ alive' = FALSE /\ faults' = faults + 1
    /\ disk' = disk \/ \E t \in Handlers : DeletionsStay(t)
    /\ pc' = [t \in Threads |-> "idle"]
    /\ job' = [t \in Threads |-> NoJob]
    /\ met' = {}
    /\ UNCHANGED <<live, stamp, tmp, crossed>>

Restart ==
    /\ ~alive
    /\ alive' = TRUE
    /\ Goto(Main, "version")
    /\ UNCHANGED <<databaseVars, job, met, crossed, faults>>

Handle(t) ==
    \/ \E a \in BOOLEAN : StartBackup(t, a)
    \/ \E id \in DOMAIN live.rows : StartRestore(t, id)
    \/ Validate(t) \/ NotAvailable(t)
    \/ Save(t) \/ Insert(t) \/ Retain(t) \/ RecordEvent(t) \/ TransactionFails(t)
    \/ Copy(t) \/ SourceGone(t) \/ Check(t) \/ ReplaceFails(t) \/ Replace(t)

InitDb(t) == ReadVersion(t) \/ NoCopyNeeded(t) \/ PreMigrationBackup(t) \/ Upgrade(t)

Next ==
    \/ Write \/ Kill \/ Restart
    \/ \E t \in Handlers : Handle(t)
    \/ \E t \in Threads : InitDb(t)

Spec == Init /\ [][Next]_vars

-----------------------------------------------------------------------------
RowType == [file : Files, auto : BOOLEAN, status : {"completed", "expired"}]

Events == {"legacy", "request"}

DatabaseType ==
    [rows : Seq(RowType), log : Seq(EventType(Events)), schema : {"none", "old", "current"}]

JobType ==
    [restoring : BOOLEAN, auto : BOOLEAN, source : Files \cup {None}, new : Files \cup {None},
     version : {"none", "old", "current", None}, picked : DatabaseType \cup {None}]

(* No file and no database is told from every file and database.           *)
ASSUME NoneAssumption == None \notin DatabaseType \cup Files

Steps == {"idle", "validate", "save", "insert", "retain", "copy", "check", "replace",
          "version", "secure", "upgrade", "record"}

(* Every variable holds a value of its type, there is always a database,   *)
(* and a restore knows its file.                                           *)
TypeOK ==
    /\ live \in DatabaseType
    /\ stamp \in 0 .. MaxFiles
    /\ disk \in [Files -> DatabaseType \cup {None}]
    /\ \A f \in Files : disk[f] # None => f <= stamp
    /\ tmp \in DatabaseType \cup {None}
    /\ alive \in BOOLEAN
    /\ pc \in [Threads -> Steps]
    /\ job \in [Threads -> JobType]
    /\ \A t \in Threads : job[t].restoring /\ pc[t] \in {"validate", "save", "insert", "retain", "copy"} =>
          job[t].source \in Files
    /\ met \subseteq Handlers /\ crossed \in BOOLEAN
    /\ faults \in 0 .. MaxFaults

(* The database that a restore puts in place is the one that was chosen    *)
(* and validated, although the copy of the present one, its retention, the *)
(* other handlers and remains of a killed restore come in between          *)
(* (backup_service.py 84-97).  The exception are restores that met over    *)
(* the temporary file: such a one puts in place what another of them chose *)
(* or, if the other has taken the file away, an empty database.            *)
RestoredIsChosen ==
    [][\A t \in Handlers : pc[t] = "replace" /\ pc'[t] = "version" =>
         \/ live' = job[t].picked
         \/ t \in met /\ (live' = Blank \/ \E u \in Window : live' = job[u].picked)]_vars

(* A listed backup that was made as "manual" or "user-created" keeps its   *)
(* file, through retention, restores of older tables and kills (58-65).    *)
ManualKept ==
    \A i \in DOMAIN live.rows :
        ~live.rows[i].auto => live.rows[i].status = "completed" /\ disk[live.rows[i].file] # None

(* A backup that the table calls expired has no file left, also when a     *)
(* file could not be deleted or an older table came back (60-65).          *)
ExpiredMeansGone ==
    \A i \in DOMAIN live.rows : live.rows[i].status = "expired" => disk[live.rows[i].file] = None

(* A database of an older schema is expanded only while a copy of exactly  *)
(* that database is among the backups, at startup, after a kill and after  *)
(* the restore of an old backup (db.py 476-494 and 541-565); but not when  *)
(* a second restore has put it there in the middle of the migration.       *)
NoMigrationWithoutCopy ==
    [][\A t \in Threads : pc[t] = "upgrade" /\ pc'[t] # "upgrade" /\ alive' /\ live.schema = "old" =>
         t \in met \/ \E f \in Files : disk[f] = live]_vars

(* A file is listed at most once, whatever was restored in between, so a   *)
(* deletion for one row never takes the backup of another.                 *)
ListedOnce ==
    \A i, j \in DOMAIN live.rows : live.rows[i].file = live.rows[j].file => i = j

TellsEdits(d) ==
    d # None /\ d.schema = "current" =>
        /\ Verifies(d.log)
        /\ \A edited \in Edits(d.log) : ~Verifies(edited) /\ ~Verifies(Appended(edited, "request"))

(* Every database of the present schema, the live one and every copy, has  *)
(* a trail that verifies, through events of concurrent requests, kills,    *)
(* migrations that hash old events and restores of older trails that later *)
(* events continue; and one edit of it by another hand shows, at once and  *)
(* after the next event (verify_audit_chain, audit, _rebuild_audit_chain). *)
(* It ends when two restores met and the one migrated, as a present one,   *)
(* the old database of the other: its events are never hashed.             *)
TrailTellsEdits ==
    ~crossed => TellsEdits(live) /\ TellsEdits(tmp) /\ \A f \in Files : TellsEdits(disk[f])

(* The table and the directory of backups agree.                           *)
FilesMatchRows == ManualKept /\ ExpiredMeansGone /\ ListedOnce
=============================================================================
