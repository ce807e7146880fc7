# Formal models of YashSec Autopilot

This directory holds TLA+ modules for the program logic of
`src/YashSec-Autopilot`, the TLC configurations that check them on small
instances, and proofs that TLAPS checks for every value of the constants.
YashSec Autopilot is the only long-running, concurrent and persistent program of
the repository; the other four projects are command-line tools and dashboards.
Paths below are relative to `src/YashSec-Autopilot/` unless they begin with
`src/`.

Run a check with `tlc -workers 2 -config <X>.cfg <MC module>` and a proof with
`tlapm <X>Proofs.tla`. `PROJECT.json` lists the runs, the mutants each property
is sensitive to, the source lines of every definition, the findings, the hazards
and the theorems.

## 1. The system

A FastAPI backend serves a browser or a desktop shell. Its threads are the
request handlers (FastAPI's thread pool), the scan workers
(`ThreadPoolExecutor(max_workers=settings.max_scan_workers)`), one scheduler
daemon thread, and the thread that runs startup and shutdown. They share

* an SQLite database behind one process-wide lock: each `with db.connection()`
  takes the lock, runs one transaction and commits or rolls back (`app/db.py:24-40`);
* the process table `_processes` / `_log_handles` behind a lock of its own
  (`app/core/process_manager.py:20-22`);
* the dictionary `_STEP_UP` of password confirmations (`app/core/security.py`);
* files: logs, backups, secrets, cloned repositories.

A handler that uses two transactions can be interleaved with anything between
them, and this is where most of the hazards come from.

| Component | State | Operations | Hard behaviours | What makes it correct |
|---|---|---|---|---|
| Process manager (`process_manager.py`) | running applications and their log handles, per repository | start (replaces), stop, stop_all, probe | check-then-act outside the lock; shutdown against starts | one application per repository, none lost, shutdown ends all |
| Scan engine (`scan_engine.py`, scan endpoints) | scan rows (status, stages, tool status, progress, summary, cancel flag), findings, worker queue | create, submit, execute, cancel, cleanup | cancellation against execution, failures in the middle, shutdown with queued scans, kill | rows that agree with the evidence; applications that do not outlive their scan; every scan ends |
| Scheduler (`scheduler.py`, schedule endpoints) | schedule rows, the pass in progress | tick, create_due_scan, submit; create, enable, disable, delete | rows used after they were read; kill between transactions; one failing row ends a pass | missed runs coalesce, none is run twice or skipped, what is due is served |
| Backups (`backup_service.py`, `db.init_db`) | database file, `backups` table inside it, backup files, temporary file | create, retain, restore, migrate | the list is part of what is restored; kill and failure anywhere; undeletable files; two restores over one temporary file | manual backups kept, restore puts in place what was validated, no migration without a copy |
| Accounts (`security.py`, account endpoints, `db._seed_rbac`) | users, roles, failure counts, sessions, confirmations | setup, login, logout, admit, manage users, confirm, accept risk, seed at startup | requests interleave; counting windows; state that a restart changes | lockouts, expiry, revocation, one use per confirmation, an owner exists |
| Audit trail (`security.audit`, `audit_chain.py`, `db._rebuild_audit_chain`) | rows of events chained by hashes, in every copy of the database | append, verify, rebuild | restores of older trails, migrations that hash old events, kills | what was appended verifies; one edit shows |
| Authentication profiles, credential store (`auth_profiles.py`, `credential_store.py`) | profile rows, encrypted files, the key file | create, replace secret, verify, remove, resolve for a scan | network request between read and write; two stores without a transaction | a row and its secret agree; a verdict is about the current secret; a scan never drops its profile silently |
| Repository import (`repo_service.py`, import endpoints) | directories, rows, memberships | add a local folder, clone, unzip | name collisions; a directory chosen before it is made; the window in which an archive is flattened; timeouts of git; two transactions for one project | a project's directory holds its files and no others; nothing half done but by a failure |
| Demo mode (`demo_mode.py`, demo endpoints) | the demo's account, sessions of visitors, request times by address | seed at startup, open a session, trim | one data directory started in either mode; times read before the lock | the demo only views; its limit holds; it locks nobody out |
| Target policy, dynamic scanner, scanner adapters, normaliser, reports, AI | rows written once, or none | | I/O, string handling | |
| Desktop shell (`desktop/src-tauri`) | the backend process | spawn, kill | kills without a shutdown hook | modelled as the action `Kill` |
| `src/CLIENT360`, `src/Risk-Audit` | none between audits | analyzers and risk scores over CSV or XML | boundary values; types that depend on a whole column | what is exposed is reported; worse never scores better; "Low" means low |
| `src/arp_spoofing_detection&simulation`, `src/subdomain_enumerator` | none that lasts | | network I/O | |

Interactions: create_scan, and the scheduler, insert a scan row and hand it to
the executor; a worker reads it, starts the repository's application through the
process manager, runs scanners, writes stages and findings, and stops the
application; users start and stop the same application through the API; schedules
and scans refer to authentication profiles; a restore replaces the database under
all of them; a restart runs `init_db`, which migrates and seeds, and in demo mode
`seed_demo_workspace`, which writes to the same accounts; imports run in request handlers,
and a git they wait for ends with the backend.

## 2. The modules

| Module | Models | Abstraction |
|---|---|---|
| `RepositoryRuntime` | what the process manager promises of an application whose launch no other operation overlaps: at most one per repository, launched where none runs, never revived; `Forfeit` gives up the others | abstract specification |
| `ProcessManager` | every access to the two dictionaries, terminate and Popen as separate steps of concurrent threads that nothing keeps apart; `shutdown` walking its snapshot; the end of the backend | a process is an identity; command and environment left out |
| `ScanLifecycle` | what a user may rely on: queued, running, then one final status; at most `MaxWorkers` executing; the final row does not change | abstract specification |
| `ScanEngine` | `create_scan`, `submit_scan`, `_execute_scan` transaction by transaction with its `except` and `finally` clauses, `request_cancel`, shutdown, kill, restart | scanner results are `Outcomes`, findings are fingerprints; of the process manager only what its calls return, at the step at which they return |
| `ScanApplications` (extends `ProcessManager`, instantiates `ScanEngine`) | scans, users and the shutdown hook as threads inside the process manager: a scan's call begins, goes through its lock sections and returns | a worker thread executes one scan and is named after it |
| `Schedules` | the scheduler thread's passes, `compute_next_run`, schedule endpoints, profile removal with and without foreign keys, kill, restart | time in seconds with a small day and week |
| `AuditTrail` | `event_hash`, `audit`, `verify_audit_chain`, `_rebuild_audit_chain` and edits by another program, as operators | SHA-256 is injective: a hash is the sequence of the events that went into it; the hashed columns are one event |
| `Backups` (extends `AuditTrail`) | `create_backup`, `_apply_retention`, `restore_backup`, `init_db` as steps with failures, undeletable files, kills; the events that handlers and other requests record | a database is its `backups` rows, its audit trail and whether its schema is current, old or not there |
| `Accounts` | setup, login and lockout, sessions, roles, confirmations, restart | tokens are model values, permissions are sets of roles |
| `AuthProfiles` | profile endpoints as steps over row, file and key file; the scans that resolve a profile; failures and kills | a secret is a number, an encrypted file its secret and the key it was written with |
| `Projects` | `clone_repository`, `extract_zip_repository`, the endpoints that call them and insert row and membership, step by step with failures and kills | a directory is the set of imports whose files are in it, each in part or whole |
| `Workspace` (extends `Projects`) | one data directory under backends in local and in demo mode: setup, users, role seeding, `seed_demo_workspace`, sessions for visitors with their limit and trimming | other accounts' logins are in `Accounts`; a request of a visitor is its address and its time |
| `RiskScore`, `Client360`, `InfraScope` | score and label; the five analyzers; the nmap parser and risk engine, as operators | a row is a record of the cells that rules look at, a finding its rule, row and severity |
| `Audits` (extends those three) | audits repeated while the tables change | one table has rows, the others only headers |

Nothing in `process_manager.py` keeps two operations on one repository apart, and no module
assumes that anything does. What an overlap costs is stated instead: a history variable notes the
threads whose operation met another on its repository (`contended`) and the processes such an
operation has registered (`exposed`); `Undisturbed` are the running processes of this backend that are not
among them. `process_manager_overlap` shows what happens to the others. The properties of `ProcessManager` and
`ScanApplications` are about the undisturbed ones, under any overlap, also one that begins after they
were registered: a later caller cannot lose them. Where callers never overlap on a repository, all of its
processes are undisturbed (`OneRepositoryAtATime`), so that a lock per repository, and no wider one,
would be enough.

In `ScanApplications` each step is one of `ProcessManager` or of `ScanEngine` or, where a call
begins or returns, of both. That the composition implements each of the two is proved (`ManagerImplemented`,
`EngineImplemented`), so that what either promises by itself holds in it.

A database that a version without authentication profiles has made gets the columns
`auth_profile_id` by `ALTER TABLE` and without a foreign key (`db.py:265`, `284`, against `117`, `215`).
`Schedules` and `AuthProfiles` are about both: `linked` says which of the two the installation has.

How state corresponds: `ScanEngine`'s `status`, `stages`, `tools`, `progress`
and so on are columns of `scans`; its `pc` and the variables of `localVars` are the locals of
`_execute_scan`; `queue` is the executor's. `Schedules`' `batch` and `next` are
the rows `tick` has fetched and the loop over them. `Backups`' `live` is
`data/yashsec.db`, `disk` the backup directory, `tmp` the restore's temporary
file. `Accounts`' `users` joins `users` and `user_roles`, its `job` is the request
a handler is in the middle of. `AuthProfiles`' `rows` is `api_auth_profiles`,
`store` the encrypted files and `key` the key file. `Projects`' `dirs` is
`REPOSITORY_DIR`, `projects` and `members` are `repositories` and
`project_memberships`, `job` the import a handler serves. `Workspace`'s `accounts`
joins `users` and `user_roles`, `sessions` holds those of the demo's account,
`stamps` is `_DEMO_SESSION_REQUESTS`, `visit` a visitor's request under way. `Audits`' `rows` is an exported
table and `report` the findings, score and label made from it. History variables (`strays`, `picked`, `wrong`,
`assigned`, `ended`, `accepted`, `tried`, `raced`, `cut`, `contended`, `exposed`, `left`, `doomed`, `launches`, `abandoned`, `edited`, `first`, `admitted`, ...) only serve properties and no guard reads them;
`shared` in `Projects` also tells which of two things a failing git leaves: a directory it made, or one it found.

## 3. Runs and bounds

Passing runs:

* `scan_applications`: a scan that starts the application of its repository, one
  request thread of users and the shutdown hook, all inside the process manager; a second repository whose application
  only users start; two process launches, one fault, one stop (by the hook or a kill) and the next
  backend. Three threads let any two operations on a repository overlap lock by lock, the scan's start with a
  user's stop among them, and the hook walk its snapshot beside the scan; two launches let an application be replaced. Checks
  `OneInstance`, `NoOrphan`, `HandlesMatch`, `ShutdownStopsRegistered`, the refinement
  `ImplementsRuntime`, and of the composition `NoProcessLeftBehind` and `OrderlyShutdown`.
* `scan_evidence`: one scan, four kinds of request (starts its application; static;
  needs a URL nobody gave; has a URL and schema), all four outcomes of a scanner, a failed one with
  findings or without (`app/scanners/schemathesis.py:41-63`), two exceptions
  anywhere (the second one reaches the handler of the first), two stops of the
  backend, cancellation at any time. The row is judged against what happened:
  `StatusMatchesEvidence`, `ConclusionHonest`; and
  `CancelBounded`: after a cancellation at most the scanner under way goes on.
* `scan_lifecycle`: two scans and one worker, one fault, one stop; the refinement
  to `ScanLifecycle` and `EveryScanEnds` under fairness.
* `schedules_served`: two daily schedules and a weekly one, days of two seconds,
  weeks of two days, passes of two rows (so that one due row has to wait for the
  next pass), one failed transaction, one kill, one profile. From 0 to 3 the clock
  passes two days, so that each schedule falls due and is served or missed. Half of the initial states are of a database
  without the foreign keys.
* `backups_restore`: two handlers, also in two restores at once, four files, one automatic backup kept, one
  event of another request written to an empty trail, and one failure,
  undeletable file or kill, from a current and from an old database (with one event of the
  old kind, without hashes). Four files allow a backup, its restore (which makes another),
  the expiry of one of them, and a restore of a table that still lists it; and an old and
  a current backup whose restores cross at every step. The
  trails reach the length of the requests that fit.
* `accounts_sessions`: two users, two handlers, two sessions, one confirmation,
  two roles, a clock up to 2 with windows, locks and idle times of 1 and an
  absolute time of 2, and four events among wrong passwords (of one user), confirmations,
  role changes and restarts; `MaxFailures` is 2. `GuessesBounded` needs `2 * MaxFailures`
  wrong passwords to be violated, which is what four events allow.
* `auth_profiles`: two profiles under one name or two, two handlers, one scan,
  three secrets, two verifications, one failed transaction, one kill, with and without the foreign key. Three secrets
  are two creations and a replacement, enough for each pair of requests on one profile.
* `audits`: every table of two rows (three devices) whose cells lie on both
  sides of every boundary the analyzers draw, and every change of one row
  between two audits. Rules look at one row, or compare it with another (a
  repeated address, which three devices allow twice); a whole column matters only to the type of its ports,
  which one gap decides.
* `workspace`: two handlers and three imports under one name, with its two
  candidate directories and its `-flat` neighbour, which is also the
  directory of a project so named; a user and the demo's account; two visitors from one
  address with a window of 1, a limit of 2 and one session kept, a clock up to 2; one
  failure, and five events among imports, visits, account changes and
  restarts in either mode. Three imports are two that race and one that comes into what
  they left; five events let a local installation be set up, become a demo,
  admit visitors and return. The clock moves only in demo mode, the only one that reads it.

Type invariants are proved for every module and not checked again in the runs; so is `StagesTruthful`, which is only proved.

Violation runs, one finding each:

* `process_manager_overlap`: two overlapping starts of one repository leave an
  application that is in no table; the shutdown hook misses it.
* `scan_queued_cancel`: a cancellation granted while the scan is queued is erased
  by the transaction that begins the scan.
* `accounts_roles`: a viewer has the role `reviewer` as well after a restart.

`CHECK_DEADLOCK FALSE` is set where the bounds let the system come to rest (the
clock stops, no file or event is left, every scan has ended). Symmetry permutes
scans, handlers, threads or tokens that the properties treat alike, and is not used in the
runs with liveness.

### Exceptions that the properties state

The properties hold with exceptions that are behaviours of the code, each
visible in the formula. Where an exception is itself one of the hazards, the property does not
catch that hazard; it says that there is no other way to it.

* `OneInstance`, `NoOrphan`, `HandlesMatch`, `ShutdownStopsRegistered`, `NoProcessLeftBehind`,
  `OrderlyShutdown`: a process launched while another operation on its repository was in flight (`exposed`) may be
  lost from the table, run beside another, outlive its scan and survive the shutdown; `process_manager_overlap`
  shows it for the shutdown.
* `VerifiedIsCurrent`: a secret replaced while its verification is on the
  network, or replaced in the file by a transaction that then failed, is called verified for another.
* `SecretBehindRow`: two first profiles at once may both write the key file, and
  a secret encrypted with the overwritten key is lost.
* `RiskNeverRewarded`: the first open service on a host replaces the finding "no
  open services" and may be cheaper (`FirstService`); a gap in a column of ports
  makes pandas read all its ports as floats, `3389.0`, which no list of ports
  contains (`GapsIn`).
* `ExposureReported`: exposed firewall rules are reported except those in `Missed`, which are not: IPv6's
  everyone, `::/0`, and, unless the destination is open too, a rule for several ports or in a column of ports
  with a gap. The cloud's analyzer reports all of these, and README.md of
  CLIENT360 makes no such difference ("Firewall Rule Review").
* `AnonymousOnlyByRemoval`: the removal of a profile takes it out of the rows of scans still queued, which then run
  without it; not on a database without the foreign key, where they fail.
* `FilesIntact`, `NothingHalfDone`: git accepts a directory that is empty, which an
  archive's is just after it was made, and again while it is flattened; a clone that
  chose the name earlier may enter it (`shared`). What a timeout, a failed transaction or the end of the
  backend cuts off stays (`abandoned`).
* `DemoOnlyViews`: an account of the demo's name that was there before the demo is taken
  over, and a local startup gives it the role of its legacy column again.
* `RateHolds`: a request that read its time before another and takes the lock after
  it is admitted on top of the limit, since what it should count has been dropped.
* `RestoredIsChosen`: of two restores that met over the temporary file (`met`), one puts in
  place what the other chose or, if the other has moved the file away, the empty database that
  `sqlite3.connect` makes in the integrity check.
* `NoMigrationWithoutCopy`, `TrailTellsEdits`: a second restore may put an old database under
  the migration of the first, which then expands it without a copy; and if that one had found the
  present version, without hashing its events, so that the chain fails for good (`crossed`).
* `OwnerOrSetup`: a database whose first account was made by the demo has no owner and
  no setup; an owner who gave the role away gets it back with the next startup.

### Seen on the way

Behaviours met while modelling that no property is about:

* The row says `cancelled` before the application is stopped, although
  `docs/ARCHITECTURE.md:104` defines it as "cancellation was requested and cleanup completed".
* A wrong password of a confirmation is neither counted nor refused by a lock (`security.py:287-288`,
  `Accounts!RefuseConfirmation`): what `GuessesBounded` says of guessing is about login.
* A failed scan may keep stages that say `waiting` or `running` (`scan_engine.py:314-327`).
* On databases expanded from an older version a schedule or scan may go on naming a profile that was
  removed; its scans fail (`auth_profiles.py:195`).
* A scan whose application does not answer may take the answer of whatever listens on the
  port for it (`process_manager.py:292`).
* `create_schedule` (`main.py:1033-1051`) does not check that the profile is one of
  the schedule's repository; `create_scan` does (`main.py:757-759`).
* Restoring the oldest automatic backup that is kept deletes it: the pre-restore
  backup is one more, and retention takes the oldest (`Backups!SourceGone`).
* An empty database that two restores put in place (see above) has no account, so that
  the setup of the first start is open again. On Windows the connection of the integrity check,
  which `with` does not close, keeps the temporary file from being renamed at all.
* One finding of severity Critical alone leaves a client's label at "Medium".
* The audit trail shows one edit (`TrailTellsEdits`), but not a shortened tail, not
  recomputed hashes, and not what was altered before a migration rebuilt the
  chain. A kill between a restore and its event leaves no trace of the restore.
* `subprocess.TimeoutExpired` of a clone is caught neither by `clone_repository` (`repo_service.py:63`)
  nor by the endpoint: the user gets an internal error and the directory stays.
* A backend killed while it flattens an archive leaves `<name>-flat` behind; from then on every
  archive of that name that has to be flattened is refused (`Projects!MoveAside`).
* A visitor whose session could not be opened has used up an admission all the same.

## 4. Fairness

`ScanEngine!Fairness`: weak fairness of `TakeScan`, of `SubmitScan(s)` and of
`WorkerStep(s)`. The executor hands queued work to idle threads, a request
handler runs to its end, and each scanner runs under a timeout, as does the wait
for a URL (50 seconds). Nothing is assumed of users, of the
operating system, or of a restart. `Schedules!FairSpec`: weak fairness of
`SchedulerStep`; `_loop` catches every exception and waits 30 seconds at most.
The clock need not advance. All other modules state safety only.

`EveryScanEnds` excludes the scans whose exception handler itself raised (the
row stays `running`, see hazard at `scan_engine.py:316`) and those of a killed
backend; `DueIsServed` excludes what happens after a kill without a restart.

## 5. What is proved

All theorems hold for every value of the constants that satisfies the named
assumptions of the module (finiteness of bounds and disjointness of sets). Two of
`SchedulesProofs` and one of `ProcessManagerProofs` take one hypothesis more, that there are finitely many profiles,
or repositories: what they count is rows of tables. No theorem assumes that operations do not overlap, but
`OneRepositoryAtATime`, which is about where they do not.

Every invariant and action property that a run checks is a theorem. Those below
"Progress" and `OneRepositoryAtATime`, `OperationsRunOut`, `LastHashTellsAll`, `RetentionKeepsNewest` say more than the runs do.

* `ProcessManagerProofs`, for any number of callers that overlap as they like: `IInv` says that operations on
  one repository know of each other (`Overlaps`), that what an operation holds in its locals is what the table
  held or has been forgotten or replaced by one that overlaps it (`InFlight`), that what is registered was spawned for
  that repository, and what the hook has still to reach. The invariants do not mention locals, so none
  of them is inductive without it. From it: `AtMostOneInstance`, `NothingOrphaned`, `HandlesFollowProcesses`,
  `ShutdownReachesAll`, and `Refinement` to `RepositoryRuntime` (each step is a
  `Launch`, an `End`, a `Forfeit`, a `Crash` or a stutter). `OneRepositoryAtATime`: where no
  two operations on the one repository overlap at any time (`[]Alone(r)`), nothing on it is ever exposed,
  and the four invariants hold for all processes of r (`SafeAt(r)`).
  `OperationsRunOut`: six steps at most for an operation, eight for each entry of the
  snapshot for the shutdown hook, since starts during its loop do not enter its snapshot.
  *The composition*: `ManagerImplemented` and `EngineImplemented`, and with both `AppInv`: a scan is inside the process
  manager only at its two calls (`Linked`), an undisturbed application that a scan launched is at that call or the scan
  has it to stop (`Owned`), and what runs undisturbed beside or after the hook is among what the hook found or a scan's
  (`Closing`). From it: `NothingOutlivesItsScan`, `ShutdownIsOrderly`, for any number of scans and users of one repository.
* `ScanEngineProofs`: `IInv` ties a scan's `pc` to its row and to the queue.
  From it: `TypeCorrect` (with the arithmetic of progress), `CancelStopsScanners` and `Refinement` to `ScanLifecycle`.
  `ConclusionsAreHonest` needs the types and that a scan that is cancelled has a scanner left
  (so that its share is below 100 percent). A second invariant, `Evidence`, says of each
  moment of an execution which scanners are pending, that every selected one is pending
  or has a result and never both (`Accounting`), and that the row never knows more than the execution
  (`RowFollows`); it needs that the runners' indices run from 1 to their number without
  a gap (`IndexOnto`) and that no request names a scanner twice (`main.py:142-147`).
  It gives `StagesAreTruthful` and `StatusIsEarned`. *Progress*: `Rank` numbers the steps a scan has
  still to take. `ScansRunOut`: it is a natural number, no step of anyone raises it and every
  step of the scan lowers it, so that a scan of n scanners is through after 4n + 15 steps whatever
  fails. `ScansAreServed`: what waits is in the queue of a backend that executes, and where no worker is free one
  of the executions has a way to go. `EndsAreFinal`: who has no way to go has a final status,
  or its exception handler failed, or its backend ended. Together they are `EveryScanEnds` short of fairness; their
  invariant (`ProgressInv`) rests on the two before.
* `SchedulesProofs`: `NextRunLater` (the next run is in the future, from the
  arithmetic of days and weeks) and `NextRunOnTimetable` (it is the first time after the
  given one that the timetable names, from the uniqueness of quotients and remainders, since
  residues of days repeat after a week and not before); `IInv` adds that the times served increase
  along with `next_run` and that rows in hand are never newer than the table. From it:
  `RunsCoalesce`, `OneStray`, `ProfilesFollowed` (with foreign keys and without); and with types alone `NoOccurrenceSkipped` and
  `StrandedByFailureOnly`. *Progress*: `SchedulerNeverStuck` (a living thread can take its next step) and
  `NobodyStarves`. The second is about a triple for each schedule, in the order of
  dictionaries: what can still go wrong (`Setbacks`: failures and kills up to their bounds, and
  profiles whose removal can still fail an insert), the rows due before it, the steps left of the pass. While the
  schedule stays due no step of anyone makes the triple greater, and each step of the thread makes it
  less - which is why new schedules, ones enabled again and the end of a pass at its first
  failing row do not starve the rows behind. With `LeastNatural` no such order descends for ever: `DueIsServed` short of fairness.
* `BackupsProofs`: `IInv` has three parts beside the types. `Trails`: every database file of the present schema
  verifies. `Restoring`: until its copy the file that a restore is about
  holds what was validated or is gone; then the temporary file does, if the restore met no other,
  and if it did, what one of those chose, nothing, or an empty database. `Migrating`: no handler runs
  during startup, and who migrates an old database that nobody put under it has found it old and
  has a copy of it. The lemmas about `AuditTrail` carry the rest, for
  trails of any length: appending keeps a sound chain and does not
  hide a broken one (`AppendedVerifies`, `AppendedShows`), a rebuilt one is sound (`RebuiltProperties`), and an
  edited one is not (`EditShows`, where the injective hash is used). From it:
  `TypeCorrect`, `TrailsTellEdits`, `RestoredAsChosen`, `CopyBeforeMigration`. `Listing` is a second
  invariant, about every table that a restore may bring back, in whatever file it is: each agrees with the
  directory, all agree on which files are automatic, and a file that is still to be
  listed is in none. With only the present table it would not be inductive. It gives `FilesAndRows`.
  `LastHashTellsAll` is about more than one edit: in a trail that verifies each hash is the whole history up to it
  (`HashIsHistory`, by induction over positions), so a forged trail that verifies too, with any events and with
  hashes computed anew, ends in another last hash. Whoever keeps that hash elsewhere can tell; the
  code keeps none (see "Seen on the way"). `RetentionKeepsNewest`: if no file resists, `_apply_retention` leaves the newest `Keep` automatic
  rows, no more and no fewer, and deletes the files of exactly the others; `GreatestNatural`, by the same
  induction, finds the newest among what is left.
* `AccountsProofs`: `IInv` adds who holds sessions and requests, that an idle limit is
  within the last use plus the idle time and within the absolute one, that what has ended is
  not live, that the first owner's legacy column stays `admin`, that a confirmation
  spent or in use belongs to one request, and that the failure count counts the
  tail of the wrong passwords. From it: `LocksAreEarned`, `RolesDriftBounded`,
  `OneUsePerConfirmation`, `ExpiryHolds`, `EndedForGood`, `OwnerFound`. `GuessesLimited` has an
  invariant of its own (`Guesses`), since a stretch of time may reach back over two windows: where the present
  window and the one before it began, how many each counts (one more than `MaxFailures`
  at most, when a lock ends in the very second its window does) and the locks in between.
* `AuthProfilesProofs`: `IInv` says who knows a profile in the making, which key
  each secret was encrypted with, what a verification under way has read and what a scan
  names. From it: `SecretsAndRows`, `VerificationsCurrent`, `ScansAuthenticated`.
* `WorkspaceProofs`: `IInv` says what each import under way holds (`Claim`) and whose each
  file is (`Accounted`) - together why two imports that chose one directory cannot both
  fill it, nor a flattening return to another's -, which roles startups owe to accounts and sessions
  (`Accountable`, `Granted`, `Memberships`), and that the admissions a later request has to count are
  still in the table (`Counted`: an injection of admissions into times gives the limit, `FS_Injection`).
  From it: `FilesStayIntact`, `NothingLeftHalfDone`, `DemoViewsOnly`, `RateIsHeld`,
  `OwnerOrSetupOpen`.
* `AuditsProofs`: `MoreIsNeverBetter` (a larger set of findings never scores
  better), `LowIsLow` (from what a severity costs and where "Low" begins),
  `ExposuresReported`, and `RiskIsNeverRewarded`, for tables of any length and rows of any
  content. For the last, a lemma for each analyzer says that a worse row keeps its findings or, for users
  and backups, has a Critical one instead (`Replaced`); `PenaltyBySteps` writes the
  penalty as a sum over "at least so severe", so that an injection into
  findings at least as severe (`Dominated`) never lowers it.

Only model-checked: liveness (`EveryScanEnds`, `DueIsServed`), since fairness stands for `ENABLED`, about
which the provers know nothing. What carries both - a measure that only falls, a guard that holds while it is not
zero - is proved; that a fair step whose guard holds is taken in the end is what TLC adds.
Induction over a predicate of one's own is also out of reach, as the library's theorems take an operator;
`LeastNatural` stands in for it: a set of natural numbers that is not empty has a least member, from
`NatLessThanWellFounded` and `WFMin`, and a least counterexample refutes itself.

## 6. What is not modelled, and why

* The contents of logs, reports and messages: no property is about them.
* The decision of `target_policy`, patterns of the built-in scanner, parsing of
  tool output: string handling without state.
* What SQLite does to a write-ahead log when its file is replaced: outside the
  program. `Backups` replaces the file in one step, and copies one in one step: of two
  copies into the temporary file that overlap, the last one stays whole.
* In `Accounts` a transaction's clock reading and its execution are one step; the
  code reads the clock just before it waits for the lock.
* Of imports: the contents of a repository, the detection of its stack, the index; a
  folder that its user moves or edits after the import; the inside of unpacking, which is one step.
* Of the demo: the limit of requests to the AI assistant, which is the same algorithm
  (`main.py:62-73`), and the bundled scan and its findings, which are written once.
* The length of audit details and their redaction, and the verdict on the chain
  that startup keeps for the health page.
* Components with status `not_modelled` in `PROJECT.json`, each with its reason.

## 7. Plan

Written in this order: the process table, the scan engine, the two composed, schedules,
accounts, backups, authentication profiles, the two audit programs, the audit
trail inside the backups, imports and the demo. What is left, most important first:

1. The confirmations that a restore uses up, and the
   events that each request records, so that an action without its event shows.
2. The decision tree of `target_policy` over classes of addresses.
3. Proofs that the handlers of `AuthProfiles`, `Projects` and `Backups` run out of steps, as those of
   `ProcessManager` and `ScanEngine` do.

Sources in this order: `backup_service.py`; `scan_engine.py`, `security.py`,
`scheduler.py`; `src/CLIENT360/client360/analyzers`, `src/Risk-Audit/infrascope`;
`target_policy.py`, `dynamic_scanner.py`; `ai_service.py`.
